---------------------------- MODULE OutboxProofs ----------------------------
(***************************************************************************)
(* Proofs about Outbox, for any rows, subjects and instances, any batch    *)
(* size and attempt limit: the safety properties of the dispatcher follow  *)
(* from OutboxInv, which every step keeps.                                 *)
(***************************************************************************)
EXTENDS Outbox, FiniteSetTheorems, NaturalsInduction, WellFoundedInduction, TLAPS

(***************************************************************************)
(* The least element of a set of numbers.                                  *)
(***************************************************************************)

LEMMA MinIsLeast ==
    ASSUME NEW S \in SUBSET Nat, S # {}
    PROVE  Min(S) \in S /\ \A n \in S : Min(S) <= n
<1> DEFINE R == OpToRel(<, Nat)
<1>1. IsWellFoundedOn(R, Nat)
  BY NatLessThanWellFounded
<1>2. \A n, m \in Nat : n < m => <<n, m>> \in R
  BY DEF OpToRel
<1> HIDE DEF R
<1>3. PICK m \in S : \A n \in S : ~(<<n, m>> \in R)
  BY <1>1, WFMin
<1>4. \A n \in S : m <= n
  <2> TAKE n \in S
  <2>1. ~(n < m)
    BY <1>2, <1>3
  <2>2. QED
    BY <2>1
<1>5. QED
  BY <1>4 DEF Min

\* A number above all others does not change the least one.
LEMMA MinStays ==
    ASSUME NEW S \in SUBSET Nat, S # {}, NEW n \in Nat, \A m \in S : m < n
    PROVE  Min(S \cup {n}) = Min(S)
<1> DEFINE T == S \cup {n}
<1>1. Min(S) \in S /\ Min(S) \in Nat /\ \A m \in S : Min(S) <= m
  BY MinIsLeast
<1>2. T \in SUBSET Nat /\ T # {} /\ S \subseteq T /\ \A m \in T : m \in S \/ m = n
  OBVIOUS
<1> HIDE DEF T
<1>3. Min(T) \in T /\ Min(T) \in Nat /\ \A m \in T : Min(T) <= m
  BY <1>2, MinIsLeast
<1>4. Min(T) <= Min(S)
  BY <1>1, <1>2, <1>3
<1>5. Min(S) <= Min(T)
  BY <1>1, <1>2, <1>3
<1>6. QED
  BY <1>1, <1>3, <1>4, <1>5 DEF T

LEMMA MinOfOne ==
    ASSUME NEW n \in Nat
    PROVE  Min({n}) = n
<1> DEFINE S == {n}
<1>1. S \in SUBSET Nat /\ S # {} /\ \A m \in S : m = n
  OBVIOUS
<1> HIDE DEF S
<1>2. Min(S) \in S
  BY <1>1, MinIsLeast
<1>3. QED
  BY <1>1, <1>2 DEF S

\* A set that loses at most one element.
LEMMA AtMostOneLess ==
    ASSUME NEW S, NEW T, NEW x, IsFiniteSet(T), S \subseteq T \cup {x}
    PROVE  /\ Cardinality(S) \in Nat /\ Cardinality(T) \in Nat
           /\ Cardinality(S) <= Cardinality(T) + 1
<1>1. /\ IsFiniteSet(T \cup {x}) /\ Cardinality(T) \in Nat
      /\ Cardinality(T \cup {x}) \in {Cardinality(T), Cardinality(T) + 1}
  BY FS_AddElement, FS_CardinalityType
<1>2. IsFiniteSet(S) /\ Cardinality(S) <= Cardinality(T \cup {x})
  BY <1>1, FS_Subset
<1>3. Cardinality(S) \in Nat
  BY <1>2, FS_CardinalityType
<1>4. QED
  BY <1>1, <1>2, <1>3

LEMMA NoLess ==
    ASSUME NEW S, NEW T, IsFiniteSet(T), S \subseteq T
    PROVE  /\ Cardinality(S) \in Nat /\ Cardinality(T) \in Nat
           /\ Cardinality(S) <= Cardinality(T)
<1>1. IsFiniteSet(S) /\ Cardinality(S) <= Cardinality(T)
  BY FS_Subset
<1>2. QED
  BY <1>1, FS_CardinalityType

-----------------------------------------------------------------------------
(***************************************************************************)
(* Ticks, batches and messages.                                            *)
(***************************************************************************)

\* What a tick can be.
Ticks == {IdleTick} \cup [pc : {"publishing", "marking"}, batch : SUBSET Rows, row : Rows]

LEMMA TickType ==
    ASSUME OutboxTypeOK, NEW i \in Instances
    PROVE  /\ tick \in [Instances -> Ticks]
           /\ tick[i].pc \in {"idle", "publishing", "marking"}
           /\ tick[i].batch \in SUBSET Rows
           /\ tick[i].pc = "idle" => tick[i].batch = {}
           /\ tick[i].pc # "idle" =>
                tick[i] \in [pc : {"publishing", "marking"}, batch : SUBSET Rows, row : Rows]
<1>1. tick \in [Instances -> Ticks]
  BY DEF OutboxTypeOK, Ticks
<1>2. tick[i] \in Ticks
  BY <1>1
<1>3. CASE tick[i] = IdleTick
  BY <1>1, <1>3 DEF IdleTick
<1>4. CASE tick[i] \in [pc : {"publishing", "marking"}, batch : SUBSET Rows, row : Rows]
  BY <1>1, <1>4
<1>5. QED
  BY <1>2, <1>3, <1>4 DEF Ticks

LEMMA RowType ==
    ASSUME OutboxTypeOK, NEW e \in Rows
    PROVE  /\ row[e].state \in {"absent", "pending", "published"}
           /\ row[e].attempts \in Nat
  BY OutboxAssumption, FS_CardinalityType DEF OutboxTypeOK

LEMMA CurrentIsOldest ==
    ASSUME OutboxTypeOK, TicksKept, NEW i \in Instances, tick[i].pc # "idle"
    PROVE  /\ Current(i) \in tick[i].batch /\ Current(i) \in Rows
           /\ \A e \in tick[i].batch : CreatedAt[Current(i)] <= CreatedAt[e]
<1>1. tick[i].batch \in SUBSET Rows
  BY TickType
<1>2. QED
  BY <1>1 DEF TicksKept, Oldest

LEMMA InstancesFinite ==
    /\ IsFiniteSet(Instances) /\ Cardinality(Instances) \in Nat
    /\ \A S : S \subseteq Instances => /\ IsFiniteSet(S) /\ Cardinality(S) \in Nat
                                       /\ Cardinality(S) <= Cardinality(Instances)
<1>1. IsFiniteSet(Instances) /\ Cardinality(Instances) \in Nat
  BY OutboxAssumption, FS_CardinalityType
<1>2. ASSUME NEW S, S \subseteq Instances
      PROVE  /\ IsFiniteSet(S) /\ Cardinality(S) \in Nat
             /\ Cardinality(S) <= Cardinality(Instances)
  BY <1>1, <1>2, FS_Subset, FS_CardinalityType
<1>3. QED
  BY <1>1, <1>2

\* A batch has a row when one is pending, and with a row every older pending one.
LEMMA BatchesAreOldest ==
    ASSUME OutboxTypeOK, NEW B \in Batches
    PROVE  /\ B \subseteq Pending /\ Pending \subseteq Rows
           /\ Pending # {} => B # {}
           /\ \A f \in B, e \in Pending : CreatedAt[e] < CreatedAt[f] => e \in B
<1>1. /\ B \subseteq Pending /\ Pending \subseteq Rows
      /\ Fitting(B)
      /\ \A e \in Pending \ B, f \in B : CreatedAt[f] <= CreatedAt[e]
  BY DEF Batches, Pending
<1>2. ASSUME B = {} PROVE Pending = {}
  BY <1>1, <1>2, FS_EmptySet, OutboxAssumption DEF Fitting
<1>3. ASSUME NEW f \in B, NEW e \in Pending, CreatedAt[e] < CreatedAt[f] PROVE e \in B
  <2>1. CreatedAt[e] \in Nat /\ CreatedAt[f] \in Nat
    BY <1>1, OutboxAssumption
  <2>2. QED
    BY <1>1, <1>3, <2>1
<1>4. QED
  BY <1>1, <1>2, <1>3

\* A tick takes a batch, or what is left of one.
LEMMA Taken ==
    ASSUME OutboxTypeOK, NEW i \in Instances, NEW B \in SUBSET Rows, Take(i, B)
    PROVE  /\ tick' \in [Instances -> Ticks]
           /\ tick'[i].batch = B
           /\ tick'[i].pc # "marking"
           /\ tick'[i].pc # "idle" => Current(i)' \in Oldest(B)
           /\ B # {} => tick'[i].pc = "publishing"
           /\ \A j \in Instances : j # i => tick'[j] = tick[j] /\ Current(j)' = Current(j)
<1>1. tick \in [Instances -> Ticks]
  BY TickType
<1>2. CASE B = {} /\ tick' = [tick EXCEPT ![i] = IdleTick]
  <2>1. tick'[i] = IdleTick /\ \A j \in Instances : j # i => tick'[j] = tick[j]
    BY <1>1, <1>2
  <2>2. tick' \in [Instances -> Ticks]
    BY <1>1, <1>2 DEF Ticks
  <2>3. QED
    BY <1>2, <2>1, <2>2 DEF IdleTick, Current
<1>3. ASSUME NEW e \in Oldest(B),
             tick' = [tick EXCEPT ![i] = [pc |-> "publishing", batch |-> B, row |-> e]]
      PROVE  /\ tick' \in [Instances -> Ticks]
             /\ tick'[i].batch = B
             /\ tick'[i].pc = "publishing"
             /\ Current(i)' = e
             /\ \A j \in Instances : j # i => tick'[j] = tick[j] /\ Current(j)' = Current(j)
  <2> DEFINE t == [pc |-> "publishing", batch |-> B, row |-> e]
  <2>1. t \in Ticks
    BY DEF Ticks, Oldest
  <2>2. t.batch = B /\ t.pc = "publishing" /\ t.row = e
    OBVIOUS
  <2> HIDE DEF t
  <2>3. tick' = [tick EXCEPT ![i] = t]
    BY <1>3 DEF t
  <2>4. tick'[i] = t /\ \A j \in Instances : j # i => tick'[j] = tick[j]
    BY <1>1, <2>3
  <2>5. tick' \in [Instances -> Ticks]
    BY <1>1, <2>1, <2>3
  <2>6. QED
    BY <2>2, <2>4, <2>5 DEF Current
<1>4. QED
  BY <1>2, <1>3 DEF Take

LEMMA PositionsType ==
    ASSUME OutboxTypeOK, NEW e
    PROVE  /\ Len(topic) \in Nat
           /\ Positions(e) \in SUBSET Nat /\ IsFiniteSet(Positions(e))
           /\ Cardinality(Positions(e)) \in Nat
           /\ \A n \in Positions(e) : n < Len(topic) + 1
<1>1. topic \in Seq(Rows) /\ Len(topic) \in Nat /\ DOMAIN topic = 1 .. Len(topic)
  BY DEF OutboxTypeOK
<1>2. Positions(e) \subseteq 1 .. Len(topic)
  BY <1>1 DEF Positions
<1>3. IsFiniteSet(1 .. Len(topic))
  BY <1>1, FS_Interval
<1>4. IsFiniteSet(Positions(e)) /\ Cardinality(Positions(e)) \in Nat
  BY <1>2, <1>3, FS_Subset, FS_CardinalityType
<1>5. \A n \in Positions(e) : n \in Nat /\ n < Len(topic) + 1
  BY <1>1, <1>2
<1>6. QED
  BY <1>1, <1>4, <1>5

LEMMA PositionsNext ==
    ASSUME OutboxTypeOK', NEW e
    PROVE  Cardinality(Positions(e)') \in Nat
<1>1. topic' \in Seq(Rows) /\ Len(topic') \in Nat /\ DOMAIN topic' = 1 .. Len(topic')
  BY DEF OutboxTypeOK
<1>2. Positions(e)' \subseteq 1 .. Len(topic')
  BY <1>1 DEF Positions
<1>3. IsFiniteSet(1 .. Len(topic'))
  BY <1>1, FS_Interval
<1>4. QED
  BY <1>2, <1>3, FS_Subset, FS_CardinalityType

\* A message is added after all the others.
LEMMA Sending ==
    ASSUME OutboxTypeOK, NEW r \in Rows, topic' = Append(topic, r)
    PROVE  /\ topic' \in Seq(Rows)
           /\ \A e : Positions(e)' = IF e = r THEN Positions(e) \cup {Len(topic) + 1}
                                     ELSE Positions(e)
           /\ \A e : Positions(e) # {} =>
                       /\ Positions(e)' # {}
                       /\ Min(Positions(e)') = Min(Positions(e))
           /\ Positions(r)' # {}
           /\ \A e : Cardinality(Positions(e)') <=
                       Cardinality(Positions(e)) + (IF e = r THEN 1 ELSE 0)
<1> DEFINE last == Len(topic) + 1
<1>1. topic \in Seq(Rows) /\ Len(topic) \in Nat
  BY DEF OutboxTypeOK
<1>2. /\ topic' \in Seq(Rows) /\ DOMAIN topic' = 1 .. last /\ DOMAIN topic = 1 .. Len(topic)
      /\ topic'[last] = r /\ \A n \in DOMAIN topic : topic'[n] = topic[n]
  BY <1>1
<1>3. ASSUME NEW e
      PROVE  Positions(e)' = IF e = r THEN Positions(e) \cup {last} ELSE Positions(e)
  BY <1>1, <1>2 DEF Positions
<1>4. ASSUME NEW e, Positions(e) # {}
      PROVE  /\ Positions(e)' # {}
             /\ Min(Positions(e)') = Min(Positions(e))
  <2>1. last \in Nat /\ Positions(e) \in SUBSET Nat /\ \A n \in Positions(e) : n < last
    BY <1>1, PositionsType
  <2>2. Min(Positions(e) \cup {last}) = Min(Positions(e))
    BY <1>4, <2>1, MinStays
  <2>3. QED
    BY <1>3, <1>4, <2>2
<1>5. ASSUME NEW e
      PROVE  Cardinality(Positions(e)') <= Cardinality(Positions(e)) + (IF e = r THEN 1 ELSE 0)
  <2> DEFINE was == Positions(e)
             after  == Positions(e)'
  <2>1. IsFiniteSet(was) /\ Cardinality(was) \in Nat
    BY PositionsType
  <2>2. after = IF e = r THEN was \cup {last} ELSE was
    BY <1>3
  <2> HIDE DEF was, after, last
  <2>3. CASE e = r
    <3>1. Cardinality(after) <= Cardinality(was) + 1
      BY <2>1, <2>2, <2>3, AtMostOneLess
    <3>2. QED
      BY <2>3, <3>1 DEF was, after
  <2>4. CASE e # r
    <3>1. Cardinality(after) = Cardinality(was) /\ Cardinality(was) \in Nat
      BY <2>1, <2>2, <2>4
    <3>2. Cardinality(after) <= Cardinality(was) + 0
      BY <3>1
    <3>3. QED
      BY <2>4, <3>2 DEF was, after
  <2>5. QED
    BY <2>3, <2>4
<1>6. Positions(r)' # {}
  BY <1>3
<1>7. QED
  BY <1>2, <1>3, <1>4, <1>5, <1>6

\* The current row of a batch is sent: the order of the first sendings is kept.
LEMMA SendingInOrder ==
    ASSUME OutboxInv, NEW i \in Instances, tick[i].pc # "idle",
           topic' = Append(topic, Current(i)), before' = before,
           \A e \in Rows : row'[e].attempts = 0 => row[e].attempts = 0
    PROVE  FirstSentInOrder'
<1> DEFINE r == Current(i)
<1>1. OutboxTypeOK /\ TicksKept /\ HistoryKept /\ BatchesInOrder /\ FirstSentInOrder
  BY DEF OutboxInv
<1>2. /\ r \in tick[i].batch /\ r \in Rows
      /\ \A e \in tick[i].batch : CreatedAt[r] <= CreatedAt[e]
  BY <1>1, CurrentIsOldest
<1> HIDE DEF r
<1>3. topic' = Append(topic, r)
  BY DEF r
<1> SUFFICES ASSUME NEW f \in Rows, NEW e \in before[f] \cap Routed,
                    Positions(f)' # {}, row'[e].attempts = 0
             PROVE  Positions(e)' # {} /\ Min(Positions(e)') < Min(Positions(f)')
  BY DEF FirstSentInOrder
<1>older. e \in Rows /\ CreatedAt[e] < CreatedAt[f] /\ CreatedAt[e] \in Nat /\ CreatedAt[f] \in Nat
  BY <1>1, OutboxAssumption DEF HistoryKept, Earlier
<1>4. row[e].attempts = 0
  BY <1>older
<1>5. CASE Positions(f) # {}
  <2>1. Positions(e) # {} /\ Min(Positions(e)) < Min(Positions(f))
    BY <1>1, <1>4, <1>5 DEF FirstSentInOrder
  <2>2. /\ Positions(e)' # {} /\ Min(Positions(e)') = Min(Positions(e))
        /\ Min(Positions(f)') = Min(Positions(f))
    BY <1>1, <1>2, <1>3, <1>5, <2>1, Sending
  <2>3. QED
    BY <2>1, <2>2
<1>6. CASE Positions(f) = {}
  <2>1. f = r /\ Positions(f)' = {Len(topic) + 1}
    BY <1>1, <1>2, <1>3, <1>6, Sending
  <2>2. e \notin tick[i].batch
    BY <1>2, <1>older, <2>1
  <2>3. Positions(e) # {}
    BY <1>1, <1>2, <1>4, <2>1, <2>2 DEF BatchesInOrder
  <2>4. Positions(e)' # {} /\ Min(Positions(e)') = Min(Positions(e))
    BY <1>1, <1>2, <1>3, <2>3, Sending
  <2>5. /\ Positions(e) \in SUBSET Nat /\ Len(topic) + 1 \in Nat
        /\ \A n \in Positions(e) : n < Len(topic) + 1
    BY <1>1, PositionsType
  <2>6. Min(Positions(e)) \in Positions(e)
    BY <2>3, <2>5, MinIsLeast
  <2>7. Min(Positions(f)') = Len(topic) + 1
    BY <2>1, <2>5, MinOfOne
  <2>8. QED
    BY <2>4, <2>5, <2>6, <2>7
<1>7. QED
  BY <1>5, <1>6

-----------------------------------------------------------------------------
(***************************************************************************)
(* The invariant, action by action.                                        *)
(***************************************************************************)

LEMMA OutboxInitInv ==
    ASSUME OutboxInit
    PROVE  OutboxInv
<1>1. /\ row = [e \in Rows |-> [state |-> "absent", attempts |-> 0]]
      /\ tick = [i \in Instances |-> IdleTick] /\ topic = <<>> /\ deaths = 0
      /\ before = [e \in Rows |-> {}]
  BY DEF OutboxInit
<1>2. \A e : Positions(e) = {}
  BY <1>1 DEF Positions
<1>3. \A e : Carriers(e) = {}
  BY <1>1 DEF Carriers, IdleTick
<1>4. Cardinality({}) = 0
  BY FS_EmptySet
<1>5. OutboxTypeOK
  <2>1. 0 \in 0 .. MaxAttempts + Cardinality(Instances) - 1
    BY OutboxAssumption, InstancesFinite
  <2>2. QED
    BY <1>1, <2>1, OutboxAssumption DEF OutboxTypeOK, IdleTick
<1>6. TicksKept /\ HistoryKept
  BY <1>1 DEF TicksKept, HistoryKept, IdleTick
<1>7. AttemptsBounded
  BY <1>1, <1>3, <1>4, OutboxAssumption, InstancesFinite DEF AttemptsBounded
<1>8. PublishedIsSent
  BY <1>1, <1>2 DEF PublishedIsSent
<1>9. DuplicatesExplained
  <2> SUFFICES ASSUME NEW e \in Rows
               PROVE  Cardinality(Positions(e))
                        <= Cardinality(Senders(e)) + row[e].attempts + deaths
    BY DEF DuplicatesExplained
  <2>1. Senders(e) \subseteq Instances
    BY DEF Senders
  <2>2. Cardinality(Senders(e)) \in Nat
    BY <2>1, InstancesFinite
  <2>3. Cardinality(Positions(e)) = 0 /\ row[e].attempts = 0
    BY <1>1, <1>2, <1>4
  <2>4. QED
    BY <1>1, <2>2, <2>3
<1>10. BatchesInOrder /\ FirstSentInOrder
  BY <1>1, <1>2 DEF BatchesInOrder, FirstSentInOrder, IdleTick
<1>11. QED
  BY <1>5, <1>6, <1>7, <1>8, <1>9, <1>10 DEF OutboxInv

LEMMA EnqueueInv ==
    ASSUME OutboxInv, NEW e \in Rows, Enqueue(e)
    PROVE  OutboxInv'
<1>1. /\ row[e].state = "absent"
      /\ row' = [row EXCEPT ![e].state = "pending"]
      /\ before' = [before EXCEPT ![e] = {f \in Earlier(e) : row[f].state # "absent"}]
      /\ UNCHANGED <<tick, topic, deaths>>
      /\ OutboxTypeOK /\ TicksKept /\ HistoryKept /\ AttemptsBounded /\ PublishedIsSent
      /\ DuplicatesExplained /\ BatchesInOrder /\ FirstSentInOrder
  BY DEF Enqueue, OutboxInv
<1>2. /\ row'[e].state = "pending"
      /\ \A f \in Rows : row'[f].attempts = row[f].attempts
      /\ \A f \in Rows : f # e => row'[f] = row[f]
      /\ before'[e] = {f \in Earlier(e) : row[f].state # "absent"}
      /\ \A f \in Rows : f # e => before'[f] = before[f]
  BY <1>1 DEF OutboxTypeOK
<1>3. /\ \A f : Positions(f)' = Positions(f) /\ Carriers(f)' = Carriers(f)
      /\ \A i : Current(i)' = Current(i)
  BY <1>1 DEF Positions, Carriers, Current
<1>4. \A f \in Rows : Senders(f)' = Senders(f)
  BY <1>1, <1>2, <1>3 DEF Senders
<1>5. OutboxTypeOK'
  <2>1. row' \in [Rows -> [state : {"absent", "pending", "published"},
                           attempts : 0 .. MaxAttempts + Cardinality(Instances) - 1]]
    BY <1>1 DEF OutboxTypeOK
  <2>2. before' \in [Rows -> SUBSET Rows]
    BY <1>1 DEF OutboxTypeOK, Earlier
  <2>3. QED
    BY <1>1, <2>1, <2>2 DEF OutboxTypeOK
<1>6. TicksKept' /\ HistoryKept'
  <2>1. \A f \in Rows : row[f].state # "absent" => row'[f].state # "absent"
    BY <1>2
  <2>2. TicksKept'
    BY <1>1, <1>3, <2>1, TickType DEF TicksKept
  <2>3. ASSUME NEW f \in Rows
        PROVE  before'[f] \subseteq Earlier(f) /\ \A g \in before'[f] : row'[g].state # "absent"
    <3>1. CASE f = e
      BY <1>2, <2>1, <3>1 DEF Earlier
    <3>2. CASE f # e
      BY <1>1, <1>2, <2>1, <3>2 DEF HistoryKept, Earlier
    <3>3. QED
      BY <3>1, <3>2
  <2>4. QED
    BY <2>2, <2>3 DEF HistoryKept
<1>7. AttemptsBounded'
  BY <1>1, <1>2, <1>3 DEF AttemptsBounded
<1>8. PublishedIsSent'
  BY <1>1, <1>2, <1>3 DEF PublishedIsSent
<1>9. DuplicatesExplained'
  BY <1>1, <1>2, <1>3, <1>4 DEF DuplicatesExplained
<1>10. BatchesInOrder' /\ FirstSentInOrder'
  <2>1. Positions(e)' = {} /\ \A i \in Instances : e \notin tick'[i].batch
    BY <1>1, <1>3 DEF PublishedIsSent, TicksKept
  <2>2. ASSUME NEW i \in Instances, NEW f \in tick'[i].batch, NEW g \in before'[f] \cap Routed,
               row'[g].attempts = 0
        PROVE  g \in tick'[i].batch \/ Positions(g)' # {}
    <3>1. f \in Rows /\ f # e
      BY <1>5, <2>1, TickType, <1>1
    <3>2. g \in before[f] \cap Routed /\ g \in Rows
      BY <1>1, <1>2, <3>1 DEF HistoryKept, Earlier
    <3>3. QED
      BY <1>1, <1>2, <1>3, <2>2, <3>2 DEF BatchesInOrder
  <2>3. ASSUME NEW f \in Rows, NEW g \in before'[f] \cap Routed,
               Positions(f)' # {}, row'[g].attempts = 0
        PROVE  Positions(g)' # {} /\ Min(Positions(g)') < Min(Positions(f)')
    <3>1. f # e
      BY <2>1, <2>3
    <3>2. g \in before[f] \cap Routed /\ g \in Rows
      BY <1>1, <1>2, <3>1 DEF HistoryKept, Earlier
    <3>3. QED
      BY <1>1, <1>2, <1>3, <2>3, <3>2 DEF FirstSentInOrder
  <2>4. QED
    BY <2>2, <2>3 DEF BatchesInOrder, FirstSentInOrder
<1>11. QED
  BY <1>5, <1>6, <1>7, <1>8, <1>9, <1>10 DEF OutboxInv

LEMMA StartTickInv ==
    ASSUME OutboxInv, NEW i \in Instances, StartTick(i)
    PROVE  OutboxInv'
<1> PICK Batch \in Batches : Take(i, Batch)
  BY DEF StartTick
<1>1. /\ tick[i].pc = "idle" /\ Pending # {}
      /\ UNCHANGED <<row, topic, deaths, before>>
      /\ OutboxTypeOK /\ TicksKept /\ HistoryKept /\ AttemptsBounded /\ PublishedIsSent
      /\ DuplicatesExplained /\ BatchesInOrder /\ FirstSentInOrder
  BY DEF StartTick, OutboxInv
<1>2. /\ Batch \subseteq Pending /\ Pending \subseteq Rows /\ Batch # {}
      /\ \A f \in Batch, e \in Pending : CreatedAt[e] < CreatedAt[f] => e \in Batch
  BY <1>1, BatchesAreOldest
<1>3. /\ tick[i].batch = {}
      /\ tick'[i].pc = "publishing" /\ tick'[i].batch = Batch
      /\ tick' \in [Instances -> Ticks]
      /\ Current(i)' \in Oldest(Batch)
      /\ \A j \in Instances : j # i => tick'[j] = tick[j] /\ Current(j)' = Current(j)
  <2>1. Batch \in SUBSET Rows
    BY <1>2
  <2>2. /\ tick' \in [Instances -> Ticks] /\ tick'[i].batch = Batch
        /\ tick'[i].pc = "publishing" /\ Current(i)' \in Oldest(Batch)
        /\ \A j \in Instances : j # i => tick'[j] = tick[j] /\ Current(j)' = Current(j)
    BY <1>1, <1>2, <2>1, Taken
  <2>3. QED
    BY <1>1, <2>2, TickType
<1>4. \A e \in Batch : row[e].state = "pending" /\ row[e].attempts < MaxAttempts
  BY <1>2 DEF Pending
<1>5. \A e : Positions(e)' = Positions(e)
  BY <1>1 DEF Positions
<1>6. OutboxTypeOK'
  BY <1>1, <1>3 DEF OutboxTypeOK, Ticks
<1>7. TicksKept' /\ HistoryKept'
  <2>1. ASSUME NEW j \in Instances
        PROVE  /\ tick'[j].pc # "idle" => Current(j)' \in Oldest(tick'[j].batch)
               /\ \A e \in tick'[j].batch : row'[e].state # "absent"
               /\ tick'[j].pc = "marking" /\ Current(j)' \in Routed => Positions(Current(j))' # {}
    <3>1. CASE j = i
      BY <1>1, <1>3, <1>4, <3>1
    <3>2. CASE j # i
      BY <1>1, <1>3, <1>5, <3>2 DEF TicksKept
    <3>3. QED
      BY <3>1, <3>2
  <2>2. TicksKept'
    BY <2>1 DEF TicksKept, Oldest
  <2>3. HistoryKept'
    BY <1>1 DEF HistoryKept, Earlier
  <2>4. QED
    BY <2>2, <2>3
<1>8. AttemptsBounded'
  <2> SUFFICES ASSUME NEW e \in Rows
               PROVE  row[e].attempts + Cardinality(Carriers(e)')
                        <= MaxAttempts + Cardinality(Instances) - 1
    BY <1>1 DEF AttemptsBounded
  <2> DEFINE carriers == Carriers(e)'
  <2>1. CASE e \in Batch
    <3>1. carriers \subseteq Instances
      BY DEF Carriers
    <3> HIDE DEF carriers
    <3>2. Cardinality(carriers) \in Nat /\ Cardinality(carriers) <= Cardinality(Instances)
      BY <3>1, InstancesFinite
    <3>3. row[e].attempts \in Nat /\ row[e].attempts < MaxAttempts
      BY <1>1, <1>4, <2>1, RowType
    <3>4. row[e].attempts + Cardinality(carriers) <= MaxAttempts + Cardinality(Instances) - 1
      BY <3>2, <3>3, OutboxAssumption, InstancesFinite
    <3>5. QED
      BY <3>4 DEF carriers
  <2>2. CASE e \notin Batch
    <3>1. carriers = Carriers(e)
      BY <1>3, <2>2 DEF Carriers
    <3>2. QED
      BY <1>1, <3>1 DEF AttemptsBounded
  <2>3. QED
    BY <2>1, <2>2
<1>9. PublishedIsSent' /\ FirstSentInOrder'
  BY <1>1, <1>5 DEF PublishedIsSent, FirstSentInOrder
<1>10. DuplicatesExplained'
  <2>1. \A e \in Rows : Senders(e)' = Senders(e)
    BY <1>1, <1>3, <1>4, <1>5 DEF Senders
  <2>2. QED
    BY <1>1, <1>5, <2>1 DEF DuplicatesExplained
<1>11. BatchesInOrder'
  <2> SUFFICES ASSUME NEW j \in Instances, NEW f \in tick'[j].batch,
                      NEW e \in before[f] \cap Routed, row[e].attempts = 0
               PROVE  e \in tick'[j].batch \/ Positions(e) # {}
    BY <1>1, <1>5 DEF BatchesInOrder
  <2>1. CASE j = i
    <3>1. f \in Batch /\ f \in Rows
      BY <1>2, <1>3, <2>1
    <3>2. e \in Rows /\ CreatedAt[e] < CreatedAt[f] /\ row[e].state # "absent"
      BY <1>1, <3>1 DEF HistoryKept, Earlier
    <3>3. CASE row[e].state = "pending"
      <4>1. e \in Pending
        BY <3>2, <3>3, OutboxAssumption DEF Pending
      <4>2. QED
        BY <1>2, <1>3, <2>1, <3>1, <3>2, <4>1
    <3>4. CASE row[e].state = "published"
      BY <1>1, <3>2, <3>4 DEF PublishedIsSent
    <3>5. QED
      BY <1>1, <3>2, <3>3, <3>4, RowType
  <2>2. CASE j # i
    BY <1>1, <1>3, <2>2 DEF BatchesInOrder
  <2>3. QED
    BY <2>1, <2>2
<1>12. QED
  BY <1>6, <1>7, <1>8, <1>9, <1>10, <1>11 DEF OutboxInv

LEMMA PublishReturnsInv ==
    ASSUME OutboxInv, NEW i \in Instances, PublishReturns(i)
    PROVE  OutboxInv'
<1> DEFINE r == Current(i)
<1>1. /\ tick[i].pc = "publishing"
      /\ topic' = IF r \in Routed THEN Append(topic, r) ELSE topic
      /\ tick' = [tick EXCEPT ![i].pc = "marking"]
      /\ UNCHANGED <<row, deaths, before>>
      /\ OutboxTypeOK /\ TicksKept /\ HistoryKept /\ AttemptsBounded /\ PublishedIsSent
      /\ DuplicatesExplained /\ BatchesInOrder /\ FirstSentInOrder
  BY DEF PublishReturns, OutboxInv
<1>2. /\ tick'[i].pc = "marking"
      /\ tick' \in [Instances -> Ticks]
      /\ \A j \in Instances : tick'[j].batch = tick[j].batch /\ Current(j)' = Current(j)
      /\ \A j \in Instances : j # i => tick'[j].pc = tick[j].pc
  <2>1. /\ tick \in [Instances -> Ticks]
        /\ tick[i] \in [pc : {"publishing", "marking"}, batch : SUBSET Rows, row : Rows]
    BY <1>1, TickType
  <2> DEFINE t == [tick[i] EXCEPT !.pc = "marking"]
  <2>2. /\ t \in Ticks /\ t.pc = "marking" /\ t.batch = tick[i].batch /\ t.row = tick[i].row
    BY <2>1 DEF Ticks
  <2>3. tick' = [tick EXCEPT ![i] = t]
    BY <1>1, <2>1
  <2> HIDE DEF t
  <2>4. /\ tick' \in [Instances -> Ticks] /\ tick'[i] = t
        /\ \A j \in Instances : j # i => tick'[j] = tick[j]
    BY <2>1, <2>2, <2>3
  <2>5. QED
    BY <2>2, <2>4 DEF Current
<1>3. r \in tick[i].batch /\ r \in Rows
  BY <1>1, CurrentIsOldest
<1>4. FirstSentInOrder'
  <2>1. CASE r \in Routed
    <3>1. topic' = Append(topic, Current(i)) /\ before' = before /\ row' = row
      BY <1>1, <2>1
    <3>2. QED
      BY <1>1, <3>1, SendingInOrder
  <2>2. CASE r \notin Routed
    BY <1>1, <2>2 DEF FirstSentInOrder, Positions
  <2>3. QED
    BY <2>1, <2>2
<1> HIDE DEF r
<1>5. /\ topic' \in Seq(Rows)
      /\ \A e : Positions(e) # {} => Positions(e)' # {}
      /\ \A e : e # r => Positions(e)' = Positions(e)
      /\ \A e : e = r /\ r \in Routed => Positions(e)' # {}
      /\ \A e : Cardinality(Positions(e)') <= Cardinality(Positions(e)) + (IF e = r THEN 1 ELSE 0)
  <2>1. CASE r \in Routed
    <3>1. topic' = Append(topic, r) /\ r \in Rows /\ OutboxTypeOK
      BY <1>1, <1>3, <2>1
    <3>2. \A e : Positions(e)' = IF e = r THEN Positions(e) \cup {Len(topic) + 1} ELSE Positions(e)
      BY <3>1, Sending
    <3>3. ASSUME NEW e
          PROVE  /\ e # r => Positions(e)' = Positions(e)
                 /\ e = r => Positions(e)' # {}
      BY <3>2
    <3>4. topic' \in Seq(Rows) /\ \A e : Positions(e) # {} => Positions(e)' # {}
      BY <3>1, Sending
    <3>5. \A e : Cardinality(Positions(e)') <= Cardinality(Positions(e)) + (IF e = r THEN 1 ELSE 0)
      BY <3>1, Sending
    <3>6. QED
      BY <3>3, <3>4, <3>5
  <2>2. CASE r \notin Routed
    <3>1. topic' = topic
      BY <1>1, <2>2
    <3>2. \A e : Positions(e)' = Positions(e)
      BY <3>1 DEF Positions
    <3>3. \A e : Cardinality(Positions(e)) \in Nat
      BY <1>1, PositionsType
    <3>4. ASSUME NEW e
          PROVE  Cardinality(Positions(e)') <= Cardinality(Positions(e)) + (IF e = r THEN 1 ELSE 0)
      <4>1. Cardinality(Positions(e)') = Cardinality(Positions(e))
        BY <3>2
      <4>2. QED
        BY <3>3, <4>1
    <3>5. QED
      BY <1>1, <2>2, <3>1, <3>2, <3>4 DEF OutboxTypeOK
  <2>3. QED
    BY <2>1, <2>2
<1>6. OutboxTypeOK'
  BY <1>1, <1>2, <1>5 DEF OutboxTypeOK, Ticks
<1>7. TicksKept' /\ HistoryKept'
  <2>1. ASSUME NEW j \in Instances
        PROVE  /\ tick'[j].pc # "idle" => Current(j)' \in Oldest(tick'[j].batch)
               /\ \A e \in tick'[j].batch : row'[e].state # "absent"
               /\ tick'[j].pc = "marking" /\ Current(j)' \in Routed => Positions(Current(j))' # {}
    <3>1. CASE j = i
      <4>1. Current(j)' = r
        BY <1>2, <3>1 DEF r
      <4>2. tick'[j].pc # "idle" => Current(j)' \in Oldest(tick'[j].batch)
        BY <1>1, <1>2, <3>1, <4>1 DEF TicksKept, r
      <4>3. \A e \in tick'[j].batch : row'[e].state # "absent"
        BY <1>1, <1>2 DEF TicksKept
      <4>4. Current(j)' \in Routed => Positions(Current(j))' # {}
        BY <1>5, <4>1
      <4>5. QED
        BY <4>2, <4>3, <4>4
    <3>2. CASE j # i
      BY <1>1, <1>2, <1>5, <3>2 DEF TicksKept
    <3>3. QED
      BY <3>1, <3>2
  <2>2. TicksKept'
    BY <2>1 DEF TicksKept, Oldest
  <2>3. HistoryKept'
    BY <1>1 DEF HistoryKept, Earlier
  <2>4. QED
    BY <2>2, <2>3
<1>8. AttemptsBounded'
  <2>1. \A e : Carriers(e)' = Carriers(e)
    BY <1>2 DEF Carriers
  <2>2. QED
    BY <1>1, <2>1 DEF AttemptsBounded
<1>9. PublishedIsSent'
  <2>1. row[r].state # "absent"
    BY <1>1, <1>3 DEF TicksKept
  <2>2. QED
    BY <1>1, <1>5, <2>1 DEF PublishedIsSent
<1>10. DuplicatesExplained'
  <2> SUFFICES ASSUME NEW e \in Rows
               PROVE  Cardinality(Positions(e)')
                        <= Cardinality(Senders(e)') + row[e].attempts + deaths
    BY <1>1 DEF DuplicatesExplained
  <2> DEFINE senders == Senders(e)
             others  == Senders(e)'
             sent    == Cardinality(Positions(e))
             after   == Cardinality(Positions(e)')
  <2>1. senders \subseteq others
    BY <1>1, <1>2, <1>3 DEF Senders, r
  <2>2. e = r => i \in others /\ i \notin senders
    BY <1>1, <1>2, <1>3 DEF Senders, r
  <2>3. others \subseteq Instances /\ senders \subseteq Instances
    BY <1>1 DEF Senders
  <2>4. /\ sent <= Cardinality(senders) + row[e].attempts + deaths
        /\ sent \in Nat /\ row[e].attempts \in Nat /\ deaths \in Nat
        /\ after \in Nat
        /\ after <= sent + (IF e = r THEN 1 ELSE 0)
    <3>1. sent <= Cardinality(senders) + row[e].attempts + deaths
      BY <1>1 DEF DuplicatesExplained
    <3>2. row[e].attempts \in Nat /\ deaths \in Nat
      BY <1>1, RowType, OutboxAssumption DEF OutboxTypeOK
    <3>3. sent \in Nat /\ after \in Nat
      BY <1>1, <1>6, PositionsType, PositionsNext
    <3>4. after <= sent + (IF e = r THEN 1 ELSE 0)
      BY <1>5
    <3>5. QED
      BY <3>1, <3>2, <3>3, <3>4
  <2> HIDE DEF senders, others, sent, after
  <2>5. /\ IsFiniteSet(others) /\ IsFiniteSet(senders)
        /\ Cardinality(others) \in Nat /\ Cardinality(senders) \in Nat
    BY <2>3, InstancesFinite
  <2>6. Cardinality(senders) <= Cardinality(others)
    BY <2>1, <2>5, NoLess
  <2>7. CASE e = r
    <3>1. senders \cup {i} \subseteq others
      BY <2>1, <2>2, <2>7
    <3>2. Cardinality(senders \cup {i}) = Cardinality(senders) + 1
      BY <2>2, <2>5, <2>7, FS_AddElement
    <3>3. Cardinality(senders \cup {i}) <= Cardinality(others)
      BY <2>5, <3>1, NoLess
    <3>4. after <= Cardinality(others) + row[e].attempts + deaths
      BY <2>4, <2>5, <2>7, <3>2, <3>3
    <3>5. QED
      BY <3>4 DEF after, others
  <2>8. CASE e # r
    <3>1. after <= Cardinality(others) + row[e].attempts + deaths
      BY <2>4, <2>5, <2>6, <2>8
    <3>2. QED
      BY <3>1 DEF after, others
  <2>9. QED
    BY <2>7, <2>8
<1>11. BatchesInOrder'
  BY <1>1, <1>2, <1>5 DEF BatchesInOrder
<1>12. QED
  BY <1>4, <1>6, <1>7, <1>8, <1>9, <1>10, <1>11 DEF OutboxInv

\* The current row of a tick is done with.
LEMMA Advanced ==
    ASSUME OutboxTypeOK, TicksKept, NEW i \in Instances, tick[i].pc # "idle", Advance(i)
    PROVE  /\ Current(i) \in tick[i].batch /\ Current(i) \in Rows
           /\ tick' \in [Instances -> Ticks]
           /\ tick'[i].batch = tick[i].batch \ {Current(i)}
           /\ tick'[i].pc # "marking"
           /\ tick'[i].pc # "idle" => Current(i)' \in Oldest(tick'[i].batch)
           /\ \A j \in Instances : j # i => tick'[j] = tick[j] /\ Current(j)' = Current(j)
<1> DEFINE left == tick[i].batch \ {Current(i)}
<1>1. Current(i) \in tick[i].batch /\ Current(i) \in Rows
  BY CurrentIsOldest
<1>2. left \in SUBSET Rows /\ Take(i, left)
  BY TickType DEF Advance
<1> HIDE DEF left
<1>3. /\ tick' \in [Instances -> Ticks] /\ tick'[i].batch = left /\ tick'[i].pc # "marking"
      /\ tick'[i].pc # "idle" => Current(i)' \in Oldest(left)
      /\ \A j \in Instances : j # i => tick'[j] = tick[j] /\ Current(j)' = Current(j)
  BY <1>2, Taken
<1>4. QED
  BY <1>1, <1>3 DEF left

\* Whose batches shrink, and who counts no attempt, keeps the bound on the attempts.
LEMMA FewerCarriers ==
    ASSUME OutboxTypeOK, AttemptsBounded,
           \A e \in Rows : row'[e].attempts = row[e].attempts,
           \A i \in Instances : tick'[i].batch \subseteq tick[i].batch
    PROVE  AttemptsBounded'
<1> SUFFICES ASSUME NEW e \in Rows
             PROVE  row[e].attempts + Cardinality(Carriers(e)')
                      <= MaxAttempts + Cardinality(Instances) - 1
  BY DEF AttemptsBounded
<1> DEFINE was == Carriers(e)
           after  == Carriers(e)'
<1>1. after \subseteq was /\ was \subseteq Instances
  BY DEF Carriers
<1>2. row[e].attempts + Cardinality(was) <= MaxAttempts + Cardinality(Instances) - 1
  BY DEF AttemptsBounded
<1>3. row[e].attempts \in Nat
  BY RowType
<1> HIDE DEF was, after
<1>4. /\ Cardinality(was) \in Nat /\ Cardinality(after) \in Nat
      /\ Cardinality(after) <= Cardinality(was)
  BY <1>1, InstancesFinite, NoLess
<1>5. row[e].attempts + Cardinality(after) <= MaxAttempts + Cardinality(Instances) - 1
  BY <1>2, <1>3, <1>4, OutboxAssumption, InstancesFinite
<1>6. QED
  BY <1>5 DEF after

\* A row may leave a batch once it is sent or has failed.
LEMMA OrderKept ==
    ASSUME OutboxTypeOK, BatchesInOrder, NEW i \in Instances, NEW r \in Rows,
           \A j \in Instances : tick'[j].batch \subseteq tick[j].batch,
           \A j \in Instances : j # i => tick'[j].batch = tick[j].batch,
           tick'[i].batch = {} \/ tick[i].batch \ {r} \subseteq tick'[i].batch,
           r \in Routed => Positions(r)' # {} \/ row'[r].attempts # 0,
           before' = before,
           \A e \in Rows : row'[e].attempts = 0 => row[e].attempts = 0,
           \A e : Positions(e) # {} => Positions(e)' # {}
    PROVE  BatchesInOrder'
<1> SUFFICES ASSUME NEW j \in Instances, NEW f \in tick'[j].batch,
                    NEW e \in before[f] \cap Routed, row'[e].attempts = 0
             PROVE  e \in tick'[j].batch \/ Positions(e)' # {}
  BY DEF BatchesInOrder
<1>1. f \in tick[j].batch /\ e \in Rows /\ row[e].attempts = 0
  BY OutboxAssumption
<1>2. e \in tick[j].batch \/ Positions(e) # {}
  BY <1>1 DEF BatchesInOrder
<1>3. e \in tick[j].batch => e \in tick'[j].batch \/ Positions(e)' # {}
  <2>1. CASE j = i
    BY <2>1
  <2>2. CASE j # i
    BY <2>2
  <2>3. QED
    BY <2>1, <2>2
<1>4. QED
  BY <1>2, <1>3

LEMMA MarkPublishedInv ==
    ASSUME OutboxInv, NEW i \in Instances, MarkPublished(i)
    PROVE  OutboxInv'
<1> DEFINE r == Current(i)
<1>1. /\ tick[i].pc = "marking" /\ Advance(i)
      /\ row' = [row EXCEPT ![r].state = "published"]
      /\ UNCHANGED <<topic, deaths, before>>
      /\ OutboxTypeOK /\ TicksKept /\ HistoryKept /\ AttemptsBounded /\ PublishedIsSent
      /\ DuplicatesExplained /\ BatchesInOrder /\ FirstSentInOrder
  BY DEF MarkPublished, OutboxInv
<1>2. /\ r \in tick[i].batch /\ r \in Rows
      /\ tick' \in [Instances -> Ticks]
      /\ tick'[i].batch = tick[i].batch \ {r}
      /\ tick'[i].pc # "marking"
      /\ tick'[i].pc # "idle" => Current(i)' \in Oldest(tick'[i].batch)
      /\ \A j \in Instances : j # i => tick'[j] = tick[j] /\ Current(j)' = Current(j)
  BY <1>1, Advanced
<1>3. r \in Routed => Positions(r) # {}
  BY <1>1 DEF TicksKept
<1> HIDE DEF r
<1>4. /\ \A e \in Rows : row'[e].attempts = row[e].attempts
      /\ row'[r].state = "published"
      /\ \A e \in Rows : e # r => row'[e] = row[e]
      /\ \A e : Positions(e)' = Positions(e)
  BY <1>1, <1>2 DEF OutboxTypeOK, Positions
<1>5. OutboxTypeOK'
  BY <1>1, <1>2 DEF OutboxTypeOK, Ticks
<1>6. TicksKept' /\ HistoryKept'
  <2>1. ASSUME NEW j \in Instances
        PROVE  /\ tick'[j].pc # "idle" => Current(j)' \in Oldest(tick'[j].batch)
               /\ \A e \in tick'[j].batch : row'[e].state # "absent"
               /\ tick'[j].pc = "marking" /\ Current(j)' \in Routed => Positions(Current(j))' # {}
    <3>1. \A e \in tick'[j].batch : e \in tick[j].batch /\ e \in Rows
      BY <1>1, <1>2, TickType
    <3>2. \A e \in tick'[j].batch : row'[e].state # "absent"
      BY <1>1, <1>4, <3>1 DEF TicksKept
    <3>3. CASE j = i
      BY <1>2, <3>2, <3>3
    <3>4. CASE j # i
      BY <1>1, <1>2, <1>4, <3>2, <3>4 DEF TicksKept
    <3>5. QED
      BY <3>3, <3>4
  <2>2. TicksKept'
    BY <2>1 DEF TicksKept, Oldest
  <2>3. \A e \in Rows : row[e].state # "absent" => row'[e].state # "absent"
    BY <1>4
  <2>4. HistoryKept'
    BY <1>1, <2>3 DEF HistoryKept, Earlier
  <2>5. QED
    BY <2>2, <2>4
<1>7. AttemptsBounded'
  BY <1>1, <1>2, <1>4, <1>5, FewerCarriers
<1>8. PublishedIsSent'
  BY <1>1, <1>2, <1>3, <1>4 DEF PublishedIsSent
<1>9. DuplicatesExplained'
  <2> SUFFICES ASSUME NEW e \in Rows
               PROVE  Cardinality(Positions(e))
                        <= Cardinality(Senders(e)') + row[e].attempts + deaths
    BY <1>1, <1>4 DEF DuplicatesExplained
  <2> DEFINE senders == Senders(e)
             others  == Senders(e)'
             sent    == Cardinality(Positions(e))
  <2>1. senders \subseteq others
    <3> SUFFICES ASSUME NEW j \in senders PROVE j \in others
      OBVIOUS
    <3>1. j \in Instances
      BY DEF Senders
    <3>2. CASE e = r
      BY <1>1, <1>2, <1>4, <3>1, <3>2 DEF Senders, r, TicksKept
    <3>3. CASE e # r
      BY <1>1, <1>2, <1>4, <3>1, <3>3 DEF Senders, r
    <3>4. QED
      BY <3>2, <3>3
  <2>2. /\ sent <= Cardinality(senders) + row[e].attempts + deaths
        /\ sent \in Nat /\ row[e].attempts \in Nat /\ deaths \in Nat
    BY <1>1, RowType, PositionsType, OutboxAssumption DEF DuplicatesExplained, OutboxTypeOK
  <2>3. others \subseteq Instances
    BY DEF Senders
  <2> HIDE DEF senders, others, sent
  <2>4. /\ Cardinality(senders) \in Nat /\ Cardinality(others) \in Nat
        /\ Cardinality(senders) <= Cardinality(others)
    BY <2>1, <2>3, InstancesFinite, NoLess
  <2>5. sent <= Cardinality(others) + row[e].attempts + deaths
    BY <2>2, <2>4
  <2>6. QED
    BY <2>5 DEF sent, others
<1>10. BatchesInOrder'
  BY <1>1, <1>2, <1>3, <1>4, <1>5, OrderKept
<1>11. FirstSentInOrder'
  BY <1>1, <1>4 DEF FirstSentInOrder
<1>12. QED
  BY <1>5, <1>6, <1>7, <1>8, <1>9, <1>10, <1>11 DEF OutboxInv

LEMMA FailInv ==
    ASSUME OutboxInv, NEW i \in Instances, Fail(i)
    PROVE  OutboxInv'
<1> DEFINE r == Current(i)
<1>1. /\ tick[i].pc # "idle" /\ Advance(i)
      /\ topic' = topic \/ (tick[i].pc = "publishing" /\ topic' = Append(topic, r))
      /\ row' = [row EXCEPT ![r].attempts = @ + 1]
      /\ UNCHANGED <<deaths, before>>
      /\ OutboxTypeOK /\ TicksKept /\ HistoryKept /\ AttemptsBounded /\ PublishedIsSent
      /\ DuplicatesExplained /\ BatchesInOrder /\ FirstSentInOrder
  BY DEF Fail, OutboxInv
<1>2. /\ r \in tick[i].batch /\ r \in Rows
      /\ tick' \in [Instances -> Ticks]
      /\ tick'[i].batch = tick[i].batch \ {r}
      /\ tick'[i].pc # "marking"
      /\ tick'[i].pc # "idle" => Current(i)' \in Oldest(tick'[i].batch)
      /\ \A j \in Instances : j # i => tick'[j] = tick[j] /\ Current(j)' = Current(j)
  BY <1>1, Advanced
<1>3. row[r].attempts \in Nat /\ row[r].state # "absent"
  BY <1>1, <1>2, RowType DEF TicksKept
<1>4. ASSUME topic' # topic PROVE FirstSentInOrder'
  <2>1. topic' = Append(topic, Current(i))
    BY <1>1, <1>4
  <2>2. \A e \in Rows : row'[e].attempts = 0 => row[e].attempts = 0
    BY <1>1, <1>2, <1>3 DEF OutboxTypeOK
  <2>3. QED
    BY <1>1, <2>1, <2>2, SendingInOrder
<1> HIDE DEF r
<1>5. /\ row'[r].attempts = row[r].attempts + 1
      /\ \A e \in Rows : e # r => row'[e] = row[e]
      /\ \A e \in Rows : row'[e].state = row[e].state
      /\ row' \in [Rows -> [state : {"absent", "pending", "published"}, attempts : Nat]]
  <2>1. row \in [Rows -> [state : {"absent", "pending", "published"}, attempts : Nat]]
    <3>1. 0 .. MaxAttempts + Cardinality(Instances) - 1 \subseteq Nat
      OBVIOUS
    <3>2. QED
      BY <1>1, <3>1 DEF OutboxTypeOK
  <2>2. QED
    BY <1>1, <1>2, <2>1
<1>6. /\ topic' \in Seq(Rows)
      /\ \A e : Positions(e) # {} => Positions(e)' # {}
      /\ \A e : e # r => Positions(e)' = Positions(e)
      /\ \A e : Cardinality(Positions(e)') <=
                  Cardinality(Positions(e)) + (IF topic' # topic /\ e = r THEN 1 ELSE 0)
  <2>1. CASE topic' = topic
    <3>1. \A e : Positions(e)' = Positions(e)
      BY <2>1 DEF Positions
    <3>2. ASSUME NEW e
          PROVE  Cardinality(Positions(e)') <=
                   Cardinality(Positions(e)) + (IF topic' # topic /\ e = r THEN 1 ELSE 0)
      <4>1. Cardinality(Positions(e)') = Cardinality(Positions(e))
        BY <3>1
      <4>2. Cardinality(Positions(e)) \in Nat
        BY <1>1, PositionsType
      <4>3. QED
        BY <2>1, <4>1, <4>2
    <3>3. QED
      BY <1>1, <2>1, <3>1, <3>2 DEF OutboxTypeOK
  <2>2. CASE topic' # topic
    <3>1. topic' = Append(topic, r) /\ r \in Rows /\ OutboxTypeOK
      BY <1>1, <1>2, <2>2
    <3>2. \A e : Positions(e)' = IF e = r THEN Positions(e) \cup {Len(topic) + 1} ELSE Positions(e)
      BY <3>1, Sending
    <3>3. ASSUME NEW e, e # r PROVE Positions(e)' = Positions(e)
      BY <3>2, <3>3
    <3>4. topic' \in Seq(Rows)
      BY <3>1, Sending
    <3>5. \A e : Positions(e) # {} => Positions(e)' # {}
      BY <3>1, Sending
    <3>6. ASSUME NEW e
          PROVE  Cardinality(Positions(e)') <=
                   Cardinality(Positions(e)) + (IF topic' # topic /\ e = r THEN 1 ELSE 0)
      <4>1. Cardinality(Positions(e)') <= Cardinality(Positions(e)) + (IF e = r THEN 1 ELSE 0)
        BY <3>1, Sending
      <4>2. QED
        BY <2>2, <4>1
    <3>7. QED
      BY <3>3, <3>4, <3>5, <3>6
  <2>3. QED
    BY <2>1, <2>2
<1>7. AttemptsBounded'
  <2> SUFFICES ASSUME NEW e \in Rows
               PROVE  row'[e].attempts + Cardinality(Carriers(e)')
                        <= MaxAttempts + Cardinality(Instances) - 1
    BY DEF AttemptsBounded
  <2> DEFINE was == Carriers(e)
             after  == Carriers(e)'
  <2>1. /\ was \subseteq Instances /\ after \subseteq was
        /\ e = r => i \in was /\ after = was \ {i}
    BY <1>2 DEF Carriers
  <2>2. row[e].attempts + Cardinality(was) <= MaxAttempts + Cardinality(Instances) - 1
    BY <1>1 DEF AttemptsBounded
  <2>3. row[e].attempts \in Nat
    BY <1>1, RowType
  <2> HIDE DEF was, after
  <2>4. IsFiniteSet(was) /\ Cardinality(was) \in Nat /\ Cardinality(after) \in Nat
    BY <2>1, InstancesFinite
  <2>5. CASE e = r
    <3>1. Cardinality(after) = Cardinality(was) - 1
      BY <2>1, <2>4, <2>5, FS_RemoveElement
    <3>2. row'[e].attempts + Cardinality(after) <= MaxAttempts + Cardinality(Instances) - 1
      BY <1>5, <2>2, <2>3, <2>4, <2>5, <3>1, OutboxAssumption, InstancesFinite
    <3>3. QED
      BY <3>2 DEF after
  <2>6. CASE e # r
    <3>1. Cardinality(after) <= Cardinality(was)
      BY <2>1, <2>4, NoLess
    <3>2. row'[e].attempts + Cardinality(after) <= MaxAttempts + Cardinality(Instances) - 1
      BY <1>5, <2>2, <2>3, <2>4, <2>6, <3>1, OutboxAssumption, InstancesFinite
    <3>3. QED
      BY <3>2 DEF after
  <2>7. QED
    BY <2>5, <2>6
<1>8. OutboxTypeOK'
  <2>1. ASSUME NEW e \in Rows
        PROVE  row'[e].attempts \in 0 .. MaxAttempts + Cardinality(Instances) - 1
    <3> DEFINE after == Carriers(e)'
    <3>1. row'[e].attempts + Cardinality(after) <= MaxAttempts + Cardinality(Instances) - 1
      BY <1>7 DEF AttemptsBounded
    <3>2. after \subseteq Instances
      BY DEF Carriers
    <3> HIDE DEF after
    <3>3. Cardinality(after) \in Nat
      BY <3>2, InstancesFinite
    <3>4. row'[e].attempts \in Nat
      BY <1>5
    <3>5. QED
      BY <3>1, <3>3, <3>4, OutboxAssumption, InstancesFinite
  <2>2. row' \in [Rows -> [state : {"absent", "pending", "published"},
                            attempts : 0 .. MaxAttempts + Cardinality(Instances) - 1]]
    BY <1>5, <2>1
  <2>3. QED
    BY <1>1, <1>2, <1>6, <2>2 DEF OutboxTypeOK, Ticks
<1>9. TicksKept' /\ HistoryKept'
  <2>1. ASSUME NEW j \in Instances
        PROVE  /\ tick'[j].pc # "idle" => Current(j)' \in Oldest(tick'[j].batch)
               /\ \A e \in tick'[j].batch : row'[e].state # "absent"
               /\ tick'[j].pc = "marking" /\ Current(j)' \in Routed => Positions(Current(j))' # {}
    <3>1. \A e \in tick'[j].batch : e \in tick[j].batch /\ e \in Rows
      BY <1>1, <1>2, TickType
    <3>2. \A e \in tick'[j].batch : row'[e].state # "absent"
      BY <1>1, <1>5, <3>1 DEF TicksKept
    <3>3. CASE j = i
      BY <1>2, <3>2, <3>3
    <3>4. CASE j # i
      BY <1>1, <1>2, <1>6, <3>2, <3>4 DEF TicksKept
    <3>5. QED
      BY <3>3, <3>4
  <2>2. TicksKept'
    BY <2>1 DEF TicksKept, Oldest
  <2>3. HistoryKept'
    BY <1>1, <1>5 DEF HistoryKept, Earlier
  <2>4. QED
    BY <2>2, <2>3
<1>10. PublishedIsSent'
  BY <1>1, <1>3, <1>5, <1>6 DEF PublishedIsSent
<1>11. DuplicatesExplained'
  <2> SUFFICES ASSUME NEW e \in Rows
               PROVE  Cardinality(Positions(e)')
                        <= Cardinality(Senders(e)') + row'[e].attempts + deaths
    BY <1>1 DEF DuplicatesExplained
  <2> DEFINE senders == Senders(e)
             others  == Senders(e)'
             sent    == Cardinality(Positions(e))
             after   == Cardinality(Positions(e)')
  <2>1. senders \subseteq others \cup {i}
    <3> SUFFICES ASSUME NEW j \in senders, j # i PROVE j \in others
      OBVIOUS
    <3>1. j \in Instances
      BY DEF Senders
    <3>2. QED
      BY <1>2, <1>5, <3>1 DEF Senders
  <2>2. e # r \/ topic' # topic => senders \subseteq others
    <3> SUFFICES ASSUME e # r \/ topic' # topic, i \in senders PROVE i \in others
      BY <2>1
    <3>1. CASE e # r
      BY <1>2, <1>5, <3>1 DEF Senders, r
    <3>2. CASE e = r
      <4>1. tick[i].pc = "publishing"
        BY <1>1, <3>2
      <4>2. QED
        BY <1>2, <3>2, <4>1 DEF Senders, r
    <3>3. QED
      BY <3>1, <3>2
  <2>3. others \subseteq Instances /\ senders \subseteq Instances
    BY DEF Senders
  <2>4. /\ sent <= Cardinality(senders) + row[e].attempts + deaths
        /\ sent \in Nat /\ row[e].attempts \in Nat /\ deaths \in Nat
        /\ after \in Nat
        /\ after <= sent + (IF topic' # topic /\ e = r THEN 1 ELSE 0)
    <3>1. sent <= Cardinality(senders) + row[e].attempts + deaths
      BY <1>1 DEF DuplicatesExplained
    <3>2. row[e].attempts \in Nat /\ deaths \in Nat
      BY <1>1, RowType, OutboxAssumption DEF OutboxTypeOK
    <3>3. sent \in Nat /\ after \in Nat
      BY <1>1, <1>8, PositionsType, PositionsNext
    <3>4. after <= sent + (IF topic' # topic /\ e = r THEN 1 ELSE 0)
      BY <1>6
    <3>5. QED
      BY <3>1, <3>2, <3>3, <3>4
  <2> HIDE DEF senders, others, sent, after
  <2>5. /\ Cardinality(others) \in Nat /\ Cardinality(senders) \in Nat
        /\ Cardinality(senders) <= Cardinality(others) + 1
        /\ e # r \/ topic' # topic => Cardinality(senders) <= Cardinality(others)
    BY <2>1, <2>2, <2>3, InstancesFinite, AtMostOneLess, NoLess
  <2>6. row'[e].attempts = row[e].attempts + (IF e = r THEN 1 ELSE 0)
    BY <1>5, <2>4
  <2>7. after <= Cardinality(others) + row'[e].attempts + deaths
    <3>1. CASE e # r
      BY <2>4, <2>5, <2>6, <3>1
    <3>2. CASE e = r /\ topic' # topic
      BY <2>4, <2>5, <2>6, <3>2
    <3>3. CASE e = r /\ topic' = topic
      BY <2>4, <2>5, <2>6, <3>3
    <3>4. QED
      BY <3>1, <3>2, <3>3
  <2>8. QED
    BY <2>7 DEF after, others
<1>12. BatchesInOrder'
  <2>1. row'[r].attempts # 0 /\ \A e \in Rows : row'[e].attempts = 0 => row[e].attempts = 0
    BY <1>3, <1>5
  <2>2. \A j \in Instances : tick'[j].batch \subseteq tick[j].batch
    BY <1>2
  <2>3. QED
    BY <1>1, <1>2, <1>6, <2>1, <2>2, OrderKept
<1>13. FirstSentInOrder'
  <2>1. CASE topic' = topic
    <3>1. \A e : Positions(e)' = Positions(e)
      BY <2>1 DEF Positions
    <3>2. \A e \in Rows : row'[e].attempts = 0 => row[e].attempts = 0
      BY <1>3, <1>5
    <3>3. QED
      BY <1>1, <3>1, <3>2, OutboxAssumption DEF FirstSentInOrder
  <2>2. QED
    BY <1>4, <2>1
<1>14. QED
  BY <1>7, <1>8, <1>9, <1>10, <1>11, <1>12, <1>13 DEF OutboxInv

LEMMA AbortInv ==
    ASSUME OutboxInv, NEW i \in Instances, Abort(i)
    PROVE  OutboxInv'
<1>1. /\ deaths < DeathsBound /\ deaths' = deaths + 1
      /\ tick' = [tick EXCEPT ![i] = IdleTick]
      /\ UNCHANGED <<row, topic, before>>
      /\ OutboxTypeOK /\ TicksKept /\ HistoryKept /\ AttemptsBounded /\ PublishedIsSent
      /\ DuplicatesExplained /\ BatchesInOrder /\ FirstSentInOrder
  BY DEF Abort, OutboxInv
<1>2. /\ tick'[i].pc = "idle" /\ tick'[i].batch = {}
      /\ \A j \in Instances : j # i => tick'[j] = tick[j]
      /\ \A e : Positions(e)' = Positions(e)
  BY <1>1 DEF OutboxTypeOK, IdleTick, Positions
<1>3. \A j \in Instances : j # i => Current(j)' = Current(j)
  BY <1>2 DEF Current
<1>4. OutboxTypeOK'
  BY <1>1, OutboxAssumption DEF OutboxTypeOK, IdleTick
<1>5. TicksKept' /\ HistoryKept'
  BY <1>1, <1>2, <1>3 DEF TicksKept, HistoryKept, Oldest, Earlier
<1>6. AttemptsBounded'
  BY <1>1, <1>2, FewerCarriers
<1>7. PublishedIsSent' /\ FirstSentInOrder'
  BY <1>1, <1>2 DEF PublishedIsSent, FirstSentInOrder
<1>8. DuplicatesExplained'
  <2> SUFFICES ASSUME NEW e \in Rows
               PROVE  Cardinality(Positions(e))
                        <= Cardinality(Senders(e)') + row[e].attempts + (deaths + 1)
    BY <1>1, <1>2 DEF DuplicatesExplained
  <2> DEFINE senders == Senders(e)
             others  == Senders(e)'
             sent    == Cardinality(Positions(e))
  <2>1. senders \subseteq others \cup {i}
    <3> SUFFICES ASSUME NEW j \in senders, j # i PROVE j \in others
      OBVIOUS
    <3>1. j \in Instances
      BY DEF Senders
    <3>2. QED
      BY <1>1, <1>2, <1>3, <3>1 DEF Senders
  <2>2. others \subseteq Instances
    BY DEF Senders
  <2>3. /\ sent <= Cardinality(senders) + row[e].attempts + deaths
        /\ sent \in Nat /\ row[e].attempts \in Nat /\ deaths \in Nat
    BY <1>1, RowType, PositionsType, OutboxAssumption DEF DuplicatesExplained, OutboxTypeOK
  <2> HIDE DEF senders, others, sent
  <2>4. /\ Cardinality(others) \in Nat /\ Cardinality(senders) \in Nat
        /\ Cardinality(senders) <= Cardinality(others) + 1
    BY <2>1, <2>2, InstancesFinite, AtMostOneLess
  <2>5. sent <= Cardinality(others) + row[e].attempts + (deaths + 1)
    BY <2>3, <2>4
  <2>6. QED
    BY <2>5 DEF sent, others
<1>9. BatchesInOrder'
  BY <1>1, <1>2 DEF BatchesInOrder
<1>10. QED
  BY <1>4, <1>5, <1>6, <1>7, <1>8, <1>9 DEF OutboxInv

-----------------------------------------------------------------------------
(***************************************************************************)
(* What the outbox promises.                                               *)
(***************************************************************************)

LEMMA OutboxNextInv ==
    ASSUME OutboxInv, [OutboxNext]_outboxVars
    PROVE  OutboxInv'
<1>1. CASE \E e \in Rows : Enqueue(e)
  BY <1>1, EnqueueInv
<1>2. CASE \E i \in Instances : StartTick(i)
  BY <1>2, StartTickInv
<1>3. CASE \E i \in Instances : PublishReturns(i)
  BY <1>3, PublishReturnsInv
<1>4. CASE \E i \in Instances : MarkPublished(i)
  BY <1>4, MarkPublishedInv
<1>5. CASE \E i \in Instances : Fail(i)
  BY <1>5, FailInv
<1>6. CASE \E i \in Instances : Abort(i)
  BY <1>6, AbortInv
<1>7. CASE UNCHANGED outboxVars
  <2>1. UNCHANGED <<row, tick, topic, deaths, before>>
    BY <1>7 DEF outboxVars
  <2>2. /\ \A e : Positions(e)' = Positions(e) /\ Carriers(e)' = Carriers(e)
        /\ \A i : Current(i)' = Current(i)
    BY <2>1 DEF Positions, Carriers, Current
  <2>3. \A e : Senders(e)' = Senders(e)
    BY <2>1, <2>2 DEF Senders
  <2>4. /\ OutboxTypeOK' /\ TicksKept' /\ HistoryKept' /\ AttemptsBounded'
        /\ PublishedIsSent'
    BY <2>1, <2>2 DEF OutboxInv, OutboxTypeOK, TicksKept, HistoryKept, AttemptsBounded,
                      PublishedIsSent, Oldest, Earlier
  <2>5. DuplicatesExplained' /\ BatchesInOrder' /\ FirstSentInOrder'
    BY <2>1, <2>2, <2>3 DEF OutboxInv, DuplicatesExplained, BatchesInOrder, FirstSentInOrder
  <2>6. QED
    BY <2>4, <2>5 DEF OutboxInv
<1>8. QED
  BY <1>1, <1>2, <1>3, <1>4, <1>5, <1>6, <1>7 DEF OutboxNext, Walk

\* The invariant: rows, ticks and messages are well-formed, the attempts of a row stay
\* within those of the instances that carry it, and every message has its cause.
THEOREM OutboxKept == OutboxSpec => []OutboxInv
<1>1. QED
  BY OutboxInitInv, OutboxNextInv, PTL DEF OutboxSpec

\* An event with a topic that is marked as published was sent, and one whose change is not
\* committed was not.
THEOREM PublishedWereSent == OutboxSpec => []PublishedIsSent
<1>1. OutboxInv => PublishedIsSent
  BY DEF OutboxInv
<1>2. QED
  BY <1>1, OutboxKept, PTL

\* What a sending is explained by is at most as much as the instances, attempts and deaths.
LEMMA CausesFollow == OutboxInv => DuplicatesHaveCauses
<1> SUFFICES ASSUME OutboxInv, NEW e \in Rows
             PROVE  Cardinality(Positions(e))
                      <= Cardinality(Instances) + row[e].attempts + deaths
  BY DEF DuplicatesHaveCauses
<1> DEFINE senders == Senders(e)
           times   == Cardinality(Positions(e))
<1>1. /\ times <= Cardinality(senders) + row[e].attempts + deaths
      /\ times \in Nat /\ row[e].attempts \in Nat /\ deaths \in Nat
  BY RowType, PositionsType, OutboxAssumption
  DEF OutboxInv, DuplicatesExplained, OutboxTypeOK
<1>2. senders \subseteq Instances
  BY DEF Senders
<1> HIDE DEF senders, times
<1>3. Cardinality(senders) \in Nat /\ Cardinality(senders) <= Cardinality(Instances)
  BY <1>2, InstancesFinite
<1>4. times <= Cardinality(Instances) + row[e].attempts + deaths
  BY <1>1, <1>3, InstancesFinite
<1>5. QED
  BY <1>4 DEF times

\* However many instances race, an event is duplicated only by them, by a counted attempt
\* or by a tick that was cut short.
THEOREM DuplicatesBounded == OutboxSpec => []DuplicatesHaveCauses
<1>1. QED
  BY CausesFollow, OutboxKept, PTL

\* The events of one aggregate are first sent in the order of their creation, those that were
\* there before the next one was.
THEOREM SentInOrder == OutboxSpec => []FirstSentInOrder
<1>1. OutboxInv => FirstSentInOrder
  BY DEF OutboxInv
<1>2. QED
  BY <1>1, OutboxKept, PTL

-----------------------------------------------------------------------------
(***************************************************************************)
(* The outbox as an ordered delivery.                                      *)
(***************************************************************************)

\* How often each event was delivered, and how often that was counted as failed.
Times == [e \in Rows |-> Cardinality(Positions(e))]
Failures == [e \in Rows |-> row[e].attempts]

\* What was sent has been delivered, and each message is one delivery more.
LEMMA TimesType ==
    ASSUME OutboxTypeOK, NEW e \in Rows
    PROVE  /\ Times[e] \in Nat /\ Failures[e] \in Nat
           /\ Positions(e) # {} => Times[e] > 0
<1>1. IsFiniteSet(Positions(e)) /\ Cardinality(Positions(e)) \in Nat
  BY PositionsType
<1>2. Cardinality(Positions(e)) = 0 => Positions(e) = {}
  BY <1>1, FS_EmptySet
<1>3. row[e].attempts \in Nat
  BY RowType
<1>4. QED
  BY <1>1, <1>2, <1>3 DEF Times, Failures

LEMMA SendingCounts ==
    ASSUME OutboxTypeOK, NEW r \in Rows, topic' = Append(topic, r)
    PROVE  Times' = [Times EXCEPT ![r] = @ + 1]
<1>1. \A e : Positions(e)' = IF e = r THEN Positions(e) \cup {Len(topic) + 1} ELSE Positions(e)
  BY Sending
<1>2. /\ IsFiniteSet(Positions(r)) /\ Len(topic) + 1 \in Nat
      /\ \A n \in Positions(r) : n \in Nat /\ n < Len(topic) + 1
  BY PositionsType
<1>3. Len(topic) + 1 \notin Positions(r)
  BY <1>2
<1>4. Cardinality(Positions(r) \cup {Len(topic) + 1}) = Cardinality(Positions(r)) + 1
  BY <1>2, <1>3, FS_AddElement
<1>5. Cardinality(Positions(r)') = Cardinality(Positions(r)) + 1
  BY <1>1, <1>4
<1>6. \A e \in Rows : e # r => Cardinality(Positions(e)') = Cardinality(Positions(e))
  BY <1>1
<1>7. QED
  BY <1>5, <1>6 DEF Times

\* What a tick takes next is enqueued, and its turn has come.
LEMMA CurrentInTurn ==
    ASSUME OutboxInv, NEW i \in Instances, tick[i].pc # "idle"
    PROVE  /\ Current(i) \in Rows
           /\ Current(i) \in InState("pending") \cup InState("published")
           /\ \A f \in before[Current(i)] \cap Routed : Times[f] > 0 \/ Failures[f] > 0
<1> DEFINE r == Current(i)
<1>1. OutboxTypeOK /\ TicksKept /\ HistoryKept /\ BatchesInOrder
  BY DEF OutboxInv
<1>2. /\ r \in tick[i].batch /\ r \in Rows
      /\ \A e \in tick[i].batch : CreatedAt[r] <= CreatedAt[e]
  BY <1>1, CurrentIsOldest
<1> HIDE DEF r
<1>3. r \in InState("pending") \cup InState("published")
  BY <1>1, <1>2, RowType DEF TicksKept, InState
<1>4. ASSUME NEW f \in before[r] \cap Routed
      PROVE  Times[f] > 0 \/ Failures[f] > 0
  <2>1. f \in Rows /\ CreatedAt[f] < CreatedAt[r]
    BY <1>1, <1>2 DEF HistoryKept, Earlier
  <2>2. f \notin tick[i].batch
    <3>1. CreatedAt[f] \in Nat /\ CreatedAt[r] \in Nat
      BY <1>2, <2>1, OutboxAssumption
    <3>2. QED
      BY <1>2, <2>1, <3>1
  <2>3. CASE row[f].attempts = 0
    <3>1. Positions(f) # {}
      BY <1>1, <1>2, <2>1, <2>2, <2>3 DEF BatchesInOrder
    <3>2. QED
      BY <1>1, <2>1, <3>1, TimesType
  <2>4. CASE row[f].attempts # 0
    BY <1>1, <2>1, <2>4, TimesType DEF Failures
  <2>5. QED
    BY <2>3, <2>4
<1>5. QED
  BY <1>2, <1>3, <1>4 DEF r

\* A message arrives in turn, and the state after it explains its repetitions.
LEMMA SendingArrives ==
    ASSUME OutboxInv, OutboxInv', NEW i \in Instances, tick[i].pc # "idle", deaths' = deaths,
           NEW r \in Routed, r = Current(i), topic' = Append(topic, r)
    PROVE  Promised!Arrive(r)
<1>1. /\ OutboxTypeOK
      /\ r \in Rows
      /\ r \in InState("pending") \cup InState("published")
      /\ \A f \in before[r] \cap Routed : Times[f] > 0 \/ Failures[f] > 0
  BY CurrentInTurn DEF OutboxInv
<1>2. Times' = [Times EXCEPT ![r] = @ + 1]
  BY <1>1, SendingCounts
<1>3. DuplicatesHaveCauses'
  BY CausesFollow, PTL
<1>4. Times'[r] <= Cardinality(Instances) + Failures'[r] + deaths
  BY <1>1, <1>3 DEF DuplicatesHaveCauses, Times, Failures
<1>5. QED
  BY <1>1, <1>2, <1>4 DEF Promised!Arrive, Times, Failures

LEMMA EnqueueCommits ==
    ASSUME OutboxInv, NEW e \in Rows, Enqueue(e)
    PROVE  Promised!Commit(e)
<1>1. /\ OutboxTypeOK /\ row' = [row EXCEPT ![e].state = "pending"] /\ row[e].state = "absent"
      /\ topic' = topic /\ deaths' = deaths
      /\ before' = [before EXCEPT ![e] = {f \in Earlier(e) : row[f].state # "absent"}]
  BY DEF Enqueue, OutboxInv
<1>2. /\ row'[e].state = "pending" /\ row'[e].attempts = row[e].attempts
      /\ \A f \in Rows : f # e => row'[f] = row[f]
  BY <1>1 DEF OutboxTypeOK
<1>3. /\ (InState("pending") \cup InState("published"))'
            = InState("pending") \cup InState("published") \cup {e}
      /\ InState("published")' = InState("published")
      /\ e \notin InState("pending") \cup InState("published")
  BY <1>1, <1>2 DEF InState
<1>4. [f \in Rows |-> Earlier(f)][e] \cap (InState("pending") \cup InState("published"))
        = {f \in Earlier(e) : row[f].state # "absent"}
  BY <1>1, RowType DEF InState, Earlier
<1>5. Failures' = Failures /\ Times' = Times
  BY <1>1, <1>2 DEF Failures, Times, Positions
<1>6. QED
  BY <1>1, <1>3, <1>4, <1>5 DEF Promised!Commit, Failures, Times

LEMMA ReturnDelivers ==
    ASSUME OutboxInv, OutboxInv', NEW i \in Instances, PublishReturns(i), Current(i) \in Routed
    PROVE  \E e \in Rows : Promised!Deliver(e)
<1> PICK r \in Routed : r = Current(i)
  OBVIOUS
<1>1. /\ tick[i].pc # "idle"
      /\ topic' = Append(topic, r)
      /\ UNCHANGED <<row, deaths, before>>
  BY DEF PublishReturns
<1>2. InState("pending")' = InState("pending") /\ InState("published")' = InState("published")
  BY <1>1 DEF InState
<1>3. Promised!Arrive(r)
  BY <1>1, SendingArrives
<1>4. QED
  BY <1>1, <1>2, <1>3, OutboxAssumption DEF Promised!Deliver

LEMMA MarkSettles ==
    ASSUME OutboxInv, NEW i \in Instances, MarkPublished(i)
    PROVE  Current(i) \in Rows /\ Promised!Settle(Current(i))
<1> DEFINE r == Current(i)
<1>1. /\ OutboxTypeOK /\ TicksKept
      /\ tick[i].pc = "marking"
      /\ row' = [row EXCEPT ![r].state = "published"]
      /\ UNCHANGED <<topic, deaths, before>>
  BY DEF MarkPublished, OutboxInv
<1>2. r \in tick[i].batch /\ r \in Rows
  BY <1>1, CurrentIsOldest
<1>3. (r \in Routed => Times[r] > 0) /\ row[r].state \in {"pending", "published"}
  BY <1>1, <1>2, TimesType, RowType DEF TicksKept
<1> HIDE DEF r
<1>4. /\ row'[r].state = "published" /\ row'[r].attempts = row[r].attempts
      /\ \A f \in Rows : f # r => row'[f] = row[f]
  BY <1>1, <1>2 DEF OutboxTypeOK
<1>5. InState("published")' = InState("published") \cup {r}
  BY <1>2, <1>4 DEF InState
<1>6. (InState("pending") \cup InState("published"))' = InState("pending") \cup InState("published")
  BY <1>2, <1>3, <1>4 DEF InState
<1>7. Failures' = Failures /\ Times' = Times
  BY <1>1, <1>4 DEF Failures, Times, Positions
<1>8. Promised!Settle(r)
  BY <1>1, <1>3, <1>5, <1>6, <1>7 DEF Promised!Settle, Failures, Times
<1>9. QED
  BY <1>2, <1>8 DEF r

LEMMA FailCounts ==
    ASSUME OutboxInv, OutboxInv', NEW i \in Instances, Fail(i)
    PROVE  \E e \in Rows : Promised!Fail(e)
<1> PICK r \in Rows : r = Current(i)
  BY CurrentInTurn DEF Fail
<1>1. /\ OutboxTypeOK /\ OutboxTypeOK'
      /\ r \in Rows
      /\ r \in InState("pending") \cup InState("published")
      /\ row' = [row EXCEPT ![r].attempts = @ + 1]
      /\ deaths' = deaths /\ before' = before
      /\ topic' = topic \/ (r \in Routed /\ topic' = Append(topic, r))
  BY CurrentInTurn DEF Fail, OutboxInv
<1>2. Promised!Arrive(r) \/ Times' = Times
  <2>1. CASE topic' = topic
    BY <2>1 DEF Times, Positions
  <2>2. CASE r \in Routed /\ topic' = Append(topic, r)
    BY <1>1, <2>2, SendingArrives DEF Fail
  <2>3. QED
    BY <1>1, <2>1, <2>2
<1>3. /\ row'[r].state = row[r].state /\ row'[r].attempts = row[r].attempts + 1
      /\ \A f \in Rows : f # r => row'[f] = row[f]
  BY <1>1 DEF OutboxTypeOK
<1>4. InState("pending")' = InState("pending") /\ InState("published")' = InState("published")
  BY <1>1, <1>3 DEF InState
<1>5. Failures' = [Failures EXCEPT ![r] = @ + 1]
  <2>1. r \in Rows /\ Failures'[r] = Failures[r] + 1
    BY <1>1, <1>3 DEF Failures
  <2>2. \A f \in Rows : f # r => Failures'[f] = Failures[f]
    BY <1>3 DEF Failures
  <2>3. Failures' = [f \in Rows |-> Failures'[f]] /\ Failures = [f \in Rows |-> Failures[f]]
    BY DEF Failures
  <2>4. QED
    BY <2>1, <2>2, <2>3
<1>6. Failures[r] < MaxAttempts + Cardinality(Instances) - 1
  <2>1. row[r].attempts \in Nat
    BY <1>1, RowType
  <2>2. row'[r].attempts <= MaxAttempts + Cardinality(Instances) - 1
    BY <1>1 DEF OutboxTypeOK
  <2>3. row[r].attempts < MaxAttempts + Cardinality(Instances) - 1
    BY <1>3, <2>1, <2>2, OutboxAssumption, InstancesFinite
  <2>4. QED
    BY <1>1, <2>3 DEF Failures
<1>7. Promised!Fail(r)
  BY <1>1, <1>2, <1>4, <1>5, <1>6 DEF Promised!Fail, Failures, Times
<1>8. QED
  BY <1>7

LEMMA StepDelivers ==
    ASSUME OutboxInv, OutboxInv', [OutboxNext]_outboxVars
    PROVE  [Promised!DeliveryNext]_Promised!deliveryVars
<1>1. ASSUME UNCHANGED <<row, topic, deaths, before>> PROVE UNCHANGED Promised!deliveryVars
  BY <1>1 DEF Promised!deliveryVars, InState, Positions
<1>2. ASSUME NEW e \in Rows, Enqueue(e) PROVE Promised!DeliveryNext
  BY <1>2, EnqueueCommits DEF Promised!DeliveryNext
<1>3. ASSUME NEW i \in Instances, Walk(i)
      PROVE  Promised!DeliveryNext \/ UNCHANGED Promised!deliveryVars
  <2>1. CASE PublishReturns(i)
    <3>1. CASE Current(i) \in Routed
      BY <2>1, <3>1, ReturnDelivers DEF Promised!DeliveryNext
    <3>2. CASE Current(i) \notin Routed
      BY <1>1, <2>1, <3>2 DEF PublishReturns
    <3>3. QED
      BY <3>1, <3>2
  <2>2. CASE MarkPublished(i)
    BY <2>2, MarkSettles DEF Promised!DeliveryNext
  <2>3. CASE Fail(i)
    BY <2>3, FailCounts DEF Promised!DeliveryNext
  <2>4. QED
    BY <1>3, <2>1, <2>2, <2>3 DEF Walk
<1>4. ASSUME NEW i \in Instances, Abort(i) PROVE Promised!DeliveryNext
  BY <1>4 DEF Abort, InState, Positions, Promised!DeliveryNext, Promised!Interrupt
<1>5. ASSUME NEW i \in Instances, StartTick(i) PROVE UNCHANGED Promised!deliveryVars
  BY <1>1, <1>5 DEF StartTick
<1>6. CASE UNCHANGED outboxVars
  BY <1>1, <1>6 DEF outboxVars
<1>7. QED
  BY <1>2, <1>3, <1>4, <1>5, <1>6 DEF OutboxNext

LEMMA DeliveryStarts == OutboxInit => Promised!DeliveryInit
<1> SUFFICES ASSUME OutboxInit PROVE Promised!DeliveryInit
  OBVIOUS
<1>1. \A e : Positions(e) = {}
  BY DEF OutboxInit, Positions
<1>2. Cardinality({}) = 0
  BY FS_EmptySet
<1>3. Times = [e \in Rows |-> 0]
  BY <1>1, <1>2 DEF Times
<1>4. QED
  BY <1>3 DEF OutboxInit, Promised!DeliveryInit, InState, Times

\* The dispatcher implements OrderedDelivery for any number of instances and any batch
\* size: which of them publishes a row, from which stale batch, and what becomes of its
\* update, can only be seen in the repetitions, and these are bounded.
THEOREM OutboxImplements == OutboxSpec => ImplementsOrderedDelivery
<1>1. OutboxInv /\ OutboxInv' /\ [OutboxNext]_outboxVars =>
        [Promised!DeliveryNext]_Promised!deliveryVars
  BY StepDelivers
<1>2. QED
  BY <1>1, DeliveryStarts, OutboxKept, PTL
     DEF OutboxSpec, ImplementsOrderedDelivery, Promised!DeliverySpec
=============================================================================
