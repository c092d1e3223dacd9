------------------------------- MODULE Outbox -------------------------------
(***************************************************************************)
(* The transactional outbox: OutboxService.enqueue writes a row in the     *)
(* transaction of the change it announces, OutboxDispatcher publishes the  *)
(* rows to Pub/Sub in the order of created_at.  That is a time with        *)
(* milliseconds, set before the transaction commits: rows may share it,    *)
(* and may be committed in another order, those of one aggregate too.      *)
(*                                                                         *)
(* Every instance of the service runs a dispatcher.  A tick reads a batch  *)
(* and then walks it, so instances interleave at every publish and update. *)
(***************************************************************************)
EXTENDS Integers, Sequences, FiniteSetsExt

CONSTANTS
    Rows,          \* the outbox rows
    SubjectOf,     \* row -> the aggregate it is about, the ordering key
    CreatedAt,     \* row -> created_at
    Routed,        \* the rows whose type has a topic; none when the bus is disabled
    Instances,
    BatchSize,     \* BATCH_SIZE
    MaxAttempts,   \* MAX_ATTEMPTS
    Faults,        \* may a publish or an update fail?
    DeathsBound    \* model bound on the ticks that are cut short

ASSUME OutboxAssumption ==
    /\ IsFiniteSet(Rows) /\ IsFiniteSet(Instances)
    /\ DOMAIN SubjectOf = Rows /\ CreatedAt \in [Rows -> Nat] /\ Routed \subseteq Rows
    /\ BatchSize \in Nat \ {0} /\ MaxAttempts \in Nat \ {0}
    /\ Faults \in BOOLEAN /\ DeathsBound \in Nat

VARIABLES
    row,      \* outbox_events: row -> state and attempts
    tick,     \* instance -> the rows left of its batch and the one it is at
    topic,    \* Pub/Sub: the messages, in publishing order
    deaths,   \* how many ticks were cut short
    before    \* row -> the earlier rows that were there when it was committed (history)

outboxVars == <<row, tick, topic, deaths, before>>

IdleTick == [pc |-> "idle", batch |-> {}]

Earlier(e) == {f \in Rows : SubjectOf[f] = SubjectOf[e] /\ CreatedAt[f] < CreatedAt[e]}

-----------------------------------------------------------------------------

\* A transaction commits its outbox row.
Enqueue(e) ==
    /\ row[e].state = "absent"
    /\ row' = [row EXCEPT ![e].state = "pending"]
    /\ before' = [before EXCEPT ![e] = {f \in Earlier(e) : row[f].state # "absent"}]
    /\ UNCHANGED <<tick, topic, deaths>>

\* Mutant: one attempt too many.
PendingOnceMore == {e \in Rows : row[e].state = "pending" /\ row[e].attempts <= MaxAttempts}

\* The rows to publish.
Pending == {e \in Rows : row[e].state = "pending" /\ row[e].attempts < MaxAttempts}

\* As many of the pending rows as fit a batch.
Fitting(B) == Cardinality(B) <= BatchSize /\ (B = Pending \/ Cardinality(B) = BatchSize)

\* Mutant: a tick takes the newest rows.
BatchesNewest ==
    {B \in SUBSET Pending :
        Fitting(B) /\ \A e \in Pending \ B, f \in B : CreatedAt[f] >= CreatedAt[e]}

\* A tick takes the oldest rows, at most BatchSize; nothing decides between rows that
\* share a created_at.
Batches ==
    {B \in SUBSET Pending :
        Fitting(B) /\ \A e \in Pending \ B, f \in B : CreatedAt[f] <= CreatedAt[e]}

\* A batch is walked from its oldest row.
Oldest(B) == {e \in B : \A f \in B : CreatedAt[e] <= CreatedAt[f]}

Take(i, B) ==
    \/ B = {} /\ tick' = [tick EXCEPT ![i] = IdleTick]
    \/ \E e \in Oldest(B) :
          tick' = [tick EXCEPT ![i] = [pc |-> "publishing", batch |-> B, row |-> e]]

\* The interval fires and no tick of this instance is running.
StartTick(i) ==
    /\ tick[i].pc = "idle"
    /\ Pending # {}
    /\ \E B \in Batches : Take(i, B)
    /\ UNCHANGED <<row, topic, deaths, before>>

Current(i) == tick[i].row

\* The current row is done with.
Advance(i) == Take(i, tick[i].batch \ {Current(i)})

\* publish returns.  Without a topic it returns null, and the dispatcher does not ask:
\* nothing is sent.
PublishReturns(i) ==
    /\ tick[i].pc = "publishing"
    /\ topic' = IF Current(i) \in Routed THEN Append(topic, Current(i)) ELSE topic
    /\ tick' = [tick EXCEPT ![i].pc = "marking"]
    /\ UNCHANGED <<row, deaths, before>>

\* Mutant: the row is marked before it is published.
MarkPublishedEarly(i) ==
    /\ tick[i].pc \in {"publishing", "marking"}
    /\ row' = [row EXCEPT ![Current(i)].state = "published"]
    /\ Advance(i)
    /\ UNCHANGED <<topic, deaths, before>>

MarkPublished(i) ==
    /\ tick[i].pc = "marking"
    /\ row' = [row EXCEPT ![Current(i)].state = "published"]
    /\ Advance(i)
    /\ UNCHANGED <<topic, deaths, before>>

\* Mutant: the attempt is not counted.
FailUncounted(i) ==
    /\ Faults
    /\ tick[i].pc # "idle"
    /\ Advance(i)
    /\ UNCHANGED <<row, topic, deaths, before>>

\* publish throws, though Pub/Sub may have the message all the same; or the update of the
\* row does.  The attempt is counted, the ordering key resumed, the next row is taken.
Fail(i) ==
    /\ Faults
    /\ tick[i].pc # "idle"
    /\ \/ tick[i].pc = "marking" /\ UNCHANGED topic
       \/ /\ tick[i].pc = "publishing"
          /\ Current(i) \in Routed
          /\ topic' \in {topic, Append(topic, Current(i))}
    /\ row' = [row EXCEPT ![Current(i)].attempts = @ + 1]
    /\ Advance(i)
    /\ UNCHANGED <<deaths, before>>

\* The instance dies, or counting the attempt fails as well.
Abort(i) ==
    /\ deaths < DeathsBound
    /\ tick[i].pc # "idle"
    /\ tick' = [tick EXCEPT ![i] = IdleTick]
    /\ deaths' = deaths + 1
    /\ UNCHANGED <<row, topic, before>>

-----------------------------------------------------------------------------

OutboxInit ==
    /\ row   = [e \in Rows |-> [state |-> "absent", attempts |-> 0]]
    /\ tick  = [i \in Instances |-> IdleTick]
    /\ topic = <<>>
    /\ deaths = 0
    /\ before = [e \in Rows |-> {}]

Walk(i) == PublishReturns(i) \/ MarkPublished(i) \/ Fail(i)

OutboxNext ==
    \/ \E e \in Rows : Enqueue(e)
    \/ \E i \in Instances : StartTick(i) \/ Walk(i) \/ Abort(i)

OutboxSpec == OutboxInit /\ [][OutboxNext]_outboxVars

\* The interval keeps firing, and a tick goes on.
FairOutboxSpec ==
    OutboxSpec /\ \A i \in Instances : WF_outboxVars(StartTick(i)) /\ WF_outboxVars(Walk(i))

-----------------------------------------------------------------------------
(***************************************************************************)
(* Properties.                                                             *)
(***************************************************************************)

Positions(e) == {n \in DOMAIN topic : topic[n] = e}

\* Well-formed rows and ticks.  Instances that fail together count beyond MaxAttempts,
\* but only by those of the other instances.
OutboxTypeOK ==
    /\ row \in [Rows -> [state : {"absent", "pending", "published"},
                         attempts : 0 .. MaxAttempts + Cardinality(Instances) - 1]]
    /\ tick \in [Instances -> {IdleTick}
                    \cup [pc : {"publishing", "marking"}, batch : SUBSET Rows, row : Rows]]
    /\ topic \in Seq(Rows)
    /\ deaths \in 0 .. DeathsBound
    /\ before \in [Rows -> SUBSET Rows]

\* "Event emitted but state not committed" does not happen, and neither does an event
\* marked as published that was not, if there is a topic for it: what happens in between
\* can only duplicate it.
PublishedIsSent ==
    \A e \in Rows :
        /\ row[e].state = "published" /\ e \in Routed => Positions(e) # {}
        /\ row[e].state = "absent" => Positions(e) = {}

\* "Never overlap ticks": duplicates are bounded by their causes.  An instance sends an
\* event once, and again only for a counted attempt or after a tick was cut short.
DuplicatesHaveCauses ==
    \A e \in Rows :
        Cardinality(Positions(e)) <= Cardinality(Instances) + row[e].attempts + deaths

\* The events of one aggregate reach Pub/Sub in order, however many instances race and die,
\* unless the earlier one failed: what comes later is a duplicate.  In order means that the
\* earlier one was created before the other and was there when the other was committed: rows
\* that share a created_at, or are committed against it, may change places.
FirstSentInOrder ==
    \A f \in Rows : \A e \in before[f] \cap Routed :
        Positions(f) # {} /\ row[e].attempts = 0 =>
            Positions(e) # {} /\ Min(Positions(e)) < Min(Positions(f))

\* Rows that keep failing do not keep the others from being tried: each one is
\* published or given up.
RowsLeave ==
    \A e \in Rows :
        row[e].state = "pending"
            ~> row[e].state = "published" \/ row[e].attempts >= MaxAttempts

-----------------------------------------------------------------------------
(***************************************************************************)
(* The inductive invariant behind them.                                    *)
(***************************************************************************)

\* A running tick is at one of the oldest rows it has left, all of them enqueued, and has
\* sent the row it is about to mark.
TicksKept ==
    \A i \in Instances :
        /\ tick[i].pc # "idle" => Current(i) \in Oldest(tick[i].batch)
        /\ \A e \in tick[i].batch : row[e].state # "absent"
        /\ tick[i].pc = "marking" /\ Current(i) \in Routed => Positions(Current(i)) # {}

\* What was there before a row was enqueued is older and still there.
HistoryKept ==
    \A f \in Rows :
        /\ before[f] \subseteq Earlier(f)
        /\ \A e \in before[f] : row[e].state # "absent"

\* The instances that may still count an attempt for a row.
Carriers(e) == {i \in Instances : e \in tick[i].batch}

AttemptsBounded ==
    \A e \in Rows :
        row[e].attempts + Cardinality(Carriers(e)) <= MaxAttempts + Cardinality(Instances) - 1

\* The instances whose sending of a row is not explained by an attempt or a death: those
\* that are about to mark it, and once it is published all that are not about to send it.
Senders(e) ==
    IF row[e].state = "published"
    THEN {i \in Instances :
             e \in tick[i].batch => tick[i].pc = "marking" /\ e = Current(i)}
    ELSE {i \in Instances : tick[i].pc = "marking" /\ e = Current(i)}

DuplicatesExplained ==
    \A e \in Rows :
        Cardinality(Positions(e)) <= Cardinality(Senders(e)) + row[e].attempts + deaths

\* A row is not taken before an earlier one of its subject that is still to be sent.
BatchesInOrder ==
    \A i \in Instances : \A f \in tick[i].batch : \A e \in before[f] \cap Routed :
        row[e].attempts = 0 => e \in tick[i].batch \/ Positions(e) # {}

OutboxInv ==
    /\ OutboxTypeOK
    /\ TicksKept
    /\ HistoryKept
    /\ AttemptsBounded
    /\ PublishedIsSent
    /\ DuplicatesExplained
    /\ BatchesInOrder
    /\ FirstSentInOrder

-----------------------------------------------------------------------------
(***************************************************************************)
(* The outbox implements OrderedDelivery: starting a tick is no step of    *)
(* it, and of racing instances only the messages can be seen.              *)
(***************************************************************************)

InState(state) == {e \in Rows : row[e].state = state}

Promised == INSTANCE OrderedDelivery WITH
                Events <- Rows, Addressed <- Routed, Preceding <- [e \in Rows |-> Earlier(e)],
                Workers <- Cardinality(Instances),
                FailureLimit <- MaxAttempts + Cardinality(Instances) - 1,
                committed <- InState("pending") \cup InState("published"),
                follows <- before,
                deliveries <- [e \in Rows |-> Cardinality(Positions(e))],
                failures <- [e \in Rows |-> row[e].attempts],
                settled <- InState("published"), interruptions <- deaths

\* Whatever instances race, fail and die, a subscriber sees an ordered delivery: no event
\* before its change is committed or before an earlier one that did not fail, none settled
\* unseen, and no repetition or failure without its cause.
ImplementsOrderedDelivery == Promised!DeliverySpec
=============================================================================
