--------------------------- MODULE PayoutsProofs ---------------------------
(***************************************************************************)
(* Proofs about Payouts, for any payouts and artists, any number of        *)
(* runners, admins and reviewers and any bounds.                           *)
(***************************************************************************)
EXTENDS Payouts, FiniteSetTheorems, TLAPS

Free    == {"idle", "walking"}
Working == {"claiming", "paying", "paid", "failing"}

LEMMA RunnerType ==
    ASSUME PayoutsTypeOK, NEW r \in Runners
    PROVE  /\ runner[r].pc \in Free \cup Working
           /\ runner[r].batch \in SUBSET Payouts
           /\ runner[r].pc \in Working =>
                 /\ runner[r] \in [pc : Working, batch : SUBSET Payouts,
                                   payout : Payouts, tries : 0 .. MaxTries - 1]
                 /\ runner[r].payout \in Payouts
                 /\ runner[r].tries \in 0 .. MaxTries - 1
<1>1. runner[r] \in RunnerState
  BY DEF PayoutsTypeOK
<1>2. CASE runner[r] \in [pc : {"idle", "walking"}, batch : SUBSET Payouts]
  BY <1>2 DEF Free, Working
<1>3. CASE runner[r] \in [pc : {"claiming", "paying", "paid", "failing"},
                          batch : SUBSET Payouts, payout : Payouts, tries : 0 .. MaxTries - 1]
  BY <1>3 DEF Free, Working
<1>4. QED
  BY <1>1, <1>2, <1>3 DEF RunnerState

\* The other runners do not notice.
OthersStay(r) == \A s \in Runners \ {r} : runner'[s] = runner[s]

\* The runner lets go of its payout.
Frees(r) ==
    /\ runner' \in [Runners -> RunnerState]
    /\ runner'[r].pc \in Free
    /\ OthersStay(r)

\* It goes on with it.
GoesTo(r, point, tries) ==
    /\ runner' \in [Runners -> RunnerState]
    /\ runner'[r].pc = point
    /\ runner'[r].payout = runner[r].payout
    /\ runner'[r].tries = tries
    /\ OthersStay(r)

LEMMA SetRunner ==
    ASSUME PayoutsTypeOK, NEW r \in Runners, NEW state \in RunnerState,
           runner' = [runner EXCEPT ![r] = state]
    PROVE  /\ runner' \in [Runners -> RunnerState]
           /\ runner'[r] = state
           /\ OthersStay(r)
  BY DEF PayoutsTypeOK, OthersStay

LEMMA FreeState ==
    ASSUME NEW batch \in SUBSET Payouts, NEW point \in Free
    PROVE  [pc |-> point, batch |-> batch] \in RunnerState
  BY DEF RunnerState, Free

LEMMA NextCandidateFrees ==
    ASSUME PayoutsTypeOK, NEW r \in Runners, NextCandidate(r)
    PROVE  Frees(r)
<1> DEFINE state == IF runner[r].batch = {} THEN IdleRunner
                    ELSE [pc |-> "walking", batch |-> runner[r].batch]
<1>1. runner' = [runner EXCEPT ![r] = state]
  BY DEF NextCandidate
<1>2. state \in RunnerState /\ state.pc \in Free
  BY RunnerType, FreeState DEF IdleRunner, Free
<1> HIDE DEF state
<1>3. QED
  BY <1>1, <1>2, SetRunner DEF Frees

LEMMA MoveGoes ==
    ASSUME PayoutsTypeOK, NEW r \in Runners, runner[r].pc \in Working,
           NEW point \in Working, Move(r, point)
    PROVE  GoesTo(r, point, runner[r].tries)
<1> DEFINE state == [runner[r] EXCEPT !.pc = point]
<1>1. runner' = [runner EXCEPT ![r] = state]
  BY DEF Move
<1>2. runner[r] \in [pc : Working, batch : SUBSET Payouts,
                     payout : Payouts, tries : 0 .. MaxTries - 1]
  BY RunnerType
<1>3. state \in [pc : Working, batch : SUBSET Payouts,
                 payout : Payouts, tries : 0 .. MaxTries - 1]
  BY <1>2
<1>4. /\ state \in RunnerState
      /\ state.pc = point
      /\ state.payout = runner[r].payout
      /\ state.tries = runner[r].tries
  BY <1>2, <1>3 DEF RunnerState, Working
<1> HIDE DEF state
<1>5. QED
  BY <1>1, <1>4, SetRunner DEF GoesTo

-----------------------------------------------------------------------------
(***************************************************************************)
(* Counting the sendings that are left.                                    *)
(***************************************************************************)

LEMMA LimitType == SendLimit \in Nat \ {0} /\ (LostAnswers => SendLimit = MaxTries)
  BY PayoutsAssumption DEF SendLimit

LEMMA LeftFinite ==
    ASSUME NEW p
    PROVE  IsFiniteSet(SendsLeft(p)) /\ Cardinality(SendsLeft(p)) \in Nat
<1>1. IsFiniteSet(0 .. SendLimit - 1)
  BY LimitType, FS_Interval
<1>2. IsFiniteSet(Runners \X (0 .. SendLimit - 1))
  BY <1>1, PayoutsAssumption, FS_Product
<1>3. SendsLeft(p) \in SUBSET (Runners \X (0 .. SendLimit - 1))
  BY DEF SendsLeft
<1>4. QED
  BY <1>2, <1>3, FS_Subset, FS_CardinalityType

\* Fewer are left: at least those that cannot happen any more.
LEMMA FewerLeft ==
    ASSUME NEW p, SendsLeft(p)' \subseteq SendsLeft(p)
    PROVE  /\ Cardinality(SendsLeft(p)') \in Nat
           /\ Cardinality(SendsLeft(p)') <= Cardinality(SendsLeft(p))
<1>1. IsFiniteSet(SendsLeft(p)) /\ SendsLeft(p)' \in SUBSET SendsLeft(p)
  BY LeftFinite
<1>2. QED
  BY <1>1, FS_Subset, FS_CardinalityType

LEMMA OneFewerLeft ==
    ASSUME NEW p, NEW rt \in SendsLeft(p), SendsLeft(p)' \subseteq SendsLeft(p) \ {rt}
    PROVE  /\ Cardinality(SendsLeft(p)') \in Nat
           /\ Cardinality(SendsLeft(p)') + 1 <= Cardinality(SendsLeft(p))
<1>1. IsFiniteSet(SendsLeft(p)) /\ Cardinality(SendsLeft(p)) \in Nat
  BY LeftFinite
<1>2. /\ IsFiniteSet(SendsLeft(p) \ {rt})
      /\ Cardinality(SendsLeft(p) \ {rt}) = Cardinality(SendsLeft(p)) - 1
  BY <1>1, FS_RemoveElement
<1>3. /\ Cardinality(SendsLeft(p)') \in Nat
      /\ Cardinality(SendsLeft(p)') <= Cardinality(SendsLeft(p) \ {rt})
  BY <1>2, FS_Subset, FS_CardinalityType
<1>4. QED
  BY <1>1, <1>2, <1>3

\* A claim is good for SendLimit of them.
LEMMA ClaimedLeft ==
    ASSUME NEW p, NEW r,
           SendsLeft(p)' \subseteq SendsLeft(p) \cup ({r} \X (0 .. SendLimit - 1))
    PROVE  /\ Cardinality(SendsLeft(p)') \in Nat
           /\ Cardinality(SendsLeft(p)') <= Cardinality(SendsLeft(p)) + SendLimit
<1> DEFINE own == {r} \X (0 .. SendLimit - 1)
           all == SendsLeft(p) \cup own
<1>1. IsFiniteSet(SendsLeft(p)) /\ Cardinality(SendsLeft(p)) \in Nat
  BY LeftFinite
<1>2. IsFiniteSet(own) /\ Cardinality(own) = SendLimit
  <2>1. IsFiniteSet({r}) /\ Cardinality({r}) = 1
    BY FS_Singleton
  <2>2. IsFiniteSet(0 .. SendLimit - 1) /\ Cardinality(0 .. SendLimit - 1) = SendLimit
    BY LimitType, FS_Interval
  <2>3. IsFiniteSet(own) /\ Cardinality(own) = Cardinality({r}) * Cardinality(0 .. SendLimit - 1)
    BY <2>1, <2>2, FS_Product
  <2>4. QED
    BY <2>1, <2>2, <2>3, LimitType
<1> HIDE DEF own
<1>3. IsFiniteSet(SendsLeft(p) \cap own) /\ Cardinality(SendsLeft(p) \cap own) \in Nat
  BY <1>1, FS_Intersection, FS_CardinalityType
<1>4. /\ IsFiniteSet(all)
      /\ Cardinality(all) = Cardinality(SendsLeft(p)) + Cardinality(own)
                              - Cardinality(SendsLeft(p) \cap own)
  BY <1>1, <1>2, FS_Union
<1>5. SendsLeft(p)' \in SUBSET all
  BY DEF own
<1> HIDE DEF all
<1>6. /\ Cardinality(SendsLeft(p)') \in Nat
      /\ Cardinality(SendsLeft(p)') <= Cardinality(all)
      /\ Cardinality(all) \in Nat
  BY <1>4, <1>5, FS_Subset, FS_CardinalityType
<1>7. QED
  BY <1>1, <1>2, <1>3, <1>4, <1>6, LimitType

LEMMA PayoutsType ==
    ASSUME PayoutsInv, NEW p \in Payouts
    PROVE  /\ PayoutsTypeOK
           /\ payout[p] \in PayoutRow
           /\ payout[p].state \in PayoutStates
           /\ payout[p].attempts \in Nat
           /\ sends[p] \in Nat
           /\ ClaimsCounted(p) \in Nat
           /\ SendsAccounted(p)
           /\ AllGoesWell => OwnedByOne(p)
<1>1. PayoutsTypeOK
  BY DEF PayoutsInv
<1>2. payout[p] \in PayoutRow /\ sends[p] \in Nat
  BY <1>1 DEF PayoutsTypeOK
<1>3. payout[p].state \in PayoutStates /\ payout[p].attempts \in Nat
  BY <1>2, PayoutsAssumption DEF PayoutRow
<1>4. QED
  BY <1>1, <1>2, <1>3 DEF PayoutsInv, ClaimsCounted

\* The row of a payout stays, and the runners at it only let go of it.
LEMMA RowStays ==
    ASSUME PayoutsInv, NEW p \in Payouts,
           payout'[p] = payout[p], notice'[p] = notice[p], sends'[p] = sends[p],
           \/ p \notin retryCron'
           \/ p \in retryCron
           \/ payout[p].state = "FAILED" /\ \A r \in Runners : ~At(r, p, {"paying", "paid"}),
           \A r \in Runners :
              /\ At(r, p, {"paying"})' =>
                    /\ At(r, p, {"paying"})
                    /\ runner'[r].tries \in {runner[r].tries, runner[r].tries + 1}
              /\ At(r, p, {"paid"})' => At(r, p, {"paid"})
              /\ AllGoesWell /\ At(r, p, {"paid"}) => At(r, p, {"paid"})'
    PROVE  SendsAccounted(p)' /\ (AllGoesWell => OwnedByOne(p))'
<1>1. SendsLeft(p)' \subseteq SendsLeft(p)
  <2>1. \A r \in Runners : At(r, p, {"paying"}) /\ LostAnswers => runner[r].tries \in 0 .. MaxTries - 1
    BY PayoutsType, RunnerType DEF At, Working
  <2>2. ASSUME NEW r \in Runners, NEW t \in 0 .. SendLimit - 1, At(r, p, {"paying"})',
               LostAnswers => runner'[r].tries <= t
        PROVE  At(r, p, {"paying"}) /\ (LostAnswers => runner[r].tries <= t)
    BY <2>1, <2>2, LimitType, PayoutsAssumption
  <2>3. QED
    BY <2>2 DEF SendsLeft
<1>2. SendsAccounted(p)'
  <2>1. /\ Cardinality(SendsLeft(p)') \in Nat
        /\ Cardinality(SendsLeft(p)') <= Cardinality(SendsLeft(p))
        /\ Cardinality(SendsLeft(p)) \in Nat
    BY <1>1, FewerLeft, LeftFinite
  <2>2. ClaimsCounted(p)' = ClaimsCounted(p)
    BY DEF ClaimsCounted
  <2>3. sends[p] + Cardinality(SendsLeft(p)) <= ClaimsCounted(p) * SendLimit
    BY PayoutsType DEF SendsAccounted
  <2>4. ClaimsCounted(p) * SendLimit \in Nat
    BY PayoutsType, LimitType
  <2>5. (sends[p] + Cardinality(SendsLeft(p)) <= ClaimsCounted(p) * SendLimit)'
    BY <2>1, <2>2, <2>3, <2>4, PayoutsType
  <2>6. QED
    BY <2>5, PayoutsType DEF SendsAccounted
<1>3. (AllGoesWell => OwnedByOne(p))'
  <2> SUFFICES ASSUME AllGoesWell PROVE OwnedByOne(p)'
    BY DEF AllGoesWell
  <2>1. OwnedByOne(p)
    BY PayoutsType
  <2>2. \A r \in Runners : At(r, p, {"paying", "paid"})' =>
           /\ At(r, p, {"paying", "paid"})
           /\ runner'[r].pc = "paying" => runner[r].pc = "paying"
    BY DEF At
  <2>3. (sends[p] = 1 => \/ payout[p].state = "SUCCEEDED"
                         \/ \E r \in Runners : At(r, p, {"paid"}))'
    BY <2>1 DEF OwnedByOne
  <2>4. (p \in retryCron => payout[p].state = "FAILED")'
    BY <2>1 DEF OwnedByOne
  <2>5. ASSUME NEW r \in Runners, At(r, p, {"paying", "paid"})'
        PROVE  /\ payout'[p].state \in {"PROCESSING", "FAILED"}
               /\ p \notin retryCron'
               /\ runner'[r].pc = "paying" => sends'[p] = 0
               /\ \A s \in Runners : At(s, p, {"paying", "paid"})' => s = r
    BY <2>1, <2>2, <2>5 DEF OwnedByOne
  <2>6. QED
    BY <2>1, <2>3, <2>4, <2>5 DEF OwnedByOne
<1>4. QED
  BY <1>2, <1>3

-----------------------------------------------------------------------------
(***************************************************************************)
(* Steps that leave the rows of payouts alone.                             *)
(***************************************************************************)

\* No runner moves.
LEMMA RunnersStay ==
    ASSUME PayoutsInv, NEW p \in Payouts, runner' = runner,
           payout'[p] = payout[p], notice'[p] = notice[p], sends'[p] = sends[p],
           \/ p \notin retryCron'
           \/ p \in retryCron
           \/ payout[p].state = "FAILED" /\ \A r \in Runners : ~At(r, p, {"paying", "paid"})
    PROVE  SendsAccounted(p)' /\ (AllGoesWell => OwnedByOne(p))'
<1>1. \A r \in Runners :
         /\ At(r, p, {"paying"})' =>
               /\ At(r, p, {"paying"})
               /\ runner'[r].tries \in {runner[r].tries, runner[r].tries + 1}
         /\ At(r, p, {"paid"})' => At(r, p, {"paid"})
         /\ AllGoesWell /\ At(r, p, {"paid"}) => At(r, p, {"paid"})'
  BY DEF At
<1>2. QED
  BY <1>1, RowStays

\* A runner pays nothing after the step.
LEMMA LetsGo ==
    ASSUME PayoutsInv, NEW r \in Runners, NEW p \in Payouts, OthersStay(r),
           runner'[r].pc \notin {"paying", "paid"},
           runner[r].pc # "paid" \/ Crashes,
           payout'[p] = payout[p], notice'[p] = notice[p], sends'[p] = sends[p],
           retryCron' = retryCron
    PROVE  SendsAccounted(p)' /\ (AllGoesWell => OwnedByOne(p))'
<1>1. ASSUME NEW s \in Runners
      PROVE  /\ At(s, p, {"paying"})' =>
                   /\ At(s, p, {"paying"})
                   /\ runner'[s].tries \in {runner[s].tries, runner[s].tries + 1}
             /\ At(s, p, {"paid"})' => At(s, p, {"paid"})
             /\ AllGoesWell /\ At(s, p, {"paid"}) => At(s, p, {"paid"})'
  <2>1. CASE s = r
    BY <2>1 DEF At, AllGoesWell
  <2>2. CASE s # r
    BY <2>2 DEF At, OthersStay
  <2>3. QED
    BY <2>1, <2>2
<1>2. QED
  BY <1>1, RowStays

\* The payouts that a runner does not work on.
LEMMA RowOfOthers ==
    ASSUME PayoutsInv, NEW r \in Runners, NEW p \in Payouts, OthersStay(r),
           At(r, p, {"paying", "paid"})' => At(r, p, {"paying", "paid"}),
           ~At(r, p, {"paying", "paid"}),
           payout'[p] = payout[p], notice'[p] = notice[p], sends'[p] = sends[p],
           retryCron' = retryCron
    PROVE  SendsAccounted(p)' /\ (AllGoesWell => OwnedByOne(p))'
<1>1. ASSUME NEW s \in Runners
      PROVE  /\ At(s, p, {"paying"})' =>
                   /\ At(s, p, {"paying"})
                   /\ runner'[s].tries \in {runner[s].tries, runner[s].tries + 1}
             /\ At(s, p, {"paid"})' => At(s, p, {"paid"})
             /\ AllGoesWell /\ At(s, p, {"paid"}) => At(s, p, {"paid"})'
  <2>1. CASE s = r
    BY <2>1 DEF At
  <2>2. CASE s # r
    BY <2>2 DEF At, OthersStay
  <2>3. QED
    BY <2>1, <2>2
<1>2. QED
  BY <1>1, RowStays

LEMMA PickInv ==
    ASSUME PayoutsInv, NEW r \in Runners, Pick(r)
    PROVE  PayoutsInv'
<1>1. PICK batch \in SUBSET Eligible :
         /\ runner[r].pc = "idle"
         /\ runner' = [runner EXCEPT ![r] = [pc |-> "walking", batch |-> batch]]
         /\ UNCHANGED <<methodVars, payout, due, refunding, retryCron, admin, notice, sends>>
  BY DEF Pick
<1>2. PayoutsTypeOK
  BY DEF PayoutsInv
<1>3. batch \in SUBSET Payouts
  BY <1>2 DEF Eligible, PayoutsTypeOK
<1>4. [pc |-> "walking", batch |-> batch] \in RunnerState
  BY <1>3, FreeState DEF Free
<1>5. /\ runner' \in [Runners -> RunnerState]
      /\ runner'[r].pc = "walking"
      /\ OthersStay(r)
  BY <1>1, <1>2, <1>4, SetRunner
<1>6. PayoutsTypeOK'
  BY <1>1, <1>2, <1>5 DEF PayoutsTypeOK, MethodsTypeOK, methodVars
<1>7. ASSUME NEW p \in Payouts
      PROVE  SendsAccounted(p)' /\ (AllGoesWell => OwnedByOne(p))'
  BY <1>1, <1>5, LetsGo
<1>8. QED
  BY <1>6, <1>7 DEF PayoutsInv

LEMMA LookUpMethodInv ==
    ASSUME PayoutsInv, NEW r \in Runners, NEW p \in Payouts, LookUpMethod(r, p)
    PROVE  PayoutsInv'
<1> DEFINE point == IF method[ArtistOf[p]] = "verified" THEN "claiming" ELSE "failing"
           state == [pc |-> point, batch |-> runner[r].batch \ {p}, payout |-> p, tries |-> 0]
<1>1. /\ runner[r].pc = "walking"
      /\ runner' = [runner EXCEPT ![r] = state]
      /\ UNCHANGED <<methodVars, payout, due, refunding, retryCron, admin, notice, sends>>
  BY DEF LookUpMethod
<1>2. PayoutsTypeOK
  BY DEF PayoutsInv
<1>3. /\ state \in RunnerState
      /\ state.pc \in {"claiming", "failing"}
  <2>1. point \in {"claiming", "failing"}
    OBVIOUS
  <2>2. runner[r].batch \ {p} \in SUBSET Payouts
    BY <1>2, RunnerType
  <2>3. 0 \in 0 .. MaxTries - 1
    BY PayoutsAssumption
  <2> HIDE DEF point
  <2>4. QED
    BY <2>1, <2>2, <2>3 DEF RunnerState
<1> HIDE DEF state
<1>4. /\ runner' \in [Runners -> RunnerState]
      /\ runner'[r].pc \notin {"paying", "paid"}
      /\ OthersStay(r)
  BY <1>1, <1>2, <1>3, SetRunner
<1>5. PayoutsTypeOK'
  BY <1>1, <1>2, <1>4 DEF PayoutsTypeOK, MethodsTypeOK, methodVars
<1>6. ASSUME NEW q \in Payouts
      PROVE  SendsAccounted(q)' /\ (AllGoesWell => OwnedByOne(q))'
  BY <1>1, <1>4, LetsGo
<1>7. QED
  BY <1>5, <1>6 DEF PayoutsInv

LEMMA InterruptInv ==
    ASSUME PayoutsInv, NEW r \in Runners, Interrupt(r)
    PROVE  PayoutsInv'
<1>1. /\ Crashes
      /\ NextCandidate(r) \/ runner' = [runner EXCEPT ![r] = IdleRunner]
      /\ UNCHANGED <<methodVars, payout, due, refunding, retryCron, admin, notice, sends>>
  BY DEF Interrupt
<1>2. PayoutsTypeOK
  BY DEF PayoutsInv
<1>3. Frees(r)
  <2>1. IdleRunner \in RunnerState /\ IdleRunner.pc \in Free
    BY FreeState DEF IdleRunner, Free
  <2>2. QED
    BY <1>1, <1>2, <2>1, SetRunner, NextCandidateFrees DEF Frees
<1>4. PayoutsTypeOK'
  BY <1>1, <1>2, <1>3 DEF PayoutsTypeOK, MethodsTypeOK, methodVars, Frees
<1>5. ASSUME NEW p \in Payouts
      PROVE  SendsAccounted(p)' /\ (AllGoesWell => OwnedByOne(p))'
  BY <1>1, <1>3, LetsGo DEF Frees, Free
<1>6. QED
  BY <1>4, <1>5 DEF PayoutsInv

\* The clock, the refunds, the bank accounts and what the admins read.
LEMMA ElsewhereInv ==
    ASSUME PayoutsInv, PayoutsTypeOK', UNCHANGED <<payout, runner, retryCron, notice, sends>>
    PROVE  PayoutsInv'
<1>1. ASSUME NEW p \in Payouts
      PROVE  SendsAccounted(p)' /\ (AllGoesWell => OwnedByOne(p))'
  BY RunnersStay
<1>2. QED
  BY <1>1 DEF PayoutsInv

LEMMA AdminReadsInv ==
    ASSUME PayoutsInv, NEW a \in Admins, NEW p \in Payouts, AdminReads(a, p)
    PROVE  PayoutsInv'
<1>1. UNCHANGED <<methodVars, payout, due, refunding, runner, retryCron, notice, sends>>
  BY DEF AdminReads
<1>2. PayoutsTypeOK'
  <2>1. admin' \in [Admins -> {NoAdmin} \cup [pc : {"retrying", "cancelling"}, payout : Payouts]]
    BY DEF AdminReads, PayoutsInv, PayoutsTypeOK
  <2>2. QED
    BY <1>1, <2>1 DEF PayoutsInv, PayoutsTypeOK, MethodsTypeOK, methodVars
<1>3. QED
  BY <1>1, <1>2, ElsewhereInv

LEMMA DueAndRefundsInv ==
    ASSUME PayoutsInv, NEW p \in Payouts, BecomeDue(p) \/ CloseRefund(p)
    PROVE  PayoutsInv'
<1>1. PayoutsTypeOK'
  BY DEF BecomeDue, CloseRefund, PayoutsInv, PayoutsTypeOK, MethodsTypeOK, methodVars
<1>2. QED
  BY <1>1, ElsewhereInv DEF BecomeDue, CloseRefund

LEMMA MethodsInv ==
    ASSUME MethodsTypeOK, [MethodsNext]_methodVars
    PROVE  MethodsTypeOK'
<1>1. CASE \E a \in Artists : Upsert(a)
  BY <1>1 DEF Upsert, MethodsTypeOK, Method
<1>2. CASE \E r \in Reviewers : ApplyVerdict(r)
  <2>1. PICK r \in Reviewers : ApplyVerdict(r)
    BY <1>2
  <2>2. method' \in [Artists -> Method] /\ \A a \in Artists : method[a] # "none" => method'[a] # "none"
    BY <2>1 DEF ApplyVerdict, MethodsTypeOK, Method
  <2>3. /\ review' \in [Reviewers -> {NoReview} \cup [pc : {"verifying", "rejecting"}, artist : Artists]]
        /\ \A s \in Reviewers : review'[s] # NoReview => review'[s] = review[s]
    BY <2>1 DEF ApplyVerdict, MethodsTypeOK
  <2>4. \A s \in Reviewers : review'[s] # NoReview => method'[review'[s].artist] # "none"
    BY <2>2, <2>3 DEF MethodsTypeOK
  <2>5. QED
    BY <2>2, <2>3, <2>4 DEF MethodsTypeOK
<1>3. CASE \E r \in Reviewers, a \in Artists : Decide(r, a)
  <2>1. PICK r \in Reviewers, a \in Artists : Decide(r, a)
    BY <1>3
  <2> DEFINE call == [pc     |-> IF method[a] = "verified" THEN "rejecting" ELSE "verifying",
                      artist |-> a]
  <2>2. call \in [pc : {"verifying", "rejecting"}, artist : Artists] /\ call.artist = a
    OBVIOUS
  <2>3. review' = [review EXCEPT ![r] = call] /\ method[a] # "none" /\ method' = method
    BY <2>1 DEF Decide
  <2> HIDE DEF call
  <2>4. QED
    BY <2>2, <2>3 DEF MethodsTypeOK
<1>4. CASE UNCHANGED methodVars
  BY <1>4 DEF methodVars, MethodsTypeOK
<1>5. QED
  BY <1>1, <1>2, <1>3, <1>4 DEF MethodsNext

LEMMA OtherModulesInv ==
    ASSUME PayoutsInv, [MethodsNext]_methodVars, UNCHANGED payoutVars
    PROVE  PayoutsInv'
<1>1. MethodsTypeOK'
  BY MethodsInv DEF PayoutsInv, PayoutsTypeOK
<1>2. PayoutsTypeOK'
  BY <1>1 DEF PayoutsInv, PayoutsTypeOK, payoutVars
<1>3. QED
  BY <1>2, ElsewhereInv DEF payoutVars

-----------------------------------------------------------------------------
(***************************************************************************)
(* Steps that write a row.                                                 *)
(***************************************************************************)

LEMMA Monotonic ==
    ASSUME NEW m \in Nat, NEW n \in Nat, m <= n, NEW k \in Nat
    PROVE  /\ m * k \in Nat
           /\ n * k \in Nat
           /\ m * k <= n * k
<1>1. PICK rest \in Nat : n = m + rest
  <2>1. n - m \in Nat /\ n = m + (n - m)
    OBVIOUS
  <2>2. QED
    BY <2>1
<1>2. n * k = m * k + rest * k
  BY <1>1
<1>3. m * k \in Nat /\ rest * k \in Nat
  OBVIOUS
<1>4. QED
  BY <1>2, <1>3

\* The row is written, and no sending comes of it.
LEMMA RowWritten ==
    ASSUME PayoutsInv, NEW p \in Payouts,
           ClaimsCounted(p)' \in Nat, ClaimsCounted(p)' >= ClaimsCounted(p),
           sends'[p] = sends[p],
           payout'[p].state = "SUCCEEDED" \/ notice'[p] = "succeeded" => sends[p] >= 1,
           SendsLeft(p)' \subseteq SendsLeft(p),
           \A r \in Runners : At(r, p, {"paid"})' => At(r, p, {"paid"})
    PROVE  SendsAccounted(p)'
<1>1. /\ Cardinality(SendsLeft(p)') \in Nat
      /\ Cardinality(SendsLeft(p)') <= Cardinality(SendsLeft(p))
      /\ Cardinality(SendsLeft(p)) \in Nat
  BY FewerLeft, LeftFinite
<1>2. /\ ClaimsCounted(p) * SendLimit \in Nat
      /\ ClaimsCounted(p)' * SendLimit \in Nat
      /\ ClaimsCounted(p) * SendLimit <= ClaimsCounted(p)' * SendLimit
  BY PayoutsType, LimitType, Monotonic
<1>3. sends[p] + Cardinality(SendsLeft(p)) <= ClaimsCounted(p) * SendLimit
  BY PayoutsType DEF SendsAccounted
<1>4. sends'[p] + Cardinality(SendsLeft(p)') <= ClaimsCounted(p)' * SendLimit
  BY <1>1, <1>2, <1>3, PayoutsType
<1>5. SendLimit' = SendLimit
  BY DEF SendLimit
<1>6. QED
  BY <1>4, <1>5, PayoutsType DEF SendsAccounted

\* A runner lets go of a payout: less is left, and who else was at it still is.
LEMMA LetGo ==
    ASSUME NEW r \in Runners, NEW p, OthersStay(r), runner'[r].pc \notin {"paying", "paid"}
    PROVE  /\ SendsLeft(p)' \subseteq SendsLeft(p)
           /\ \A s \in Runners : At(s, p, {"paid"})' => At(s, p, {"paid"})
           /\ \A s \in Runners : At(s, p, {"paying", "paid"})' =>
                 s # r /\ runner'[s] = runner[s] /\ At(s, p, {"paying", "paid"})
           /\ \A s \in Runners : s # r /\ At(s, p, {"paid"}) => At(s, p, {"paid"})'
<1>1. \A s \in Runners : s # r => runner'[s] = runner[s]
  BY DEF OthersStay
<1>2. SendsLeft(p)' \subseteq SendsLeft(p)
  <2>1. SendLimit' = SendLimit
    BY DEF SendLimit
  <2>2. ASSUME NEW s \in Runners, NEW t \in 0 .. SendLimit - 1, At(s, p, {"paying"})',
               LostAnswers => runner'[s].tries <= t
        PROVE  At(s, p, {"paying"}) /\ (LostAnswers => runner[s].tries <= t)
    BY <1>1, <2>2 DEF At
  <2>3. QED
    BY <2>1, <2>2 DEF SendsLeft
<1>3. QED
  BY <1>1, <1>2 DEF At

LEMMA PersistSuccessInv ==
    ASSUME PayoutsInv, NEW r \in Runners, NEW p \in Payouts, p = runner[r].payout,
           PersistSuccess(r)
    PROVE  PayoutsInv'
<1>1. /\ runner[r].pc = "paid"
      /\ payout' = [payout EXCEPT ![p].state = "SUCCEEDED"]
      /\ notice' = [notice EXCEPT ![p] = "succeeded"]
      /\ NextCandidate(r)
      /\ UNCHANGED <<methodVars, due, refunding, retryCron, admin, sends>>
  BY DEF PersistSuccess
<1>2. /\ PayoutsTypeOK
      /\ Frees(r)
  BY <1>1, RunnerType, NextCandidateFrees DEF PayoutsInv, Working
<1>3. /\ payout' \in [Payouts -> PayoutRow]
      /\ payout'[p].state = "SUCCEEDED"
      /\ payout'[p].attempts = payout[p].attempts
      /\ \A q \in Payouts \ {p} : payout'[q] = payout[q]
  BY <1>1, <1>2 DEF PayoutsTypeOK, PayoutRow, PayoutStates
<1>4. /\ notice' \in [Payouts -> {"queued", "failed", "succeeded"}]
      /\ \A q \in Payouts \ {p} : notice'[q] = notice[q]
  BY <1>1, <1>2 DEF PayoutsTypeOK
<1>5. PayoutsTypeOK'
  BY <1>1, <1>2, <1>3, <1>4 DEF PayoutsTypeOK, MethodsTypeOK, methodVars, Frees
<1>6. SendsAccounted(p)'
  <2>1. sends[p] >= 1
    BY <1>1, <1>2, PayoutsType DEF SendsAccounted, At
  <2>2. ClaimsCounted(p)' \in Nat /\ ClaimsCounted(p)' >= ClaimsCounted(p)
    BY <1>2, <1>3, PayoutsType DEF ClaimsCounted
  <2>3. /\ SendsLeft(p)' \subseteq SendsLeft(p)
        /\ \A s \in Runners : At(s, p, {"paid"})' => At(s, p, {"paid"})
    BY <1>2, LetGo DEF Frees, Free
  <2>4. QED
    BY <1>1, <1>2, <2>1, <2>2, <2>3, RowWritten
<1>7. (AllGoesWell => OwnedByOne(p))'
  <2> SUFFICES ASSUME AllGoesWell PROVE OwnedByOne(p)'
    BY DEF AllGoesWell
  <2>1. OwnedByOne(p)
    BY <1>2, PayoutsType
  <2>2. \A s \in Runners : ~At(s, p, {"paying", "paid"})'
    <3>1. \A s \in Runners : At(s, p, {"paying", "paid"}) => s = r
      BY <1>1, <2>1 DEF OwnedByOne, At
    <3>2. QED
      BY <1>2, <3>1, LetGo DEF Frees, Free
  <2>3. p \notin retryCron'
    BY <1>1, <2>1 DEF OwnedByOne, At
  <2>4. sends'[p] <= 1
    BY <1>1, <2>1 DEF OwnedByOne
  <2>5. QED
    BY <1>3, <2>2, <2>3, <2>4 DEF OwnedByOne
<1>8. ASSUME NEW q \in Payouts, q # p
      PROVE  SendsAccounted(q)' /\ (AllGoesWell => OwnedByOne(q))'
  <2>1. ~At(r, q, {"paying", "paid"}) /\ ~At(r, q, {"paying", "paid"})'
    BY <1>2, <1>8 DEF At, Frees, Free
  <2>2. QED
    BY <1>1, <1>2, <1>3, <1>4, <1>8, <2>1, RowOfOthers DEF Frees
<1>9. QED
  BY <1>5, <1>6, <1>7, <1>8 DEF PayoutsInv

LEMMA PersistFailureInv ==
    ASSUME PayoutsInv, NEW r \in Runners, NEW p \in Payouts, p = runner[r].payout,
           PersistFailure(r)
    PROVE  PayoutsInv'
<1> DEFINE end == IF payout[p].state \in {"QUEUED", "PROCESSING"} THEN "FAILED" ELSE payout[p].state
<1>1. /\ runner[r].pc = "failing"
      /\ payout' = [payout EXCEPT ![p].state = end]
      /\ notice' = [notice EXCEPT ![p] = "failed"]
      /\ NextCandidate(r)
      /\ UNCHANGED <<methodVars, due, refunding, retryCron, admin, sends>>
  BY DEF PersistFailure
<1>2. /\ PayoutsTypeOK
      /\ Frees(r)
  BY <1>1, RunnerType, NextCandidateFrees DEF PayoutsInv, Working
<1>3. end \in PayoutStates \ {"QUEUED", "PROCESSING"}
  BY <1>2, PayoutsType DEF PayoutStates
<1>4. /\ payout' \in [Payouts -> PayoutRow]
      /\ payout'[p].state = end
      /\ payout'[p].attempts = payout[p].attempts
      /\ \A q \in Payouts \ {p} : payout'[q] = payout[q]
  <2> HIDE DEF end
  <2>1. QED
    BY <1>1, <1>2, <1>3 DEF PayoutsTypeOK, PayoutRow
<1>5. /\ notice' \in [Payouts -> {"queued", "failed", "succeeded"}]
      /\ notice'[p] = "failed"
      /\ \A q \in Payouts \ {p} : notice'[q] = notice[q]
  BY <1>1, <1>2 DEF PayoutsTypeOK
<1>6. PayoutsTypeOK'
  BY <1>1, <1>2, <1>4, <1>5 DEF PayoutsTypeOK, MethodsTypeOK, methodVars, Frees
<1>7. SendsAccounted(p)'
  <2>1. payout'[p].state = "SUCCEEDED" \/ notice'[p] = "succeeded" => sends[p] >= 1
    <3>1. payout[p].state = "SUCCEEDED" => sends[p] >= 1
      BY <1>2, PayoutsType DEF SendsAccounted
    <3>2. QED
      BY <1>4, <1>5, <3>1
  <2>2. ClaimsCounted(p)' \in Nat /\ ClaimsCounted(p)' >= ClaimsCounted(p)
    BY <1>2, <1>3, <1>4, PayoutsType DEF ClaimsCounted
  <2>3. /\ SendsLeft(p)' \subseteq SendsLeft(p)
        /\ \A s \in Runners : At(s, p, {"paid"})' => At(s, p, {"paid"})
    BY <1>2, LetGo DEF Frees, Free
  <2>4. QED
    BY <1>1, <1>2, <2>1, <2>2, <2>3, RowWritten
<1>8. (AllGoesWell => OwnedByOne(p))'
  <2> SUFFICES ASSUME AllGoesWell PROVE OwnedByOne(p)'
    BY DEF AllGoesWell
  <2>1. OwnedByOne(p)
    BY <1>2, PayoutsType
  <2>2. sends'[p] = 1 => \/ payout'[p].state = "SUCCEEDED"
                         \/ \E s \in Runners : At(s, p, {"paid"})'
    <3>1. \A s \in Runners : At(s, p, {"paid"}) => At(s, p, {"paid"})'
      BY <1>1, <1>2, LetGo DEF Frees, Free, At
    <3>2. payout[p].state = "SUCCEEDED" => payout'[p].state = "SUCCEEDED"
      BY <1>4
    <3>3. QED
      BY <1>1, <2>1, <3>1, <3>2 DEF OwnedByOne
  <2>3. p \in retryCron' => payout'[p].state = "FAILED"
    BY <1>1, <1>4, <2>1 DEF OwnedByOne
  <2>4. ASSUME NEW s \in Runners, At(s, p, {"paying", "paid"})'
        PROVE  /\ payout'[p].state \in {"PROCESSING", "FAILED"}
               /\ p \notin retryCron'
               /\ runner'[s].pc = "paying" => sends'[p] = 0
               /\ \A t \in Runners : At(t, p, {"paying", "paid"})' => t = s
    <3>1. \A t \in Runners : At(t, p, {"paying", "paid"})' =>
             runner'[t] = runner[t] /\ At(t, p, {"paying", "paid"})
      BY <1>2, LetGo DEF Frees, Free
    <3>2. QED
      BY <1>1, <1>4, <2>1, <2>4, <3>1 DEF OwnedByOne
  <2>5. QED
    BY <1>1, <2>1, <2>2, <2>3, <2>4 DEF OwnedByOne
<1>9. ASSUME NEW q \in Payouts, q # p
      PROVE  SendsAccounted(q)' /\ (AllGoesWell => OwnedByOne(q))'
  <2>1. ~At(r, q, {"paying", "paid"}) /\ ~At(r, q, {"paying", "paid"})'
    BY <1>2, <1>9 DEF At, Frees, Free
  <2>2. QED
    BY <1>1, <1>2, <1>4, <1>5, <1>9, <2>1, RowOfOthers DEF Frees
<1>10. QED
  BY <1>6, <1>7, <1>8, <1>9 DEF PayoutsInv

\* A requeue counts the attempt.
LEMMA RequeueWrites ==
    ASSUME PayoutsTypeOK, NEW p \in Payouts, Requeue(p)
    PROVE  /\ payout' \in [Payouts -> PayoutRow]
           /\ payout'[p].state = "QUEUED"
           /\ payout'[p].attempts = payout[p].attempts + 1
           /\ \A q \in Payouts \ {p} : payout'[q] = payout[q]
<1> DEFINE row == [state |-> "QUEUED", attempts |-> payout[p].attempts + 1]
<1>1. /\ payout' = [payout EXCEPT ![p] = row]
      /\ payout[p].attempts < AttemptsBound
  BY DEF Requeue
<1>2. row \in PayoutRow
  BY <1>1, PayoutsAssumption DEF PayoutsTypeOK, PayoutRow, PayoutStates
<1>3. row.state = "QUEUED" /\ row.attempts = payout[p].attempts + 1
  OBVIOUS
<1> HIDE DEF row
<1>4. QED
  BY <1>1, <1>2, <1>3 DEF PayoutsTypeOK

LEMMA RetryCronReadsInv ==
    ASSUME PayoutsInv, NEW p \in Payouts, RetryCronReads(p)
    PROVE  PayoutsInv'
<1>1. /\ payout[p].state = "FAILED"
      /\ \A r \in Runners : ~WorksOn(r, p)
      /\ retryCron' = retryCron \cup {p}
      /\ UNCHANGED <<methodVars, payout, due, refunding, runner, admin, notice, sends>>
  BY DEF RetryCronReads
<1>2. PayoutsTypeOK'
  BY <1>1 DEF PayoutsInv, PayoutsTypeOK, MethodsTypeOK, methodVars
<1>3. \A r \in Runners : ~At(r, p, {"paying", "paid"})
  BY <1>1 DEF At, WorksOn
<1>4. ASSUME NEW q \in Payouts
      PROVE  SendsAccounted(q)' /\ (AllGoesWell => OwnedByOne(q))'
  BY <1>1, <1>3, RunnersStay
<1>5. QED
  BY <1>2, <1>4 DEF PayoutsInv

\* No runner moves, and the row is written.
LEMMA SameLeft ==
    ASSUME runner' = runner, NEW p
    PROVE  /\ SendsLeft(p)' = SendsLeft(p)
           /\ \A r \in Runners : At(r, p, {"paid"})' <=> At(r, p, {"paid"})
           /\ \A r \in Runners : At(r, p, {"paying", "paid"})' <=> At(r, p, {"paying", "paid"})
  BY DEF SendsLeft, SendLimit, At

LEMMA RetryCronRequeuesInv ==
    ASSUME PayoutsInv, NEW p \in Payouts, RetryCronRequeues(p)
    PROVE  PayoutsInv'
<1>1. /\ p \in retryCron
      /\ retryCron' = retryCron \ {p}
      /\ IF payout[p].state = "FAILED" THEN Requeue(p) ELSE UNCHANGED payout
      /\ UNCHANGED <<methodVars, due, refunding, runner, admin, notice, sends>>
  BY DEF RetryCronRequeues
<1>2. PayoutsTypeOK
  BY DEF PayoutsInv
<1>3. CASE payout[p].state # "FAILED"
  <2>1. PayoutsTypeOK'
    BY <1>1, <1>2, <1>3 DEF PayoutsTypeOK, MethodsTypeOK, methodVars
  <2>2. ASSUME NEW q \in Payouts
        PROVE  SendsAccounted(q)' /\ (AllGoesWell => OwnedByOne(q))'
    BY <1>1, <1>3, RunnersStay
  <2>3. QED
    BY <2>1, <2>2 DEF PayoutsInv
<1>4. CASE payout[p].state = "FAILED"
  <2>1. /\ payout' \in [Payouts -> PayoutRow]
        /\ payout'[p].state = "QUEUED"
        /\ payout'[p].attempts = payout[p].attempts + 1
        /\ \A q \in Payouts \ {p} : payout'[q] = payout[q]
    BY <1>1, <1>2, <1>4, RequeueWrites
  <2>2. PayoutsTypeOK'
    BY <1>1, <1>2, <2>1 DEF PayoutsTypeOK, MethodsTypeOK, methodVars
  <2>3. SendsAccounted(p)'
    <3>1. ClaimsCounted(p)' \in Nat /\ ClaimsCounted(p)' >= ClaimsCounted(p)
      BY <1>4, <2>1, PayoutsType DEF ClaimsCounted
    <3>2. payout'[p].state = "SUCCEEDED" \/ notice'[p] = "succeeded" => sends[p] >= 1
      BY <1>1, <2>1, PayoutsType DEF SendsAccounted
    <3>3. QED
      BY <1>1, <3>1, <3>2, SameLeft, RowWritten
  <2>4. (AllGoesWell => OwnedByOne(p))'
    <3> SUFFICES ASSUME AllGoesWell PROVE OwnedByOne(p)'
      BY DEF AllGoesWell
    <3>1. OwnedByOne(p)
      BY PayoutsType
    <3>2. \A r \in Runners : ~At(r, p, {"paying", "paid"})'
      BY <1>1, <3>1, SameLeft DEF OwnedByOne
    <3>3. sends'[p] <= 1 /\ sends'[p] # 1
      <4>1. \A r \in Runners : ~At(r, p, {"paid"})
        BY <1>1, <3>1 DEF OwnedByOne, At
      <4>2. QED
        BY <1>1, <1>4, <3>1, <4>1 DEF OwnedByOne
    <3>4. QED
      BY <1>1, <3>2, <3>3 DEF OwnedByOne
  <2>5. ASSUME NEW q \in Payouts, q # p
        PROVE  SendsAccounted(q)' /\ (AllGoesWell => OwnedByOne(q))'
    BY <1>1, <2>1, <2>5, RunnersStay
  <2>6. QED
    BY <2>2, <2>3, <2>4, <2>5 DEF PayoutsInv
<1>5. QED
  BY <1>3, <1>4

LEMMA AdminWritesInv ==
    ASSUME PayoutsInv, NEW a \in Admins, AdminWrites(a)
    PROVE  PayoutsInv'
<1>1. PayoutsTypeOK /\ ~AllGoesWell
  BY DEF PayoutsInv, AllGoesWell
<1>2. PICK p \in Payouts : /\ admin[a].payout = p
                           /\ admin[a].pc \in {"retrying", "cancelling"}
  BY <1>1 DEF AdminWrites, PayoutsTypeOK, NoAdmin
<1>3. /\ \/ Requeue(p)
         \/ payout' = [payout EXCEPT ![p].state = "CANCELLED"]
      /\ admin' = [admin EXCEPT ![a] = NoAdmin]
      /\ UNCHANGED <<methodVars, due, refunding, runner, retryCron, notice, sends>>
  BY <1>2 DEF AdminWrites
<1>4. /\ payout' \in [Payouts -> PayoutRow]
      /\ \/ payout'[p].state = "QUEUED" /\ payout'[p].attempts = payout[p].attempts + 1
         \/ payout'[p].state = "CANCELLED" /\ payout'[p].attempts = payout[p].attempts
      /\ \A q \in Payouts \ {p} : payout'[q] = payout[q]
  <2>1. CASE Requeue(p)
    BY <1>1, <2>1, RequeueWrites
  <2>2. CASE payout' = [payout EXCEPT ![p].state = "CANCELLED"]
    BY <1>1, <2>2 DEF PayoutsTypeOK, PayoutRow, PayoutStates
  <2>3. QED
    BY <1>3, <2>1, <2>2
<1>5. PayoutsTypeOK'
  BY <1>1, <1>3, <1>4 DEF PayoutsTypeOK, MethodsTypeOK, methodVars
<1>6. SendsAccounted(p)'
  <2>1. ClaimsCounted(p)' \in Nat /\ ClaimsCounted(p)' >= ClaimsCounted(p)
    BY <1>4, PayoutsType DEF ClaimsCounted
  <2>2. payout'[p].state = "SUCCEEDED" \/ notice'[p] = "succeeded" => sends[p] >= 1
    BY <1>3, <1>4, PayoutsType DEF SendsAccounted
  <2>3. QED
    BY <1>3, <2>1, <2>2, SameLeft, RowWritten
<1>7. ASSUME NEW q \in Payouts, q # p
      PROVE  SendsAccounted(q)'
  BY <1>3, <1>4, <1>7, RunnersStay
<1>8. QED
  BY <1>1, <1>5, <1>6, <1>7 DEF PayoutsInv, AllGoesWell

\* The guarded update takes the row.
LEMMA ClaimInv ==
    ASSUME PayoutsInv, NEW r \in Runners, NEW p \in Payouts, p = runner[r].payout, Claim(r)
    PROVE  PayoutsInv'
<1>1. /\ runner[r].pc = "claiming"
      /\ UNCHANGED <<methodVars, due, refunding, retryCron, admin, notice, sends>>
      /\ PayoutsTypeOK
  BY DEF Claim, PayoutsInv
<1>2. CASE payout[p].state # "QUEUED"
  <2>1. NextCandidate(r) /\ payout' = payout
    BY <1>2 DEF Claim
  <2>2. Frees(r)
    BY <1>1, <2>1, NextCandidateFrees
  <2>3. PayoutsTypeOK'
    BY <1>1, <2>1, <2>2 DEF PayoutsTypeOK, MethodsTypeOK, methodVars, Frees
  <2>4. ASSUME NEW q \in Payouts
        PROVE  SendsAccounted(q)' /\ (AllGoesWell => OwnedByOne(q))'
    BY <1>1, <2>1, <2>2, LetsGo DEF Frees, Free
  <2>5. QED
    BY <2>3, <2>4 DEF PayoutsInv
<1>3. CASE payout[p].state = "QUEUED"
  <2>1. payout' = [payout EXCEPT ![p].state = "PROCESSING"] /\ Move(r, "paying")
    BY <1>3 DEF Claim
  <2>2. GoesTo(r, "paying", runner[r].tries)
    BY <1>1, <2>1, MoveGoes DEF Working
  <2>3. /\ payout' \in [Payouts -> PayoutRow]
        /\ payout'[p].state = "PROCESSING"
        /\ payout'[p].attempts = payout[p].attempts
        /\ \A q \in Payouts \ {p} : payout'[q] = payout[q]
    BY <1>1, <2>1 DEF PayoutsTypeOK, PayoutRow, PayoutStates
  <2>4. PayoutsTypeOK'
    BY <1>1, <2>2, <2>3 DEF PayoutsTypeOK, MethodsTypeOK, methodVars, GoesTo
  <2>5. SendsAccounted(p)'
    <3>1. SendLimit' = SendLimit
      BY DEF SendLimit
    <3>2. SendsLeft(p)' \subseteq SendsLeft(p) \cup ({r} \X (0 .. SendLimit - 1))
      <4>1. \A s \in Runners : s # r => runner'[s] = runner[s]
        BY <2>2 DEF GoesTo, OthersStay
      <4>2. QED
        BY <3>1, <4>1 DEF SendsLeft, At
    <3>3. /\ Cardinality(SendsLeft(p)') \in Nat
          /\ Cardinality(SendsLeft(p)') <= Cardinality(SendsLeft(p)) + SendLimit
          /\ Cardinality(SendsLeft(p)) \in Nat
      BY <3>2, ClaimedLeft, LeftFinite
    <3>4. ClaimsCounted(p)' = ClaimsCounted(p) + 1
      BY <1>3, <2>3, PayoutsType DEF ClaimsCounted
    <3>5. (ClaimsCounted(p) + 1) * SendLimit = ClaimsCounted(p) * SendLimit + SendLimit
      BY PayoutsType, LimitType
    <3>6. sends[p] + Cardinality(SendsLeft(p)) <= ClaimsCounted(p) * SendLimit
      BY PayoutsType DEF SendsAccounted
    <3>7. ClaimsCounted(p) * SendLimit \in Nat
      BY PayoutsType, LimitType
    <3>8. sends'[p] + Cardinality(SendsLeft(p)') <= ClaimsCounted(p)' * SendLimit'
      BY <1>1, <3>1, <3>3, <3>4, <3>5, <3>6, <3>7, PayoutsType, LimitType
    <3>9. \A s \in Runners : At(s, p, {"paid"})' => At(s, p, {"paid"})
      BY <2>2 DEF GoesTo, OthersStay, At
    <3>10. SendsAccounted(p)
      BY PayoutsType
    <3>11. QED
      BY <1>1, <1>3, <2>3, <3>8, <3>9, <3>10 DEF SendsAccounted
  <2>6. (AllGoesWell => OwnedByOne(p))'
    <3> SUFFICES ASSUME AllGoesWell PROVE OwnedByOne(p)'
      BY DEF AllGoesWell
    <3>1. OwnedByOne(p)
      BY PayoutsType
    <3>2. \A s \in Runners : ~At(s, p, {"paying", "paid"})
      BY <1>3, <3>1 DEF OwnedByOne
    <3>3. sends[p] = 0
      <4>1. sends[p] # 1 /\ sends[p] <= 1
        BY <1>3, <3>1, <3>2 DEF OwnedByOne, At
      <4>2. QED
        BY <4>1, PayoutsType
    <3>4. p \notin retryCron
      BY <1>3, <3>1 DEF OwnedByOne
    <3>5. \A s \in Runners : At(s, p, {"paying", "paid"})' => s = r
      BY <2>2, <3>2 DEF GoesTo, OthersStay, At
    <3>6. QED
      BY <1>1, <2>3, <3>3, <3>4, <3>5 DEF OwnedByOne
  <2>7. ASSUME NEW q \in Payouts, q # p
        PROVE  SendsAccounted(q)' /\ (AllGoesWell => OwnedByOne(q))'
    <3>1. ~At(r, q, {"paying", "paid"}) /\ ~At(r, q, {"paying", "paid"})'
      BY <2>2, <2>7 DEF At, GoesTo
    <3>2. QED
      BY <1>1, <2>2, <2>3, <2>7, <3>1, RowOfOthers DEF GoesTo
  <2>8. QED
    BY <2>4, <2>5, <2>6, <2>7 DEF PayoutsInv
<1>4. QED
  BY <1>2, <1>3

\* The first of the sendings that a paying runner may still cause.
Token(r) == <<r, IF LostAnswers THEN runner[r].tries ELSE 0>>

LEMMA TokenLeft ==
    ASSUME PayoutsInv, NEW r \in Runners, NEW p \in Payouts, p = runner[r].payout,
           runner[r].pc = "paying"
    PROVE  Token(r) \in SendsLeft(p)
<1>1. runner[r].tries \in 0 .. MaxTries - 1
  BY RunnerType DEF PayoutsInv, Working
<1>2. (IF LostAnswers THEN runner[r].tries ELSE 0) \in 0 .. SendLimit - 1
  BY <1>1, LimitType
<1>3. QED
  BY <1>1, <1>2 DEF Token, SendsLeft, At

\* A sending is paid for by a token.
LEMMA SendAccounted ==
    ASSUME PayoutsInv, NEW r \in Runners, NEW p \in Payouts, p = runner[r].payout,
           runner[r].pc = "paying", OthersStay(r), payout' = payout, notice' = notice,
           sends'[p] = sends[p] + 1,
           \/ runner'[r].pc \notin {"paying"}
           \/ LostAnswers /\ runner'[r].tries = runner[r].tries + 1
    PROVE  SendsAccounted(p)'
<1>1. Token(r) \in SendsLeft(p)
  BY TokenLeft
<1>2. SendLimit' = SendLimit
  BY DEF SendLimit
<1>3. runner[r].tries \in Nat
  BY RunnerType DEF PayoutsInv, Working
<1>4. SendsLeft(p)' \subseteq SendsLeft(p) \ {Token(r)}
  <2> SUFFICES ASSUME NEW s \in Runners, NEW t \in 0 .. SendLimit - 1, At(s, p, {"paying"})',
                      LostAnswers => runner'[s].tries <= t
               PROVE  /\ At(s, p, {"paying"})
                      /\ LostAnswers => runner[s].tries <= t
                      /\ <<s, t>> # Token(r)
    BY <1>2 DEF SendsLeft
  <2>1. CASE s # r
    BY <2>1 DEF OthersStay, At, Token
  <2>2. CASE s = r
    <3>1. LostAnswers /\ runner'[r].tries = runner[r].tries + 1
      BY <2>2 DEF At
    <3>2. runner[r].tries + 1 <= t
      BY <2>2, <3>1
    <3>3. QED
      BY <1>3, <2>2, <3>1, <3>2 DEF At, Token
  <2>3. QED
    BY <2>1, <2>2
<1>5. /\ Cardinality(SendsLeft(p)') \in Nat
      /\ Cardinality(SendsLeft(p)') + 1 <= Cardinality(SendsLeft(p))
      /\ Cardinality(SendsLeft(p)) \in Nat
  BY <1>1, <1>4, OneFewerLeft, LeftFinite
<1>6. sends[p] + Cardinality(SendsLeft(p)) <= ClaimsCounted(p) * SendLimit
  BY PayoutsType DEF SendsAccounted
<1>7. ClaimsCounted(p)' * SendLimit' = ClaimsCounted(p) * SendLimit
  BY <1>2 DEF ClaimsCounted
<1>8. ClaimsCounted(p) * SendLimit \in Nat
  BY PayoutsType, LimitType
<1>9. sends'[p] + Cardinality(SendsLeft(p)') <= ClaimsCounted(p)' * SendLimit'
  BY <1>5, <1>6, <1>7, <1>8, PayoutsType
<1>10. sends'[p] >= 1
  BY PayoutsType
<1>11. QED
  BY <1>9, <1>10 DEF SendsAccounted

LEMMA AdhocAcceptedInv ==
    ASSUME PayoutsInv, NEW r \in Runners, NEW p \in Payouts, p = runner[r].payout,
           AdhocAccepted(r)
    PROVE  PayoutsInv'
<1>1. /\ runner[r].pc = "paying"
      /\ Move(r, "paid")
      /\ sends' = [sends EXCEPT ![p] = sends[p] + 1]
      /\ UNCHANGED <<methodVars, payout, due, refunding, retryCron, admin, notice>>
      /\ PayoutsTypeOK
  BY DEF AdhocAccepted, PayoutsInv
<1>2. GoesTo(r, "paid", runner[r].tries)
  BY <1>1, MoveGoes DEF Working
<1>3. /\ sends' \in [Payouts -> Nat]
      /\ sends'[p] = sends[p] + 1
      /\ \A q \in Payouts \ {p} : sends'[q] = sends[q]
  BY <1>1 DEF PayoutsTypeOK
<1>4. PayoutsTypeOK'
  BY <1>1, <1>2, <1>3 DEF PayoutsTypeOK, MethodsTypeOK, methodVars, GoesTo
<1>5. SendsAccounted(p)'
  BY <1>1, <1>2, <1>3, SendAccounted DEF GoesTo
<1>6. (AllGoesWell => OwnedByOne(p))'
  <2> SUFFICES ASSUME AllGoesWell PROVE OwnedByOne(p)'
    BY DEF AllGoesWell
  <2>1. /\ OwnedByOne(p)
        /\ At(r, p, {"paying", "paid"})
    BY <1>1, PayoutsType DEF At
  <2>2. /\ sends'[p] = 1
        /\ payout[p].state \in {"PROCESSING", "FAILED"}
        /\ p \notin retryCron
    BY <1>1, <1>3, <2>1 DEF OwnedByOne
  <2>3. At(r, p, {"paid"})'
    BY <1>2 DEF GoesTo, At
  <2>4. ASSUME NEW s \in Runners, At(s, p, {"paying", "paid"})'
        PROVE  s = r /\ runner'[s].pc # "paying"
    <3>1. CASE s # r
      BY <1>2, <2>1, <2>4, <3>1 DEF OwnedByOne, GoesTo, OthersStay, At
    <3>2. CASE s = r
      BY <1>2, <3>2 DEF GoesTo
    <3>3. QED
      BY <3>1, <3>2
  <2>5. QED
    BY <1>1, <2>2, <2>3, <2>4 DEF OwnedByOne
<1>7. ASSUME NEW q \in Payouts, q # p
      PROVE  SendsAccounted(q)' /\ (AllGoesWell => OwnedByOne(q))'
  <2>1. ~At(r, q, {"paying", "paid"}) /\ ~At(r, q, {"paying", "paid"})'
    BY <1>2, <1>7 DEF At, GoesTo
  <2>2. QED
    BY <1>1, <1>2, <1>3, <1>7, <2>1, RowOfOthers DEF GoesTo
<1>8. QED
  BY <1>4, <1>5, <1>6, <1>7 DEF PayoutsInv

LEMMA AdhocFailedInv ==
    ASSUME PayoutsInv, NEW r \in Runners, NEW p \in Payouts, p = runner[r].payout,
           AdhocFailed(r)
    PROVE  PayoutsInv'
<1>1. /\ runner[r].pc = "paying"
      /\ UnconfirmedPayment(p)
      /\ UNCHANGED <<methodVars, payout, due, refunding, retryCron, admin, notice>>
      /\ PayoutsTypeOK
  BY DEF AdhocFailed, PayoutsInv
<1>2. \/ GoesTo(r, "failing", runner[r].tries)
      \/ GoesTo(r, "paying", runner[r].tries + 1)
  <2>1. CASE Move(r, "failing")
    BY <1>1, <2>1, MoveGoes DEF Working
  <2>2. CASE /\ runner[r].tries + 1 < MaxTries
             /\ runner' = [runner EXCEPT ![r].tries = @ + 1]
    <3> DEFINE state == [runner[r] EXCEPT !.tries = runner[r].tries + 1]
    <3>1. runner[r] \in [pc : Working, batch : SUBSET Payouts,
                         payout : Payouts, tries : 0 .. MaxTries - 1]
      BY <1>1, RunnerType DEF Working
    <3>2. runner[r].tries + 1 \in 0 .. MaxTries - 1
      BY <2>2, <3>1, PayoutsAssumption
    <3>3. state \in [pc : Working, batch : SUBSET Payouts,
                     payout : Payouts, tries : 0 .. MaxTries - 1]
      BY <3>1, <3>2
    <3>4. /\ state \in RunnerState
          /\ state.pc = "paying"
          /\ state.payout = runner[r].payout
          /\ state.tries = runner[r].tries + 1
      BY <1>1, <3>1, <3>3 DEF RunnerState, Working
    <3>5. runner' = [runner EXCEPT ![r] = state]
      BY <2>2
    <3> HIDE DEF state
    <3>6. QED
      BY <1>1, <3>4, <3>5, SetRunner DEF GoesTo
  <2>3. QED
    BY <2>1, <2>2 DEF AdhocFailed
<1>3. /\ sends' \in [Payouts -> Nat]
      /\ \/ sends'[p] = sends[p]
         \/ LostAnswers /\ sends'[p] = sends[p] + 1
      /\ \A q \in Payouts \ {p} : sends'[q] = sends[q]
  BY <1>1 DEF PayoutsTypeOK, UnconfirmedPayment
<1>4. PayoutsTypeOK'
  BY <1>1, <1>2, <1>3 DEF PayoutsTypeOK, MethodsTypeOK, methodVars, GoesTo
<1>5. OthersStay(r) /\ runner'[r].payout = p
  BY <1>2 DEF GoesTo
<1>6. SendsAccounted(p)' /\ (AllGoesWell => OwnedByOne(p))'
  <2>1. CASE sends'[p] = sends[p]
    <3>1. ASSUME NEW s \in Runners
          PROVE  /\ At(s, p, {"paying"})' =>
                       /\ At(s, p, {"paying"})
                       /\ runner'[s].tries \in {runner[s].tries, runner[s].tries + 1}
                 /\ At(s, p, {"paid"})' => At(s, p, {"paid"})
                 /\ AllGoesWell /\ At(s, p, {"paid"}) => At(s, p, {"paid"})'
      <4>1. CASE s = r
        BY <1>1, <1>2, <4>1 DEF At, GoesTo
      <4>2. CASE s # r
        BY <1>5, <4>2 DEF At, OthersStay
      <4>3. QED
        BY <4>1, <4>2
    <3>2. QED
      BY <1>1, <2>1, <3>1, RowStays
  <2>2. CASE LostAnswers /\ sends'[p] = sends[p] + 1
    <3>1. SendsAccounted(p)'
      BY <1>1, <1>2, <2>2, SendAccounted DEF GoesTo
    <3>2. QED
      BY <2>2, <3>1 DEF AllGoesWell
  <2>3. QED
    BY <1>3, <2>1, <2>2
<1>7. ASSUME NEW q \in Payouts, q # p
      PROVE  SendsAccounted(q)' /\ (AllGoesWell => OwnedByOne(q))'
  <2>1. ~At(r, q, {"paying", "paid"}) /\ ~At(r, q, {"paying", "paid"})'
    BY <1>5, <1>7 DEF At
  <2>2. QED
    BY <1>1, <1>3, <1>5, <1>7, <2>1, RowOfOthers
<1>8. QED
  BY <1>4, <1>6, <1>7 DEF PayoutsInv

-----------------------------------------------------------------------------

LEMMA PayoutsInitInv == PayoutsInit => PayoutsInv
<1> SUFFICES ASSUME PayoutsInit PROVE PayoutsInv
  OBVIOUS
<1>1. PayoutsTypeOK
  <2>1. IdleRunner \in RunnerState
    BY FreeState DEF IdleRunner, Free
  <2>2. MethodsTypeOK
    BY DEF PayoutsInit, MethodsInit, MethodsTypeOK, Method
  <2>3. [state |-> "QUEUED", attempts |-> 0] \in PayoutRow
    BY PayoutsAssumption DEF PayoutRow, PayoutStates
  <2>4. QED
    BY <2>1, <2>2, <2>3 DEF PayoutsInit, PayoutsTypeOK
<1>2. ASSUME NEW p \in Payouts
      PROVE  SendsAccounted(p) /\ OwnedByOne(p)
  <2>1. \A r \in Runners : runner[r].pc = "idle"
    BY DEF PayoutsInit, IdleRunner
  <2>2. SendsLeft(p) = {}
    BY <2>1 DEF SendsLeft, At
  <2>3. Cardinality(SendsLeft(p)) = 0
    BY <2>2, FS_EmptySet
  <2>4. payout[p].state = "QUEUED" /\ payout[p].attempts = 0 /\ sends[p] = 0
        /\ notice[p] = "queued" /\ retryCron = {}
    BY DEF PayoutsInit
  <2>5. QED
    BY <2>1, <2>3, <2>4, LimitType DEF SendsAccounted, OwnedByOne, ClaimsCounted, At
<1>3. QED
  BY <1>1, <1>2 DEF PayoutsInv

LEMMA WalkInv ==
    ASSUME PayoutsInv, NEW r \in Runners, Walk(r)
    PROVE  PayoutsInv'
<1>1. CASE \E p \in Payouts : LookUpMethod(r, p)
  BY <1>1, LookUpMethodInv
<1>2. CASE Claim(r) \/ AdhocAccepted(r) \/ AdhocFailed(r) \/ PersistSuccess(r) \/ PersistFailure(r)
  <2>1. runner[r].pc \in Working
    BY <1>2 DEF Claim, AdhocAccepted, AdhocFailed, PersistSuccess, PersistFailure, Working
  <2>2. PICK p \in Payouts : p = runner[r].payout
    BY <2>1, RunnerType DEF PayoutsInv
  <2>3. QED
    BY <1>2, <2>2, ClaimInv, AdhocAcceptedInv, AdhocFailedInv, PersistSuccessInv,
       PersistFailureInv
<1>3. QED
  BY <1>1, <1>2 DEF Walk

LEMMA PayoutsNextInv ==
    ASSUME PayoutsInv, [PayoutsNext]_payoutsVars
    PROVE  PayoutsInv'
<1>1. CASE \E r \in Runners : Pick(r) \/ Walk(r) \/ Interrupt(r)
  BY <1>1, PickInv, WalkInv, InterruptInv
<1>2. CASE \E p \in Payouts : \/ RetryCronReads(p)
                              \/ RetryCronRequeues(p)
                              \/ BecomeDue(p)
                              \/ CloseRefund(p)
  BY <1>2, RetryCronReadsInv, RetryCronRequeuesInv, DueAndRefundsInv
<1>3. CASE \E a \in Admins : AdminWrites(a) \/ \E p \in Payouts : AdminReads(a, p)
  BY <1>3, AdminWritesInv, AdminReadsInv
<1>4. CASE MethodsNext /\ UNCHANGED payoutVars
  BY <1>4, OtherModulesInv
<1>5. CASE UNCHANGED payoutsVars
  BY <1>5, OtherModulesInv DEF payoutsVars
<1>6. QED
  BY <1>1, <1>2, <1>3, <1>4, <1>5 DEF PayoutsNext

\* Rows, runners and calls stay well-formed; every sending is counted against an attempt;
\* and when nothing goes wrong a row belongs to one runner.
THEOREM PayoutsAccounted == PayoutsSpec => []PayoutsInv
<1>1. QED
  BY PayoutsInitInv, PayoutsNextInv, PTL DEF PayoutsSpec

\* The guarded claim is enough: any number of dispatchers that pick the same rows, with
\* the retry cron and the reviewers of bank accounts around them, pay an artist once, as
\* long as no admin interferes, no runner dies and PayFast's answers are true.
THEOREM ArtistPaidOnce == AllGoesWell => (PayoutsSpec => []PaidOnce)
<1>1. ASSUME PayoutsInv, AllGoesWell PROVE PaidOnce
  BY <1>1 DEF PayoutsInv, OwnedByOne, PaidOnce
<1>2. CASE AllGoesWell
  <2>1. PayoutsInv => PaidOnce
    BY <1>1, <1>2
  <2>2. PayoutsSpec => []PaidOnce
    BY <2>1, PayoutsAccounted, PTL
  <2>3. QED
    BY <2>2
<1>3. QED
  BY <1>2

\* Nor does one of them fail a payout that another has paid, however old the row is that it
\* has read: what was paid is recorded as SUCCEEDED and stays so.
THEOREM PaidStaysSucceeded == AllGoesWell => (PayoutsSpec => []PaidIsSucceeded)
<1>1. ASSUME PayoutsInv, AllGoesWell PROVE PaidIsSucceeded
  <2> SUFFICES ASSUME NEW p \in Payouts, sends[p] >= 1
               PROVE  \/ payout[p].state = "SUCCEEDED"
                      \/ \E r \in Runners : At(r, p, {"paid"})
    BY DEF PaidIsSucceeded, At
  <2>1. OwnedByOne(p) /\ sends[p] \in Nat
    BY <1>1 DEF PayoutsInv, PayoutsTypeOK
  <2>2. sends[p] = 1
    BY <2>1 DEF OwnedByOne
  <2>3. QED
    BY <2>1, <2>2 DEF OwnedByOne
<1>2. CASE AllGoesWell
  <2>1. PayoutsInv => PaidIsSucceeded
    BY <1>1, <1>2
  <2>2. PayoutsSpec => []PaidIsSucceeded
    BY <2>1, PayoutsAccounted, PTL
  <2>3. QED
    BY <2>2
<1>3. QED
  BY <1>2

\* Whatever goes wrong, an attempt and the tries of one dispatch bound the sendings.
THEOREM SendsAreCounted == PayoutsSpec => []SendsPaidByAttempts
<1>1. ASSUME PayoutsInv PROVE SendsPaidByAttempts
  <2> SUFFICES ASSUME NEW p \in Payouts
               PROVE  sends[p] <= (payout[p].attempts + 1) * SendLimit
    BY DEF SendsPaidByAttempts, SendLimit
  <2>1. /\ payout[p].attempts \in Nat
        /\ ClaimsCounted(p) \in Nat
        /\ ClaimsCounted(p) <= payout[p].attempts + 1
        /\ sends[p] \in Nat
        /\ sends[p] + Cardinality(SendsLeft(p)) <= ClaimsCounted(p) * SendLimit
    BY <1>1, PayoutsType DEF ClaimsCounted, SendsAccounted
  <2>2. /\ ClaimsCounted(p) * SendLimit \in Nat
        /\ (payout[p].attempts + 1) * SendLimit \in Nat
        /\ ClaimsCounted(p) * SendLimit <= (payout[p].attempts + 1) * SendLimit
    BY <2>1, LimitType, Monotonic
  <2>3. Cardinality(SendsLeft(p)) \in Nat
    BY LeftFinite
  <2>4. QED
    BY <2>1, <2>2, <2>3
<1>2. QED
  BY <1>1, PayoutsAccounted, PTL

\* A payout is not called SUCCEEDED, to an admin or to the artist, unless it was sent.
THEOREM SuccessWasSent == PayoutsSpec => []SucceededIsSent
<1>1. PayoutsInv => SucceededIsSent
  BY DEF PayoutsInv, SendsAccounted, SucceededIsSent
<1>2. QED
  BY <1>1, PayoutsAccounted, PTL

=============================================================================
