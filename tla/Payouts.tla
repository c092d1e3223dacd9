------------------------------ MODULE Payouts ------------------------------
(***************************************************************************)
(* Artist payouts after they are queued: the hourly dispatcher             *)
(* (PayoutDispatcherJob), the retry cron (PayoutRetryJob), the admin's     *)
(* retry and cancel (PayoutsService), over the bank accounts of            *)
(* PayoutMethods and the PayFast adhoc payment API.                        *)
(*                                                                         *)
(* A runner is one instance of the service in its dispatcher tick.  A tick *)
(* picks a batch with a plain SELECT and then walks it with the rows it    *)
(* read, so runners, crons and admins interleave at every query.           *)
(***************************************************************************)
EXTENDS PayoutMethods, FiniteSets

CONSTANTS
    Payouts,         \* ids of rows of the payouts table
    ArtistOf,        \* payout -> artist
    Runners,         \* dispatcher instances
    Admins,          \* admin retry and cancel calls
    BatchSize,       \* PAYOUT_DISPATCH_BATCH_SIZE
    MaxTries,        \* PAYFAST_MAX_ATTEMPTS, of one dispatch
    MaxAttempts,     \* PAYOUT_MAX_ATTEMPTS, of the retry cron
    AttemptsBound,   \* model bound on the attempts of a payout, which have none
    LostAnswers,     \* may PayFast move the money and its answer not say so?
    Crashes          \* may a runner die, or throw, between two of its steps?

ASSUME PayoutsAssumption ==
    /\ ArtistOf \in [Payouts -> Artists]
    /\ IsFiniteSet(Runners)
    /\ BatchSize \in Nat \ {0}
    /\ MaxTries \in Nat \ {0}
    /\ MaxAttempts \in Nat
    /\ AttemptsBound \in Nat
    /\ LostAnswers \in BOOLEAN
    /\ Crashes \in BOOLEAN

VARIABLES
    payout,     \* payouts: payout -> row
    due,        \* payouts whose dispatch_after has passed
    refunding,  \* payouts on whose hold a refund is PROCESSING
    runner,     \* dispatcher instance -> where its tick is
    retryCron,  \* payouts the retry cron has read and not yet requeued
    admin,      \* admin call -> where it is
    notice,     \* outbox_events: payout -> the last event written about it
    sends       \* PayFast: payout -> how many times the money was sent

payoutVars == <<payout, due, refunding, runner, retryCron, admin, notice, sends>>
payoutsVars == <<methodVars, payoutVars>>

PayoutStates == {"QUEUED", "PROCESSING", "SUCCEEDED", "FAILED", "CANCELLED"}

PayoutRow == [state : PayoutStates, attempts : 0 .. AttemptsBound]

IdleRunner == [pc |-> "idle", batch |-> {}]

\* Mutant: the end of the batch is not the end of the tick.
NextCandidateForever(r) ==
    runner' = [runner EXCEPT ![r] = [pc |-> "walking", batch |-> @.batch]]

\* A runner that is done with a payout goes on with the rest of its batch.
NextCandidate(r) ==
    runner' = [runner EXCEPT ![r] = IF @.batch = {}
                                    THEN IdleRunner
                                    ELSE [pc |-> "walking", batch |-> @.batch]]

Move(r, point) == runner' = [runner EXCEPT ![r].pc = point]

WorksOn(r, p) == runner[r].pc \notin {"idle", "walking"} /\ runner[r].payout = p

-----------------------------------------------------------------------------

Eligible == {p \in due \ refunding : payout[p].state = "QUEUED"}

\* pickCandidates: the refund guard is evaluated here and never again.
Pick(r) ==
    /\ runner[r].pc = "idle"
    /\ \E batch \in SUBSET Eligible :
          /\ batch # {}
          /\ Cardinality(batch) <= BatchSize
          /\ batch # Eligible => Cardinality(batch) = BatchSize
          /\ runner' = [runner EXCEPT ![r] = [pc |-> "walking", batch |-> batch]]
    /\ UNCHANGED <<methodVars, payout, due, refunding, retryCron, admin, notice, sends>>

\* (a) Without a verified method the payout fails unclaimed.
LookUpMethod(r, p) ==
    /\ runner[r].pc = "walking"
    /\ p \in runner[r].batch
    /\ runner' = [runner EXCEPT ![r] =
                    [pc      |-> IF method[ArtistOf[p]] = "verified" THEN "claiming" ELSE "failing",
                     batch   |-> @.batch \ {p},
                     payout  |-> p,
                     tries   |-> 0]]
    /\ UNCHANGED <<methodVars, payout, due, refunding, retryCron, admin, notice, sends>>

\* Mutant: the update that takes the row is not guarded.
ClaimUnguarded(r) ==
    /\ runner[r].pc = "claiming"
    /\ payout' = [payout EXCEPT ![runner[r].payout].state = "PROCESSING"]
    /\ Move(r, "paying")
    /\ UNCHANGED <<methodVars, due, refunding, retryCron, admin, notice, sends>>

\* (b) The guarded update that takes the row, or finds it taken.
Claim(r) ==
    LET p == runner[r].payout IN
    /\ runner[r].pc = "claiming"
    /\ IF payout[p].state = "QUEUED"
       THEN /\ payout' = [payout EXCEPT ![p].state = "PROCESSING"]
            /\ Move(r, "paying")
       ELSE /\ NextCandidate(r)
            /\ UNCHANGED payout
    /\ UNCHANGED <<methodVars, due, refunding, retryCron, admin, notice, sends>>

\* (d) PayFast answers 200 with a payout id.
AdhocAccepted(r) ==
    /\ runner[r].pc = "paying"
    /\ Move(r, "paid")
    /\ sends' = [sends EXCEPT ![runner[r].payout] = @ + 1]
    /\ UNCHANGED <<methodVars, payout, due, refunding, retryCron, admin, notice>>

UnconfirmedPayment(p) ==
    \/ UNCHANGED sends
    \/ LostAnswers /\ sends' = [sends EXCEPT ![p] = @ + 1]

\* Mutant: one try too many.
AdhocFailedOnceMore(r) ==
    /\ runner[r].pc = "paying"
    /\ \/ Move(r, "failing")
       \/ /\ runner[r].tries < MaxTries
          /\ runner' = [runner EXCEPT ![r].tries = @ + 1]
    /\ UnconfirmedPayment(runner[r].payout)
    /\ UNCHANGED <<methodVars, payout, due, refunding, retryCron, admin, notice>>

\* A 4xx or a 200 without an id ends the dispatch; a 5xx, a timeout or a network
\* error is tried again until the tries are used up.
AdhocFailed(r) ==
    /\ runner[r].pc = "paying"
    /\ \/ Move(r, "failing")
       \/ /\ runner[r].tries + 1 < MaxTries
          /\ runner' = [runner EXCEPT ![r].tries = @ + 1]
    /\ UnconfirmedPayment(runner[r].payout)
    /\ UNCHANGED <<methodVars, payout, due, refunding, retryCron, admin, notice>>

\* (e) Unguarded: whatever the row has become, it is SUCCEEDED now.
PersistSuccess(r) ==
    LET p == runner[r].payout IN
    /\ runner[r].pc = "paid"
    /\ payout' = [payout EXCEPT ![p].state = "SUCCEEDED"]
    /\ notice' = [notice EXCEPT ![p] = "succeeded"]
    /\ NextCandidate(r)
    /\ UNCHANGED <<methodVars, due, refunding, retryCron, admin, sends>>

\* Mutant: the row fails whatever it has become.
PersistFailureUnguarded(r) ==
    LET p == runner[r].payout IN
    /\ runner[r].pc = "failing"
    /\ payout' = [payout EXCEPT ![p].state = "FAILED"]
    /\ notice' = [notice EXCEPT ![p] = "failed"]
    /\ NextCandidate(r)
    /\ UNCHANGED <<methodVars, due, refunding, retryCron, admin, sends>>

\* (f) The row only fails from QUEUED or PROCESSING; the event is written anyway.
PersistFailure(r) ==
    LET p == runner[r].payout IN
    /\ runner[r].pc = "failing"
    /\ payout' = [payout EXCEPT ![p].state = IF @ \in {"QUEUED", "PROCESSING"} THEN "FAILED" ELSE @]
    /\ notice' = [notice EXCEPT ![p] = "failed"]
    /\ NextCandidate(r)
    /\ UNCHANGED <<methodVars, due, refunding, retryCron, admin, sends>>

\* A throw (decryption, a transaction) skips to the next candidate; a crash ends the
\* tick.  Either way the row stays as it is.
Interrupt(r) ==
    /\ Crashes
    /\ runner[r].pc # "idle"
    /\ \/ runner[r].pc # "walking" /\ NextCandidate(r)
       \/ runner' = [runner EXCEPT ![r] = IdleRunner]
    /\ UNCHANGED <<methodVars, payout, due, refunding, retryCron, admin, notice, sends>>

-----------------------------------------------------------------------------

\* PayoutRetryJob reads the FAILED rows whose backoff has elapsed.  The backoff is an
\* hour or more, a dispatch takes seconds: no runner still works on such a row.
RetryCronReads(p) ==
    /\ payout[p].state = "FAILED"
    /\ payout[p].attempts < MaxAttempts
    /\ \A r \in Runners : ~WorksOn(r, p)
    /\ retryCron' = retryCron \cup {p}
    /\ UNCHANGED <<methodVars, payout, due, refunding, runner, admin, notice, sends>>

\* Mutant: a requeue is not counted.
RequeueUncounted(p) == payout' = [payout EXCEPT ![p].state = "QUEUED"]

Requeue(p) ==
    /\ payout[p].attempts < AttemptsBound
    /\ payout' = [payout EXCEPT ![p] = [state |-> "QUEUED", attempts |-> @.attempts + 1]]

\* Its guarded update.
RetryCronRequeues(p) ==
    /\ p \in retryCron
    /\ retryCron' = retryCron \ {p}
    /\ IF payout[p].state = "FAILED" THEN Requeue(p) ELSE UNCHANGED payout
    /\ UNCHANGED <<methodVars, due, refunding, runner, admin, notice, sends>>

NoAdmin == [pc |-> "idle"]

\* PayoutsService.retry and cancel read the row, check its state ...
AdminReads(a, p) ==
    /\ admin[a] = NoAdmin
    /\ \/ /\ payout[p].state = "FAILED"
          /\ admin' = [admin EXCEPT ![a] = [pc |-> "retrying", payout |-> p]]
       \/ /\ payout[p].state = "QUEUED"
          /\ admin' = [admin EXCEPT ![a] = [pc |-> "cancelling", payout |-> p]]
    /\ UNCHANGED <<methodVars, payout, due, refunding, runner, retryCron, notice, sends>>

\* ... and then update it, whatever it has become.
AdminWrites(a) ==
    LET p == admin[a].payout IN
    /\ admin[a].pc \in {"retrying", "cancelling"}
    /\ IF admin[a].pc = "retrying"
       THEN Requeue(p)
       ELSE payout' = [payout EXCEPT ![p].state = "CANCELLED"]
    /\ admin' = [admin EXCEPT ![a] = NoAdmin]
    /\ UNCHANGED <<methodVars, due, refunding, runner, retryCron, notice, sends>>

\* The dispute window passes; the refund on the hold is finalised.
BecomeDue(p) ==
    /\ p \notin due
    /\ due' = due \cup {p}
    /\ UNCHANGED <<methodVars, payout, refunding, runner, retryCron, admin, notice, sends>>

CloseRefund(p) ==
    /\ p \in refunding
    /\ refunding' = refunding \ {p}
    /\ UNCHANGED <<methodVars, payout, due, runner, retryCron, admin, notice, sends>>

-----------------------------------------------------------------------------

PayoutsInit ==
    /\ MethodsInit
    /\ payout    = [p \in Payouts |-> [state |-> "QUEUED", attempts |-> 0]]
    /\ due       = {}
    /\ refunding \in SUBSET Payouts
    /\ runner    = [r \in Runners |-> IdleRunner]
    /\ retryCron = {}
    /\ admin     = [a \in Admins |-> NoAdmin]
    /\ notice    = [p \in Payouts |-> "queued"]
    /\ sends     = [p \in Payouts |-> 0]

\* What a runner does by itself once it has a batch.
Walk(r) ==
    \/ \E p \in Payouts : LookUpMethod(r, p)
    \/ Claim(r)
    \/ AdhocAccepted(r)
    \/ AdhocFailed(r)
    \/ PersistSuccess(r)
    \/ PersistFailure(r)

PayoutsNext ==
    \/ \E r \in Runners : Pick(r) \/ Walk(r) \/ Interrupt(r)
    \/ \E p \in Payouts : \/ RetryCronReads(p)
                          \/ RetryCronRequeues(p)
                          \/ BecomeDue(p)
                          \/ CloseRefund(p)
    \/ \E a \in Admins : AdminWrites(a) \/ \E p \in Payouts : AdminReads(a, p)
    \/ MethodsNext /\ UNCHANGED payoutVars

PayoutsSpec == PayoutsInit /\ [][PayoutsNext]_payoutsVars

\* The cron ticks every hour and a tick goes on until its batch is done.
FairPayoutsSpec ==
    PayoutsSpec /\ \A r \in Runners : WF_payoutsVars(Pick(r)) /\ WF_payoutsVars(Walk(r))

-----------------------------------------------------------------------------
(***************************************************************************)
(* Properties.                                                             *)
(***************************************************************************)

RunnerState ==
    [pc : {"idle", "walking"}, batch : SUBSET Payouts]
      \cup [pc : {"claiming", "paying", "paid", "failing"}, batch : SUBSET Payouts,
            payout : Payouts, tries : 0 .. MaxTries - 1]

\* Rows of the schema and well-formed runners and calls.
PayoutsTypeOK ==
    /\ MethodsTypeOK
    /\ payout \in [Payouts -> PayoutRow]
    /\ due \subseteq Payouts /\ refunding \subseteq Payouts /\ retryCron \subseteq Payouts
    /\ runner \in [Runners -> RunnerState]
    /\ admin \in [Admins -> {NoAdmin} \cup [pc : {"retrying", "cancelling"}, payout : Payouts]]
    /\ notice \in [Payouts -> {"queued", "failed", "succeeded"}]
    /\ sends \in [Payouts -> Nat]

\* An artist is paid once.  Two instances may pick and walk the same rows and the bank
\* account may be verified or rejected at any moment; while no admin interferes, no
\* runner dies and PayFast's answers are true, the money is sent at most once.
PaidOnce == \A p \in Payouts : sends[p] <= 1

\* Whatever goes wrong - crashes, lost answers, admins overtaken by a runner - each
\* sending is paid for by an attempt: a queued row is claimed once, and it takes a
\* counted requeue to claim it again.
SendsPaidByAttempts ==
    \A p \in Payouts :
        sends[p] <= (payout[p].attempts + 1) * (IF LostAnswers THEN MaxTries ELSE 1)

\* A payout that is SUCCEEDED, or announced as such, was sent.
SucceededIsSent ==
    \A p \in Payouts :
        payout[p].state = "SUCCEEDED" \/ notice[p] = "succeeded" => sends[p] >= 1

\* A payout that was paid is SUCCEEDED, and stays it: a runner that has read the row while
\* it was QUEUED and found no verified account, or was refused by PayFast, may be slow to
\* fail it, and another one may have paid it meanwhile.  A row that is FAILED after it was
\* paid would be paid again.  This is without admins, crashes and hidden payments.
PaidIsSucceeded ==
    \A p \in Payouts :
        sends[p] >= 1 =>
            \/ payout[p].state = "SUCCEEDED"
            \/ \E r \in Runners : runner[r].pc = "paid" /\ runner[r].payout = p

\* A due payout without a refund in progress does not stay QUEUED for ever.
QueuedIsTried ==
    \A p \in Payouts :
        p \in due \ refunding /\ payout[p].state = "QUEUED" ~> payout[p].state # "QUEUED"

-----------------------------------------------------------------------------
(***************************************************************************)
(* The inductive invariant behind them.                                    *)
(***************************************************************************)

At(r, p, points) == runner[r].pc \in points /\ runner[r].payout = p

\* The sendings that one claim of a row can lead to.
SendLimit == IF LostAnswers THEN MaxTries ELSE 1

\* Those that the claims in progress may still lead to.
SendsLeft(p) ==
    {rt \in Runners \X (0 .. SendLimit - 1) :
        At(rt[1], p, {"paying"}) /\ (LostAnswers => runner[rt[1]].tries <= rt[2])}

ClaimsCounted(p) == payout[p].attempts + (IF payout[p].state = "QUEUED" THEN 0 ELSE 1)

SendsAccounted(p) ==
    /\ sends[p] + Cardinality(SendsLeft(p)) <= ClaimsCounted(p) * SendLimit
    /\ payout[p].state = "SUCCEEDED" \/ notice[p] = "succeeded" => sends[p] >= 1
    /\ \A r \in Runners : At(r, p, {"paid"}) => sends[p] >= 1

\* Nothing goes wrong: no admin interferes, no runner dies, PayFast's answers are true.
AllGoesWell == Admins = {} /\ ~Crashes /\ ~LostAnswers

\* The row belongs to one runner from its claim to its end; what the retry cron has
\* read as FAILED is FAILED until it requeues it.
OwnedByOne(p) ==
    /\ sends[p] <= 1
    /\ sends[p] = 1 => \/ payout[p].state = "SUCCEEDED"
                       \/ \E r \in Runners : At(r, p, {"paid"})
    /\ p \in retryCron => payout[p].state = "FAILED"
    /\ \A r \in Runners : At(r, p, {"paying", "paid"}) =>
          /\ payout[p].state \in {"PROCESSING", "FAILED"}
          /\ p \notin retryCron
          /\ runner[r].pc = "paying" => sends[p] = 0
          /\ \A s \in Runners : At(s, p, {"paying", "paid"}) => s = r

\* What was sent and what the runners in flight may still send was paid for by counted
\* attempts, whatever row each of them has read; and without faults a row has one owner.
PayoutsInv ==
    /\ PayoutsTypeOK
    /\ \A p \in Payouts : SendsAccounted(p) /\ (AllGoesWell => OwnedByOne(p))
=============================================================================
