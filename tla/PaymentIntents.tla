--------------------------- MODULE PaymentIntents ---------------------------
(***************************************************************************)
(* From a checkout to an escrow hold: PaymentIntentsService and            *)
(* PayFastWebhookService.  A booking has at most one intent                *)
(* (payment_intents.booking_id is UNIQUE), so intents are indexed by       *)
(* booking.  /lock reads the intent, asks for an FX quote and then updates *)
(* the row whatever it has become; the webhook reads the intent, checks    *)
(* the amount and then opens its transaction.  The amounts of an intent    *)
(* matter only in ZAR: what the booking's total and the platform's fee     *)
(* come to at the rate of the moment, which a refresh or an admin's        *)
(* override may change at any time.                                        *)
(***************************************************************************)
EXTENDS Escrow

CONSTANTS
    Locks,       \* invocations of lock in flight
    Itns,        \* invocations of the webhook in flight
    PfPayments,  \* PayFast's payment ids
    TotalAt,     \* rate -> the booking's total in ZAR cents at that rate
    FeeAt        \* rate -> the platform's fee in ZAR cents at that rate

Rates == DOMAIN TotalAt

ASSUME RatesAssumption == TotalAt \in [Rates -> Nat] /\ FeeAt \in [Rates -> Nat]

VARIABLES
    intent,   \* payment_intents: booking -> state and locked amounts
    charges,  \* transactions: booking -> CHARGE rows in creation order
    locking,  \* lock -> what it has read and been quoted
    itn,      \* webhook invocation -> what it carries and has read
    forms,    \* checkout forms handed out, signed: [booking, total]
    payment   \* PayFast: payment id -> the form paid, and the statuses it reports

intentVars == <<intent, charges, locking, itn, forms, payment>>
intentsVars == <<escrowVars, intentVars>>

NoIntent  == [state |-> "ABSENT", locked |-> FALSE, total |-> 0, fee |-> 0]
NoPayment == [reported |-> {}]
Idle      == [pc |-> "idle"]

\* FAILED stands for CANCELLED as well: the code treats them alike.
ItnStatuses == {"PENDING", "COMPLETE", "FAILED"}

Rows(b, pf, status) ==
    {i \in DOMAIN charges[b] : charges[b][i].pf = pf /\ charges[b][i].status = status}

-----------------------------------------------------------------------------

\* Called again for the same booking, create returns the intent or refuses: in either
\* case it writes nothing.
CreateIntent(b) ==
    /\ intent[b] = NoIntent
    /\ intent' = [intent EXCEPT ![b].state = "CREATED"]
    /\ Emit(b, <<"payments.intent.created">>)
    /\ UNCHANGED <<hold, ledger, trail, payouts, charges, locking, itn, forms, payment>>

\* lock reads the row and checks its state ...
LockReads(l, b) ==
    /\ locking[l] = Idle
    /\ intent[b].state \in {"CREATED", "LOCKED"}
    /\ locking' = [locking EXCEPT ![l] = [pc |-> "quoting", booking |-> b]]
    /\ UNCHANGED <<escrowVars, intent, charges, itn, forms, payment>>

\* ... has the total converted ...
LockQuotes(l, rate) ==
    /\ locking[l].pc = "quoting"
    /\ locking' = [locking EXCEPT ![l] = [pc      |-> "priced",
                                          booking |-> @.booking,
                                          total   |-> TotalAt[rate]]]
    /\ UNCHANGED <<escrowVars, intent, charges, itn, forms, payment>>

\* ... and the fee, and then updates the row by id and hands out the signed form.
LockWrites(l, rate) ==
    LET b == locking[l].booking
        total == locking[l].total
    IN
    /\ locking[l].pc = "priced"
    /\ intent' = [intent EXCEPT ![b] =
                    [state |-> "LOCKED", locked |-> TRUE, total |-> total, fee |-> FeeAt[rate]]]
    /\ forms' = forms \cup {[booking |-> b, total |-> total]}
    /\ locking' = [locking EXCEPT ![l] = Idle]
    /\ UNCHANGED <<escrowVars, charges, itn, payment>>

-----------------------------------------------------------------------------

\* PayFast takes a payment on any form it was ever given; forms do not expire.
Pay(pf, form) ==
    /\ payment[pf] = NoPayment
    /\ payment' = [payment EXCEPT ![pf] = [form |-> form, reported |-> {"PENDING"}]]
    /\ UNCHANGED <<escrowVars, intent, charges, locking, itn, forms>>

\* It completes or fails, once.
Settle(pf, status) ==
    /\ payment[pf].reported = {"PENDING"}
    /\ status # "PENDING"
    /\ payment' = [payment EXCEPT ![pf].reported = @ \cup {status}]
    /\ UNCHANGED <<escrowVars, intent, charges, locking, itn, forms>>

\* Mutant: the amount of the ITN is not compared with the locked one.
MatchesIntentAnyAmount(pf) == intent[payment[pf].form.booking].locked

\* The intent was locked, for the amount that was paid.  Neither its state nor
\* lock_expires_at is looked at.
MatchesIntent(pf) ==
    LET row == intent[payment[pf].form.booking] IN
    row.locked /\ row.total = payment[pf].form.total

\* A status that was reported at some time arrives, again or late; the intent is read.
ItnReads(n, pf, status) ==
    LET b == payment[pf].form.booking IN
    /\ itn[n] = Idle
    /\ status \in payment[pf].reported
    /\ MatchesIntent(pf)
    /\ itn' = [itn EXCEPT ![n] = [pc |-> "matched", pf |-> pf, status |-> status, booking |-> b,
                                  total |-> intent[b].total, fee |-> intent[b].fee]]
    /\ UNCHANGED <<escrowVars, intent, charges, locking, forms, payment>>

\* Mutant: PayFast's word for the status is written to the intent.
RecordChargeStatus(n, state) ==
    LET b == itn[n].booking IN
    /\ charges' = [charges EXCEPT ![b] =
                     Append(@, [pf |-> itn[n].pf, status |-> itn[n].status, state |-> state])]
    /\ intent' = [intent EXCEPT ![b].state = itn[n].status]

\* The row transactions gets from an ITN, and what becomes of the intent.
RecordCharge(n, state) ==
    LET b == itn[n].booking IN
    /\ charges' = [charges EXCEPT ![b] =
                     Append(@, [pf |-> itn[n].pf, status |-> itn[n].status, state |-> state])]
    /\ intent' = [intent EXCEPT ![b].state = state]

Finish(n) ==
    /\ itn' = [itn EXCEPT ![n] = Idle]
    /\ UNCHANGED <<locking, forms, payment>>

\* Mutants: the dedup row is looked for under the payment id alone, or not at all.
SeenPayment(n) == \E status \in ItnStatuses : Rows(itn[n].booking, itn[n].pf, status) # {}
SeenNever(n) == FALSE

\* Found by the dedup SELECT, or by the unique key behind it.
Seen(n) == Rows(itn[n].booking, itn[n].pf, itn[n].status) # {}

\* commitComplete, first half: what is left for the hold is not negative.
HoldIsPossible(n) == itn[n].total >= itn[n].fee

\* Mutant: only a FAILED status is told from COMPLETE.
CommitCompletePending(n) ==
    /\ itn[n].pc = "matched"
    /\ itn[n].status # "FAILED"
    /\ ~Seen(n)
    /\ HoldIsPossible(n)
    /\ Capture(itn[n].booking, [amount |-> itn[n].total - itn[n].fee, fee |-> itn[n].fee])
    /\ RecordCharge(n, "SUCCEEDED")
    /\ Finish(n)

\* commitComplete.
CommitComplete(n) ==
    /\ itn[n].pc = "matched"
    /\ itn[n].status = "COMPLETE"
    /\ ~Seen(n)
    /\ HoldIsPossible(n)
    /\ Capture(itn[n].booking, [amount |-> itn[n].total - itn[n].fee, fee |-> itn[n].fee])
    /\ RecordCharge(n, "SUCCEEDED")
    /\ Finish(n)

\* commitFailed: any other status fails the intent, whatever its state.
CommitFailed(n) ==
    /\ itn[n].pc = "matched"
    /\ itn[n].status # "COMPLETE"
    /\ ~Seen(n)
    /\ RecordCharge(n, "FAILED")
    /\ Emit(itn[n].booking, <<"payments.failed">>)
    /\ Finish(n)
    /\ UNCHANGED <<hold, ledger, trail, payouts>>

\* Already recorded, or the booking has a hold from another payment, or the fee exceeds
\* what was paid: nothing commits.
CommitNothing(n) ==
    /\ itn[n].pc = "matched"
    /\ \/ Seen(n)
       \/ itn[n].status = "COMPLETE" /\ (hold[itn[n].booking] # NoHold \/ ~HoldIsPossible(n))
    /\ Finish(n)
    /\ UNCHANGED <<escrowVars, intent, charges>>

-----------------------------------------------------------------------------

IntentsInit ==
    /\ Init
    /\ intent  = [b \in Bookings |-> NoIntent]
    /\ charges = [b \in Bookings |-> <<>>]
    /\ locking = [l \in Locks |-> Idle]
    /\ itn     = [n \in Itns |-> Idle]
    /\ forms   = {}
    /\ payment = [pf \in PfPayments |-> NoPayment]

\* What becomes of the hold afterwards.
LaterStep == \E b \in Bookings : hold[b] # NoHold /\ EscrowStep(b) /\ UNCHANGED intentVars

Deliver(n, pf) == ItnReads(n, pf, "COMPLETE")

Commit(n) == CommitComplete(n) \/ CommitFailed(n) \/ CommitNothing(n)

IntentsNext ==
    \/ \E b \in Bookings : CreateIntent(b)
    \/ \E l \in Locks : \/ \E b \in Bookings : LockReads(l, b)
                        \/ \E rate \in Rates : LockQuotes(l, rate) \/ LockWrites(l, rate)
    \/ \E pf \in PfPayments : \/ \E form \in forms : Pay(pf, form)
                              \/ \E status \in ItnStatuses : Settle(pf, status)
    \/ \E n \in Itns : \/ \E pf \in PfPayments, status \in ItnStatuses : ItnReads(n, pf, status)
                       \/ Commit(n)
    \/ LaterStep

IntentsSpec == IntentsInit /\ [][IntentsNext]_intentsVars

\* PayFast repeats an ITN until it is answered 200, and an invocation ends.
FairIntentsSpec ==
    /\ IntentsSpec
    /\ \A n \in Itns : WF_intentsVars(Commit(n))
    /\ \A pf \in PfPayments : SF_intentsVars(\E n \in Itns : Deliver(n, pf))

-----------------------------------------------------------------------------
(***************************************************************************)
(* Properties.                                                             *)
(***************************************************************************)

IntentStates == {"ABSENT", "CREATED", "LOCKED", "SUCCEEDED", "FAILED"}

\* Rows of the schema and well-formed invocations.
IntentsTypeOK ==
    /\ TypeOK
    /\ intent \in [Bookings -> [state : IntentStates, locked : BOOLEAN, total : Nat, fee : Nat]]
    /\ charges \in [Bookings -> Seq([pf : PfPayments, status : ItnStatuses,
                                     state : {"SUCCEEDED", "FAILED"}])]
    /\ locking \in [Locks -> {Idle} \cup [pc : {"quoting"}, booking : Bookings]
                           \cup [pc : {"priced"}, booking : Bookings, total : Nat]]
    /\ itn \in [Itns -> {Idle} \cup [pc : {"matched"}, pf : PfPayments, status : ItnStatuses,
                                     booking : Bookings, total : Nat, fee : Nat]]
    /\ forms \subseteq [booking : Bookings, total : Nat]
    /\ payment \in [PfPayments -> {NoPayment} \cup [form : forms, reported : SUBSET ItnStatuses]]

\* A hold stands for money that PayFast really collected: exactly one charge of its
\* booking succeeded, PayFast completed that payment, and what the client paid is the
\* hold plus the fee - however often the intent was locked again at another rate, and
\* however late the ITN came.
HoldBackedByPayment ==
    \A b \in Bookings : hold[b] # NoHold =>
        \E pf \in PfPayments :
            /\ {i \in DOMAIN charges[b] : charges[b][i].state = "SUCCEEDED"} =
                  Rows(b, pf, "COMPLETE")
            /\ Cardinality(Rows(b, pf, "COMPLETE")) = 1
            /\ "COMPLETE" \in payment[pf].reported
            /\ payment[pf].form = [booking |-> b, total |-> hold[b].amount + hold[b].fee]

\* "Same (intent, pfPaymentId, status): no-op": repeated and concurrent ITNs leave one
\* row for each status of a payment, and one payments.failed for each failed row.
ItnRecordedOnce ==
    \A b \in Bookings :
        /\ \A pf \in PfPayments, status \in ItnStatuses : Cardinality(Rows(b, pf, status)) <= 1
        /\ Cardinality({i \in DOMAIN outbox[b] : outbox[b][i] = "payments.failed"}) =
              Cardinality({i \in DOMAIN charges[b] : charges[b][i].state = "FAILED"})

PaidTotal(pf) == IF payment[pf] = NoPayment THEN 0 ELSE payment[pf].form.total

\* Money that PayFast collected for a booking ends in a hold of that booking, also when
\* an earlier ITN had failed the intent or the client locked it again - as long as the
\* locked total stays, or is again, what was paid and the locked fee is within it.
CollectedIsHeld ==
    \A pf \in PfPayments, b \in Bookings :
        /\ "COMPLETE" \in payment[pf].reported /\ payment[pf].form.booking = b
        /\ [](intent[b].total = PaidTotal(pf) /\ intent[b].fee <= intent[b].total)
        ~> hold[b] # NoHold

-----------------------------------------------------------------------------
(***************************************************************************)
(* The inductive invariant behind them.                                    *)
(***************************************************************************)

\* What an invocation carries is what PayFast reported of the form that was paid.
Carries(n) ==
    itn[n].pc = "matched" =>
        /\ itn[n].status \in payment[itn[n].pf].reported
        /\ payment[itn[n].pf].form = [booking |-> itn[n].booking, total |-> itn[n].total]

Completed(b) == {i \in DOMAIN charges[b] : charges[b][i].status = "COMPLETE"}

\* The i-th charge of the booking paid for its hold.
PaidHold(b, i) ==
    LET pf == charges[b][i].pf IN
    /\ "COMPLETE" \in payment[pf].reported
    /\ payment[pf].form = [booking |-> b, total |-> hold[b].amount + hold[b].fee]

FailuresRecorded(b)  == {i \in DOMAIN charges[b] : charges[b][i].state = "FAILED"}
FailuresAnnounced(b) == {i \in DOMAIN outbox[b] : outbox[b][i] = "payments.failed"}

ChargesAccounted(b) ==
    /\ \A i \in DOMAIN charges[b] :
          charges[b][i].state = "SUCCEEDED" <=> charges[b][i].status = "COMPLETE"
    /\ \A i, j \in DOMAIN charges[b] :
          charges[b][i].pf = charges[b][j].pf /\ charges[b][i].status = charges[b][j].status => i = j
    /\ IF hold[b] = NoHold
       THEN Completed(b) = {}
       ELSE \E i \in DOMAIN charges[b] : Completed(b) = {i} /\ PaidHold(b, i)
    /\ Cardinality(FailuresAnnounced(b)) = Cardinality(FailuresRecorded(b))

\* Charges, holds and announcements agree with each other and with what PayFast collected.
ChargesInv ==
    /\ IInv
    /\ IntentsTypeOK
    /\ \A n \in Itns : Carries(n)
    /\ \A b \in Bookings : ChargesAccounted(b)

QuotedTotals == {TotalAt[rate] : rate \in Rates}
QuotedFees   == {FeeAt[rate] : rate \in Rates}

\* A total or a fee that an intent, a lock or an invocation carries was quoted.
QuotesKept ==
    /\ \A b \in Bookings : intent[b].locked => intent[b].fee \in QuotedFees
    /\ \A l \in Locks : locking[l].pc = "priced" => locking[l].total \in QuotedTotals
    /\ \A n \in Itns : itn[n].pc = "matched" => itn[n].fee \in QuotedFees

\* What locks and racing webhook invocations write, and what they carry meanwhile.
IntentsInv == ChargesInv /\ QuotesKept

-----------------------------------------------------------------------------
(***************************************************************************)
(* The checkout implements CollectedFunds: an offer is a form, what was    *)
(* collected is what PayFast completed, and a pot's payment is the one     *)
(* whose completion is among the charges of the booking.                   *)
(***************************************************************************)

collectedBar ==
    [pf \in PfPayments |-> IF "COMPLETE" \in payment[pf].reported THEN payment[pf].form
                           ELSE [total |-> 0]]

backingBar ==
    [b \in Bookings |-> {pf \in PfPayments : Rows(b, pf, "COMPLETE") # {}}]

Promised == INSTANCE CollectedFunds WITH
                Payments <- {}, phase <- phaseBar, pot <- potBar, artist <- artistBar,
                client <- clientBar, fee <- feeBar, PaymentIds <- PfPayments,
                Totals <- QuotedTotals, Fees <- QuotedFees, offers <- forms,
                collected <- collectedBar, backing <- backingBar

\* Every history of locks, payments, ITNs and holds is one of CollectedFunds: the charge
\* is recorded in the step that opens the hold, of a payment that is complete by then, for
\* what it was offered at and less a quoted fee, and nothing a hold goes through later
\* takes another payment.
ImplementsCollectedFunds == Promised!CollectedSpec
=============================================================================
