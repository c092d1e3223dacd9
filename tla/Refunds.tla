------------------------------ MODULE Refunds ------------------------------
(***************************************************************************)
(* RefundsService.issueRefund over the escrow component.  A call is not    *)
(* one transaction: it reads the hold, inserts a refunds row, talks to     *)
(* PayFast with retries, and then either fails the row or books the        *)
(* refund.  Booking takes two transactions: EscrowService opens its own on *)
(* another connection and commits it before the one that updates the       *)
(* refunds row.  Between any two steps other calls and every escrow        *)
(* operation may run, and the call may be lost: the process dies, a        *)
(* transaction aborts on a conflict or times out.                          *)
(***************************************************************************)
EXTENDS Escrow

CONSTANTS
    Calls,        \* invocations of issueRefund; each one owns at most one refunds row
    MaxAttempts,  \* PAYFAST_MAX_ATTEMPTS
    LostAnswers,  \* may PayFast move the money and its answer not say so?
    Crashes       \* may a call be lost between two of its steps?

ASSUME RefundsAssumption ==
    /\ IsFiniteSet(Calls)
    /\ MaxAttempts \in Nat \ {0}
    /\ LostAnswers \in BOOLEAN
    /\ Crashes \in BOOLEAN

VARIABLES
    call,      \* call -> where issueRefund is, and its local variables
    refunds,   \* refunds: call -> row
    booked,    \* escrow_events rows by refund_id: call -> cents, 0 for no row
    announced, \* outbox_events about refunds: call -> event types
    sent       \* PayFast: call -> cents sent back to the client

refundVars == <<call, refunds, booked, announced, sent>>
refundsVars == <<escrowVars, refundVars>>

CallPoints == {"idle", "checked", "calling", "accepted", "failed", "booked",
               "done", "refused", "lost"}

NoCall == [pc |-> "idle"]
NoRow  == [state |-> "ABSENT", cents |-> 0]

Goto(c, point) == call' = [call EXCEPT ![c].pc = point]

\* The end of the outer transaction: the row's state and its outbox row.
CloseRow(c, state, event) ==
    /\ refunds' = [refunds EXCEPT ![c].state = state]
    /\ announced' = [announced EXCEPT ![c] = Append(@, event)]

-----------------------------------------------------------------------------

\* Mutants: a refund of nothing is not refused; neither is one of more than is left.
RefundableZero(row, cents) == row.state \in OpenStates /\ cents \in 0 .. Remaining(row)
RefundableUncapped(row, cents) == row.state \in OpenStates /\ cents > 0

\* canRefund, and the checks of issueRefund.
Refundable(row, cents) == row.state \in OpenStates /\ cents \in 1 .. Remaining(row)

\* Steps 1 and 2: the hold is read outside any transaction; what is left of it
\* caps the refund and decides, now, whether the refund is a full one.  The other
\* things the code looks up hold for every hold: it has a CHARGE transaction, which
\* carries PayFast's payment id.
Check(c, b, cents, faultParty) ==
    /\ call[c] = NoCall
    /\ Refundable(hold[b], cents)
    /\ call' = [call EXCEPT ![c] =
                  [pc           |-> "checked",
                   booking      |-> b,
                   cents        |-> cents,
                   faultParty   |-> faultParty,
                   refundIsFull |-> cents = Remaining(hold[b]),
                   attempts     |-> 0]]
    /\ UNCHANGED <<escrowVars, refunds, booked, announced, sent>>

\* Step 3.
InsertRow(c) ==
    /\ call[c].pc = "checked"
    /\ Goto(c, "calling")
    /\ refunds' = [refunds EXCEPT ![c] = [state |-> "PROCESSING", cents |-> call[c].cents]]
    /\ UNCHANGED <<escrowVars, booked, announced, sent>>

\* Step 4.  PayFast answers 200 with a refund id.
GatewayAccepts(c) ==
    /\ call[c].pc = "calling"
    /\ Goto(c, "accepted")
    /\ sent' = [sent EXCEPT ![c] = @ + call[c].cents]
    /\ UNCHANGED <<escrowVars, refunds, booked, announced>>

\* What PayFast has done when its answer is not a 200 with a refund id.
UnconfirmedSend(c) ==
    \/ UNCHANGED sent
    \/ LostAnswers /\ sent' = [sent EXCEPT ![c] = @ + call[c].cents]

\* A 4xx, or a 200 without a refund id: terminal.
GatewayRejects(c) ==
    /\ call[c].pc = "calling"
    /\ Goto(c, "failed")
    /\ UnconfirmedSend(c)
    /\ UNCHANGED <<escrowVars, refunds, booked, announced>>

\* Mutant: one attempt too many.
GatewayFailsOnceMore(c) ==
    /\ call[c].pc = "calling"
    /\ call' = [call EXCEPT ![c].attempts = @ + 1,
                            ![c].pc = IF call[c].attempts < MaxAttempts THEN @ ELSE "failed"]
    /\ UnconfirmedSend(c)
    /\ UNCHANGED <<escrowVars, refunds, booked, announced>>

\* A 5xx, a timeout or a network error: retried, with no idempotency key.
GatewayFails(c) ==
    /\ call[c].pc = "calling"
    /\ call' = [call EXCEPT ![c].attempts = @ + 1,
                            ![c].pc = IF call[c].attempts + 1 < MaxAttempts THEN @ ELSE "failed"]
    /\ UnconfirmedSend(c)
    /\ UNCHANGED <<escrowVars, refunds, booked, announced>>

\* Step 5b: the row is FAILED, the hold is not touched, the caller gets a 502.
HandleFailure(c) ==
    /\ call[c].pc = "failed"
    /\ Goto(c, "done")
    /\ CloseRow(c, "FAILED", "payments.refund.failed")
    /\ UNCHANGED <<escrowVars, booked, sent>>

\* Mutant: every refund is booked as a full one.
FlipAlwaysFull(c) == Refund(call[c].booking, call[c].faultParty)

\* Step 5a, the inner transaction: EscrowService.refund or partialRefund.
Flip(c) ==
    LET b == call[c].booking IN
    IF call[c].refundIsFull
    THEN Refund(b, call[c].faultParty)
    ELSE PartialRefund(b, call[c].cents, call[c].faultParty)

BookRefund(c) ==
    LET b == call[c].booking IN
    /\ call[c].pc = "accepted"
    /\ Flip(c)
    /\ booked' = [booked EXCEPT ![c] = trail'[b][Len(trail'[b])].cents]
    /\ Goto(c, "booked")
    /\ UNCHANGED <<refunds, announced, sent>>

\* The state machine, or the cap on the running total, says no: the outer
\* transaction rolls back and the refunds row stays PROCESSING.
FlipRefused(c) ==
    LET row == hold[call[c].booking] IN
    IF call[c].refundIsFull
    THEN ~CanTransition(row.state, "REFUND")
    ELSE \/ ~CanTransition(row.state, "PARTIAL_REFUND")
         \/ row.partial + call[c].cents > row.amount

RefuseRefund(c) ==
    /\ call[c].pc = "accepted"
    /\ FlipRefused(c)
    /\ Goto(c, "refused")
    /\ UNCHANGED <<escrowVars, refunds, booked, announced, sent>>

\* Mutant: the row is finalised without waiting for the escrow component.
FinaliseRowEarly(c) ==
    /\ call[c].pc \in {"accepted", "booked"}
    /\ Goto(c, "done")
    /\ CloseRow(c, "SUCCEEDED", "payments.refund.succeeded")
    /\ UNCHANGED <<escrowVars, booked, sent>>

\* The outer transaction commits.
FinaliseRow(c) ==
    /\ call[c].pc = "booked"
    /\ Goto(c, "done")
    /\ CloseRow(c, "SUCCEEDED", "payments.refund.succeeded")
    /\ UNCHANGED <<escrowVars, booked, sent>>

Lose(c) ==
    /\ Crashes
    /\ call[c].pc \notin {"idle", "done", "refused", "lost"}
    /\ Goto(c, "lost")
    /\ UNCHANGED <<escrowVars, refunds, booked, announced, sent>>

-----------------------------------------------------------------------------

RefundsInit ==
    /\ Init
    /\ call    = [c \in Calls |-> NoCall]
    /\ refunds = [c \in Calls |-> NoRow]
    /\ booked  = [c \in Calls |-> 0]
    /\ announced = [c \in Calls |-> <<>>]
    /\ sent    = [c \in Calls |-> 0]

\* Steps a running call takes by itself.
Continue(c) ==
    \/ InsertRow(c)
    \/ GatewayAccepts(c)
    \/ GatewayRejects(c)
    \/ GatewayFails(c)
    \/ HandleFailure(c)
    \/ BookRefund(c)
    \/ RefuseRefund(c)
    \/ FinaliseRow(c)

RefundStep(c) ==
    \/ \E b \in Bookings, fault \in FaultParties :
          \E cents \in RequestCents \cup {Remaining(hold[b])} : Check(c, b, cents, fault)
    \/ Continue(c)
    \/ Lose(c)

\* The escrow operations reached by other routes: admin calls, events, the ITN.
OtherStep == Next /\ UNCHANGED refundVars

RefundsNext == OtherStep \/ \E c \in Calls : RefundStep(c)

RefundsSpec == RefundsInit /\ [][RefundsNext]_refundsVars

-----------------------------------------------------------------------------
(***************************************************************************)
(* Properties.                                                             *)
(***************************************************************************)

CallRow == [pc : CallPoints \ {"idle"}, booking : Bookings, cents : Nat \ {0},
            faultParty : FaultParties, refundIsFull : BOOLEAN, attempts : 0 .. MaxAttempts]

RefundRow == [state : {"ABSENT", "PROCESSING", "SUCCEEDED", "FAILED"}, cents : Nat]

\* Rows of the schema and well-formed calls.
RefundsTypeOK ==
    /\ TypeOK
    /\ call    \in [Calls -> CallRow \cup {NoCall}]
    /\ refunds \in [Calls -> RefundRow]
    /\ booked  \in [Calls -> Nat]
    /\ announced \in [Calls -> Seq({"payments.refund.succeeded", "payments.refund.failed"})]
    /\ sent    \in [Calls -> Nat]

CallsOn(b) == {c \in Calls : call[c] # NoCall /\ call[c].booking = b}

\* The cents that escrow has booked for the calls on a hold.
BookedOn(b) == SumFunctionOnSet(booked, CallsOn(b))

\* The amount of a call is fixed on a read that may be stale by the time the hold
\* is flipped.  Still, what the escrow component books under a refund id is the
\* amount of that refunds row, and PayFast has sent at least that much.
BookedAsSent ==
    \A c \in Calls : booked[c] # 0 => booked[c] = refunds[c].cents /\ sent[c] >= booked[c]

\* What the rest of the platform hears of a refund is the truth, and is said once:
\* a refund announced as succeeded is in the audit trail of the hold, one announced
\* as failed has not touched the hold and never will.
AnnouncedTruth ==
    \A c \in Calls :
        \/ announced[c] = <<>>
        \/ announced[c] = <<"payments.refund.succeeded">> /\ booked[c] = refunds[c].cents
        \/ announced[c] = <<"payments.refund.failed">> /\ booked[c] = 0

\* However many calls race, and whatever else settles the hold in between, the
\* refunds booked on a hold and the artist's share never exceed what was held.
BookedWithinHold ==
    \A b \in Bookings :
        BookedOn(b) + ledger[b]["ARTIST_PAYABLE"] <= hold[b].amount

\* The retry policy: PayFast is asked at most MaxAttempts times, and only answers
\* that hide a refund make it send the money more than once.
SendsBounded ==
    \A c \in Calls :
        sent[c] <= (IF LostAnswers THEN MaxAttempts ELSE 1) * refunds[c].cents

\* A refusal after PayFast has sent the money leaves that money without a booking, so it
\* must not be for nothing: the hold is frozen or settled, or refunds that were booked
\* before leave no room for this one.  A hold that is only HELD has refused nobody, and
\* one that was refunded in part has not refused a part that still fits.
RefusalHasCause ==
    \A c \in Calls :
        call[c].pc = "refused" =>
            LET row == hold[call[c].booking] IN
            \/ row.state \in {"DISPUTED", "RELEASED", "REFUNDED"}
            \/ /\ row.state = "PARTIALLY_REFUNDED"
               /\ call[c].refundIsFull \/ call[c].cents > Remaining(row)

-----------------------------------------------------------------------------
(***************************************************************************)
(* The inductive invariant behind them: what the tables say of a call at   *)
(* each of its points.                                                     *)
(***************************************************************************)

Untouched(c) ==
    refunds[c] = NoRow /\ booked[c] = 0 /\ announced[c] = <<>> /\ sent[c] = 0

Processing(c) ==
    /\ refunds[c] = [state |-> "PROCESSING", cents |-> call[c].cents]
    /\ announced[c] = <<>>

Booked(c) == booked[c] = call[c].cents /\ sent[c] >= call[c].cents

\* A call that went for the whole hold was right about it, or the hold is not HELD any more.
WholeOrMovedOn(c) ==
    /\ hold[call[c].booking] # NoHold
    /\ hold[call[c].booking].state = "HELD" => call[c].cents = hold[call[c].booking].amount

CallAccounted(c) ==
    /\ call[c].pc \in {"idle", "checked"} => Untouched(c)
    /\ call[c].pc \in {"calling", "accepted", "failed", "refused"} => Processing(c) /\ booked[c] = 0
    /\ call[c].pc \in {"checked", "calling", "accepted"} /\ call[c].refundIsFull => WholeOrMovedOn(c)
    /\ call[c].pc = "accepted" => sent[c] >= call[c].cents
    /\ call[c].pc = "booked" => Processing(c) /\ Booked(c)
    /\ call[c].pc = "done" =>
          /\ refunds[c].cents = call[c].cents
          /\ \/ /\ refunds[c].state = "SUCCEEDED"
                /\ announced[c] = <<"payments.refund.succeeded">>
                /\ Booked(c)
             \/ /\ refunds[c].state = "FAILED"
                /\ announced[c] = <<"payments.refund.failed">>
                /\ booked[c] = 0
    /\ call[c].pc = "lost" =>
          /\ refunds[c].state \in {"ABSENT", "PROCESSING"}
          /\ announced[c] = <<>>
          /\ booked[c] = 0 \/ (refunds[c].cents = call[c].cents /\ Booked(c))

\* A call that still talks to PayFast has attempts left, and each one so far has sent the
\* money once at most.
AttemptsAccounted(c) ==
    /\ call[c].pc = "checked" => call[c].attempts = 0
    /\ call[c].pc = "calling" =>
          /\ call[c].attempts < MaxAttempts
          /\ sent[c] <= (IF LostAnswers THEN call[c].attempts ELSE 0) * call[c].cents

\* The calls on a hold have booked no more than the client got out of it; the rest are
\* the shares that other operations gave the client.
BookedToClient(b) == BookedOn(b) <= clientBar[b]

\* The point of a call, the refunds row, what escrow booked, what was announced and what
\* PayFast sent tell one story, although they are written at different moments.
CallsInv ==
    /\ IInv
    /\ RefundsTypeOK
    /\ SendsBounded
    /\ \A c \in Calls : CallAccounted(c) /\ AttemptsAccounted(c)

\* Nobody asks for more than was paid for the booking, however old the hold is that was
\* read: its amount does not change.
AskedWithinHold ==
    \A c \in Calls :
        call[c].pc # "idle" =>
            /\ hold[call[c].booking] # NoHold
            /\ call[c].cents <= hold[call[c].booking].amount

\* Call by call, and hold by hold.
RefundsInv ==
    /\ CallsInv
    /\ AskedWithinHold
    /\ \A b \in Bookings : BookedToClient(b)

-----------------------------------------------------------------------------
(***************************************************************************)
(* issueRefund implements RefundedFunds: what was asked for is the refunds *)
(* row, what was told is the outbox, and the money is that of HeldFunds,   *)
(* so a call that books what it has not sent, or books it without the      *)
(* client getting it, is no step of RefundedFunds.                         *)
(***************************************************************************)

askBar ==
    [c \in Calls |-> IF refunds[c] = NoRow THEN [cents |-> 0]
                     ELSE [booking |-> call[c].booking, cents |-> refunds[c].cents]]

Promised == INSTANCE RefundedFunds WITH
                Payments <- Captures, phase <- phaseBar, pot <- potBar, artist <- artistBar,
                client <- clientBar, fee <- feeBar, ask <- askBar, told <- announced,
                SendLimit <- IF LostAnswers THEN MaxAttempts ELSE 1

\* Every behaviour of the refund calls, among whatever else is done to the holds, is one
\* of RefundedFunds.  In particular nothing is sent once a call is booked or was told
\* to have failed, and the row, the outbox, PayFast and the ledger never contradict.
ImplementsRefundedFunds == Promised!RefundedSpec
=============================================================================
