------------------------------- MODULE Escrow -------------------------------
(***************************************************************************)
(* Escrow holds, their ledger, their audit trail, the payout rows they     *)
(* queue and the outbox rows they write (EscrowService, and the part of    *)
(* PayFastWebhookService that opens a hold).                               *)
(*                                                                         *)
(* Every action is one database transaction of the code: Serializable,     *)
(* with the hold row pinned by SELECT ... FOR UPDATE, so a transaction is  *)
(* one atomic step.  A call the code refuses rolls back and changes        *)
(* nothing: its action is disabled.  A booking has at most one hold        *)
(* (escrow_holds.booking_id is UNIQUE), so holds are indexed by booking.   *)
(***************************************************************************)
EXTENDS EscrowRules, Sequences, FiniteSets, Functions

CONSTANTS
    Bookings,      \* booking ids
    Captures,      \* [amount, fee]: the hold and the platform fee of a payment
    RequestCents   \* the cents a caller may ask to refund or to split

ASSUME CapturesAssumption == Captures \subseteq [amount : Nat, fee : Nat]
ASSUME RequestCentsAssumption == RequestCents \subseteq Int

VARIABLES
    hold,     \* escrow_holds:   booking -> row
    ledger,   \* ledger_entries: booking -> account -> credits - debits
    trail,    \* escrow_events:  booking -> rows in commit order
    payouts,  \* payouts:        booking -> rows in creation order
    outbox    \* outbox_events:  booking -> event types in creation order

escrowVars == <<hold, ledger, trail, payouts, outbox>>

PayoutStates == {"QUEUED", "PROCESSING", "SUCCEEDED", "FAILED", "CANCELLED"}

EventTypes == {"HELD", "RELEASED", "REFUNDED", "PARTIALLY_REFUNDED", "FROZEN",
               "RESOLVED_RELEASE", "RESOLVED_REFUND"}

OutboxTypes == {"payments.intent.created", "payments.succeeded", "payments.failed",
                "escrow.held", "escrow.released",
                "escrow.refunded", "escrow.partially_refunded", "escrow.frozen",
                "escrow.payout.queued"}

HoldRow == [state : HoldStates \cup {"ABSENT"}, amount : Nat, fee : Nat, partial : Nat]

\* A booking whose payment has not settled yet has no hold row.
NoHold == [state |-> "ABSENT", amount |-> 0, fee |-> 0, partial |-> 0]

\* Mutants: the operands change places; the partial refunds are forgotten.
RemainingSwapped(row) == row.partial - row.amount
RemainingGross(row) == row.amount

Remaining(row) == row.amount - row.partial

-----------------------------------------------------------------------------

\* writeLedger: assertBalanced, then one ledger event.
WriteLedger(b, entries) ==
    /\ Balanced(entries)
    /\ ledger' = [ledger EXCEPT ![b] = Post(@, entries)]

\* escrow_events row.
Record(b, type, cents) ==
    trail' = [trail EXCEPT ![b] = Append(@, [type |-> type, cents |-> cents])]

\* Mutants: a payout of one cent is taken for no money; a payout of no money is announced.
QueuePayoutOffByOne(b, cents) ==
    payouts' = IF cents <= 1
               THEN payouts
               ELSE [payouts EXCEPT ![b] = Append(@, [cents |-> cents, state |-> "QUEUED"])]
PayoutQueuedAlways(cents) == <<"escrow.payout.queued">>

\* queuePayout: one QUEUED row and its outbox row, or nothing for no money.
QueuePayout(b, cents) ==
    payouts' = IF cents <= 0
               THEN payouts
               ELSE [payouts EXCEPT ![b] = Append(@, [cents |-> cents, state |-> "QUEUED"])]

PayoutQueued(cents) == IF cents <= 0 THEN <<>> ELSE <<"escrow.payout.queued">>

Emit(b, types) == outbox' = [outbox EXCEPT ![b] = @ \o types]

\* applyTransition's check and the update of the state column.
MoveHold(b, act) ==
    /\ CanTransition(hold[b].state, act)
    /\ hold' = [hold EXCEPT ![b].state = NextState(@, act)]

CancelQueued(rows) ==
    [i \in DOMAIN rows |->
        IF rows[i].state = "QUEUED" THEN [rows[i] EXCEPT !.state = "CANCELLED"] ELSE rows[i]]

-----------------------------------------------------------------------------

\* A COMPLETE ITN opens the hold.  Creating a second hold for the booking
\* violates the unique key and rolls the whole transaction back.
Capture(b, c) ==
    /\ hold[b] = NoHold
    /\ hold' = [hold EXCEPT ![b] = [state   |-> "HELD",
                                    amount  |-> c.amount,
                                    fee     |-> c.fee,
                                    partial |-> 0]]
    /\ WriteLedger(b, CaptureEntries(c.amount, c.fee))
    /\ Record(b, "HELD", c.amount)
    /\ Emit(b, <<"payments.succeeded", "escrow.held">>)
    /\ UNCHANGED payouts

Release(b) ==
    LET remainder == Remaining(hold[b]) IN
    /\ remainder >= 0
    /\ MoveHold(b, "RELEASE")
    /\ WriteLedger(b, ReleaseEntries(remainder))
    /\ Record(b, "RELEASED", remainder)
    /\ QueuePayout(b, remainder)
    /\ Emit(b, PayoutQueued(remainder) \o <<"escrow.released">>)

\* A full refund is of hold.amountCents, whatever was refunded before.
Refund(b, faultParty) ==
    LET refundCents == hold[b].amount IN
    /\ MoveHold(b, "REFUND")
    /\ WriteLedger(b, RefundEntries(hold[b].fee, refundCents, faultParty, TRUE))
    /\ Record(b, "REFUNDED", refundCents)
    /\ Emit(b, <<"escrow.refunded">>)
    /\ UNCHANGED payouts

PartialRefund(b, refundCents, faultParty) ==
    LET running == hold[b].partial + refundCents IN
    /\ refundCents > 0
    /\ CanTransition(hold[b].state, "PARTIAL_REFUND")
    /\ running <= hold[b].amount
    /\ hold' = [hold EXCEPT ![b].state = NextState(@, "PARTIAL_REFUND"),
                            ![b].partial = running]
    /\ WriteLedger(b, RefundEntries(hold[b].fee, refundCents, faultParty, FALSE))
    /\ Record(b, "PARTIALLY_REFUNDED", refundCents)
    /\ Emit(b, <<"escrow.partially_refunded">>)
    /\ UNCHANGED payouts

\* No ledger entries: the money stays in ESCROW_LIABILITY.
Freeze(b) ==
    /\ MoveHold(b, "FREEZE")
    /\ Record(b, "FROZEN", Remaining(hold[b]))
    /\ payouts' = [payouts EXCEPT ![b] = CancelQueued(@)]
    /\ Emit(b, <<"escrow.frozen">>)
    /\ UNCHANGED ledger

ResolveRelease(b) ==
    LET held == Remaining(hold[b]) IN
    /\ held >= 0
    /\ MoveHold(b, "RESOLVE_RELEASE")
    /\ WriteLedger(b, ReleaseEntries(held))
    /\ Record(b, "RESOLVED_RELEASE", held)
    /\ QueuePayout(b, held)
    /\ Emit(b, PayoutQueued(held) \o <<"escrow.released">>)

\* Resolved for the client: booked as an artist-fault full refund.
ResolveRefund(b) ==
    LET held == Remaining(hold[b]) IN
    /\ held >= 0
    /\ MoveHold(b, "RESOLVE_REFUND")
    /\ WriteLedger(b, RefundEntries(hold[b].fee, held, "ARTIST", TRUE))
    /\ Record(b, "RESOLVED_REFUND", held)
    /\ Emit(b, <<"escrow.refunded">>)
    /\ UNCHANGED payouts

ResolveSplit(b, artistCents, clientCents) ==
    /\ artistCents >= 0
    /\ clientCents >= 0
    /\ artistCents + clientCents = Remaining(hold[b])
    /\ MoveHold(b, "RESOLVE_SPLIT")
    /\ WriteLedger(b, SplitEntries(artistCents, clientCents))
    /\ Record(b, "RESOLVED_REFUND", clientCents)
    /\ QueuePayout(b, artistCents)
    /\ Emit(b, PayoutQueued(artistCents) \o <<"escrow.refunded">>)

-----------------------------------------------------------------------------

Init ==
    /\ hold    = [b \in Bookings |-> NoHold]
    /\ ledger  = [b \in Bookings |-> NoEntries]
    /\ trail   = [b \in Bookings |-> <<>>]
    /\ payouts = [b \in Bookings |-> <<>>]
    /\ outbox  = [b \in Bookings |-> <<>>]

EscrowStep(b) ==
    \/ \E c \in Captures : Capture(b, c)
    \/ Release(b)
    \/ \E fault \in FaultParties : Refund(b, fault)
    \/ \E cents \in RequestCents, fault \in FaultParties : PartialRefund(b, cents, fault)
    \/ Freeze(b)
    \/ ResolveRelease(b)
    \/ ResolveRefund(b)
    \/ \E artist, client \in RequestCents : ResolveSplit(b, artist, client)

Next == \E b \in Bookings : EscrowStep(b)

Spec == Init /\ [][Next]_escrowVars

-----------------------------------------------------------------------------
(***************************************************************************)
(* Properties.                                                             *)
(***************************************************************************)

\* Every table holds rows of its schema.
TypeOK ==
    /\ hold    \in [Bookings -> HoldRow]
    /\ ledger  \in [Bookings -> [Accounts -> Int]]
    /\ trail   \in [Bookings -> Seq([type : EventTypes, cents : Nat])]
    /\ payouts \in [Bookings -> Seq([cents : Nat, state : PayoutStates])]
    /\ outbox  \in [Bookings -> Seq(OutboxTypes)]

\* Invariant B of the nightly reconciliation, hold by hold: what the ledger says
\* is held in trust is what is left on the open holds, and nothing on the others.
LiabilityBacksHolds ==
    \A b \in Bookings :
        ledger[b]["ESCROW_LIABILITY"] =
            IF hold[b].state \in OpenStates THEN Remaining(hold[b]) ELSE 0

\* Invariant C of the reconciliation, made exact: the platform has either its
\* whole fee or none of it, and has given it back only where the client got back
\* the whole payment and the artist gets nothing.
FeeReturnedOnlyWithWhole ==
    \A b \in Bookings :
        \/ ledger[b]["PLATFORM_REVENUE"] = hold[b].fee
        \/ /\ ledger[b]["PLATFORM_REVENUE"] = 0
           /\ ledger[b]["ARTIST_PAYABLE"] = 0
           /\ ledger[b]["REFUNDS_ISSUED"] = hold[b].amount + hold[b].fee

\* The artist is paid once: a booking has at most one payout row in its whole
\* life, for exactly what the ledger owes the artist.
PayoutBacked ==
    \A b \in Bookings :
        /\ Len(payouts[b]) <= 1
        /\ ledger[b]["ARTIST_PAYABLE"] = IF payouts[b] = <<>> THEN 0 ELSE payouts[b][1].cents

\* A payout row exists only for a settled hold.  FREEZE looks for QUEUED payouts to
\* cancel, but a hold that can still be frozen has no payout row at all.
PayoutOnlyWhenSettled ==
    \A b \in Bookings : payouts[b] # <<>> => hold[b].state \in {"RELEASED", "REFUNDED"}

\* No settlement reaches the state machine twice, whatever calls are made: once a
\* hold is RELEASED or REFUNDED, its row, its ledger and its audit trail are final.
SettledForever ==
    [][\A b \in Bookings :
          hold[b].state \in {"RELEASED", "REFUNDED"} =>
              /\ hold'[b] = hold[b]
              /\ ledger'[b] = ledger[b]
              /\ trail'[b] = trail[b]]_escrowVars

\* What the rest of the platform hears: a hold is settled exactly when one
\* outcome was announced, and a payout was announced exactly when it was queued.
OutcomeAnnouncedOnce ==
    \A b \in Bookings :
        LET Announced(types) == {i \in DOMAIN outbox[b] : outbox[b][i] \in types} IN
        /\ Cardinality(Announced({"escrow.released", "escrow.refunded"})) =
               IF hold[b].state \in {"RELEASED", "REFUNDED"} THEN 1 ELSE 0
        /\ Cardinality(Announced({"escrow.payout.queued"})) = Len(payouts[b])

RefundTypes == {"REFUNDED", "PARTIALLY_REFUNDED", "RESOLVED_REFUND"}

\* The cents of the refund events among the rows of an audit trail.
Refunded(rows) ==
    SumFunctionOnSet([i \in DOMAIN rows |-> rows[i].cents],
                     {i \in DOMAIN rows : rows[i].type \in RefundTypes})

\* The audit trail explains the refunds the ledger issued: they add up to the
\* cents of the refund events, plus the platform fee where it was reversed.
TrailExplainsRefunds ==
    \A b \in Bookings :
        ledger[b]["REFUNDS_ISSUED"] =
            Refunded(trail[b]) + (hold[b].fee - ledger[b]["PLATFORM_REVENUE"])

-----------------------------------------------------------------------------
(***************************************************************************)
(* The inductive invariant behind them: where every cent of a booking is   *)
(* at any time, by the state of its hold.                                  *)
(***************************************************************************)

NothingPaidOut(b) ==
    /\ ledger[b]["PLATFORM_REVENUE"] = hold[b].fee
    /\ ledger[b]["ARTIST_PAYABLE"] = 0
    /\ ledger[b]["REFUNDS_ISSUED"] = hold[b].partial
    /\ payouts[b] = <<>>

PaidOut(b) ==
    LET reversed == hold[b].fee - ledger[b]["PLATFORM_REVENUE"] IN
    /\ reversed \in {0, hold[b].fee}
    /\ ledger[b]["ARTIST_PAYABLE"] \in 0 .. Remaining(hold[b])
    /\ ledger[b]["ARTIST_PAYABLE"] + ledger[b]["REFUNDS_ISSUED"] = hold[b].amount + reversed
    /\ reversed # 0 => ledger[b]["ARTIST_PAYABLE"] = 0
    /\ \/ payouts[b] = <<>> /\ ledger[b]["ARTIST_PAYABLE"] = 0
       \/ Len(payouts[b]) = 1 /\ payouts[b][1].cents = ledger[b]["ARTIST_PAYABLE"]

FundsAccounted(b) ==
    /\ hold[b].partial <= hold[b].amount
    /\ hold[b].state = "ABSENT" => hold[b] = NoHold
    /\ hold[b].state = "HELD" => hold[b].partial = 0
    /\ ledger[b]["ESCROW_LIABILITY"] =
          IF hold[b].state \in OpenStates THEN Remaining(hold[b]) ELSE 0
    /\ IF hold[b].state \in {"RELEASED", "REFUNDED"} THEN PaidOut(b) ELSE NothingPaidOut(b)

\* Types, and every cent accounted for.
IInv == TypeOK /\ \A b \in Bookings : FundsAccounted(b)

-----------------------------------------------------------------------------
(***************************************************************************)
(* The escrow component implements HeldFunds.  The pot and the shares are  *)
(* read from the ledger, the phase from the state machine, so a step on    *)
(* which the two disagree is no step of HeldFunds.                         *)
(***************************************************************************)

PhaseOf(state) ==
    CASE state = "ABSENT" -> "none"
      [] state \in {"HELD", "PARTIALLY_REFUNDED"} -> "open"
      [] state = "DISPUTED" -> "frozen"
      [] OTHER -> "settled"

phaseBar  == [b \in Bookings |-> PhaseOf(hold[b].state)]
potBar    == [b \in Bookings |-> ledger[b]["ESCROW_LIABILITY"]]
artistBar == [b \in Bookings |-> ledger[b]["ARTIST_PAYABLE"]]
feeBar    == [b \in Bookings |-> ledger[b]["PLATFORM_REVENUE"]]

\* What the client got out of the pot: all refunds but the fee given back.
clientBar ==
    [b \in Bookings |->
        ledger[b]["REFUNDS_ISSUED"] - (hold[b].fee - ledger[b]["PLATFORM_REVENUE"])]

Funds == INSTANCE HeldFunds WITH Payments <- Captures, phase <- phaseBar, pot <- potBar,
                                 artist <- artistBar, client <- clientBar, fee <- feeBar

\* Every behaviour of the escrow component is one of HeldFunds.
ImplementsHeldFunds == Funds!Spec
=============================================================================
