---------------------------- MODULE EscrowProofs ----------------------------
(***************************************************************************)
(* Proofs about Escrow, for any set of bookings, any payments and any      *)
(* requested amounts.                                                      *)
(***************************************************************************)
EXTENDS Escrow, FiniteSetTheorems, TLAPS

\* The transition table: from where each action is legal, and where it leads.
LEMMA TransitionTable ==
    ASSUME NEW from \in HoldStates \cup {"ABSENT"}, NEW act \in EscrowActions,
           CanTransition(from, act)
    PROVE  /\ from \in OpenStates
           /\ act = "REFUND" => from = "HELD"
           /\ act \in FrozenBypassActions <=> from = "DISPUTED"
           /\ act \in {"RELEASE", "RESOLVE_RELEASE"} => NextState(from, act) = "RELEASED"
           /\ act \in {"REFUND", "RESOLVE_REFUND", "RESOLVE_SPLIT"}
                 => NextState(from, act) = "REFUNDED"
           /\ act = "PARTIAL_REFUND" => NextState(from, act) = "PARTIALLY_REFUNDED"
           /\ act = "FREEZE" => NextState(from, act) = "DISPUTED"
<1> USE DEF CanTransition, NextState, Transitions, HoldStates, OpenStates,
            EscrowActions, FrozenBypassActions
<1>1. CASE from = "HELD"
  BY <1>1
<1>2. CASE from = "PARTIALLY_REFUNDED"
  BY <1>2
<1>3. CASE from = "DISPUTED"
  BY <1>3
<1>4. CASE from \in {"RELEASED", "REFUNDED"}
  BY <1>4
<1>5. QED
  BY <1>1, <1>2, <1>3, <1>4

\* Every ledger event posted to a booking changes the five balances by its entries.
LEMMA PostType ==
    ASSUME NEW balances \in [Accounts -> Int], NEW entries \in [Accounts -> Int]
    PROVE  /\ Post(balances, entries) \in [Accounts -> Int]
           /\ \A acc \in Accounts : Post(balances, entries)[acc] = balances[acc] + entries[acc]
  BY DEF Post

\* The entry builders, account by account.
LEMMA CaptureEntriesOf ==
    ASSUME NEW cents \in Int, NEW fee \in Int
    PROVE  /\ CaptureEntries(cents, fee) \in [Accounts -> Int]
           /\ CaptureEntries(cents, fee)["ESCROW_LIABILITY"] = cents
           /\ CaptureEntries(cents, fee)["PLATFORM_REVENUE"] = fee
           /\ CaptureEntries(cents, fee)["ARTIST_PAYABLE"] = 0
           /\ CaptureEntries(cents, fee)["REFUNDS_ISSUED"] = 0
  BY DEF CaptureEntries, NoEntries, Accounts

LEMMA ReleaseEntriesOf ==
    ASSUME NEW cents \in Int
    PROVE  /\ ReleaseEntries(cents) \in [Accounts -> Int]
           /\ ReleaseEntries(cents)["ESCROW_LIABILITY"] = -cents
           /\ ReleaseEntries(cents)["PLATFORM_REVENUE"] = 0
           /\ ReleaseEntries(cents)["ARTIST_PAYABLE"] = cents
           /\ ReleaseEntries(cents)["REFUNDS_ISSUED"] = 0
  BY DEF ReleaseEntries, NoEntries, Accounts

LEMMA RefundEntriesOf ==
    ASSUME NEW fee \in Int, NEW cents \in Int, NEW fault, NEW full \in BOOLEAN
    PROVE  /\ RefundEntries(fee, cents, fault, full) \in [Accounts -> Int]
           /\ RefundEntries(fee, cents, fault, full)["REFUNDS_ISSUED"]
                + RefundEntries(fee, cents, fault, full)["PLATFORM_REVENUE"] = cents
           /\ RefundEntries(fee, cents, fault, full)["REFUNDS_ISSUED"] \in Int
           /\ RefundEntries(fee, cents, fault, full)["PLATFORM_REVENUE"] \in Int
<1> DEFINE reversed == ReversedFee(fee, fault, full)
<1>1. reversed \in Int
  BY DEF ReversedFee
<1> HIDE DEF reversed
<1>2. RefundEntries(fee, cents, fault, full) =
        [NoEntries EXCEPT !["ESCROW_LIABILITY"] = -cents,
                          !["PLATFORM_REVENUE"] = -reversed,
                          !["REFUNDS_ISSUED"]   = cents + reversed]
  BY DEF RefundEntries, reversed
<1>3. QED
  BY <1>1, <1>2 DEF NoEntries, Accounts

LEMMA SplitEntriesOf ==
    ASSUME NEW artist \in Int, NEW client \in Int
    PROVE  /\ SplitEntries(artist, client) \in [Accounts -> Int]
           /\ SplitEntries(artist, client)["ESCROW_LIABILITY"] = -(artist + client)
           /\ SplitEntries(artist, client)["PLATFORM_REVENUE"] = 0
           /\ SplitEntries(artist, client)["ARTIST_PAYABLE"] = artist
           /\ SplitEntries(artist, client)["REFUNDS_ISSUED"] = client
  BY DEF SplitEntries, NoEntries, Accounts

-----------------------------------------------------------------------------
(***************************************************************************)
(* The invariant is inductive.                                             *)
(***************************************************************************)

LEMMA InitInv == Init => IInv
  BY DEF Init, IInv, TypeOK, FundsAccounted, NothingPaidOut, NoHold, HoldRow, NoEntries,
         HoldStates, OpenStates, Accounts, Remaining

\* What posting an event does to the balances of its booking.
LEMMA LedgerStep ==
    ASSUME TypeOK, NEW b \in Bookings, NEW entries \in [Accounts -> Int],
           WriteLedger(b, entries)
    PROVE  /\ ledger' \in [Bookings -> [Accounts -> Int]]
           /\ \A acc \in Accounts : ledger'[b][acc] = ledger[b][acc] + entries[acc]
<1>1. ledger' = [ledger EXCEPT ![b] = Post(ledger[b], entries)]
  BY DEF WriteLedger
<1>2. QED
  BY <1>1, PostType DEF TypeOK

\* What moving the hold along the transition table does to its row.
LEMMA HoldStep ==
    ASSUME TypeOK, NEW b \in Bookings, NEW act \in EscrowActions, MoveHold(b, act)
    PROVE  /\ CanTransition(hold[b].state, act)
           /\ hold[b].state \in OpenStates
           /\ NextState(hold[b].state, act) \in HoldStates =>
                /\ hold' \in [Bookings -> HoldRow]
                /\ hold'[b].state = NextState(hold[b].state, act)
                /\ hold'[b].amount = hold[b].amount
                /\ hold'[b].fee = hold[b].fee
                /\ hold'[b].partial = hold[b].partial
<1>1. /\ CanTransition(hold[b].state, act)
      /\ hold' = [hold EXCEPT ![b] = [hold[b] EXCEPT !.state = NextState(hold[b].state, act)]]
  BY DEF MoveHold
<1>2. hold[b] \in HoldRow
  BY DEF TypeOK
<1>3. hold[b].state \in OpenStates
  BY <1>1, <1>2, TransitionTable DEF HoldRow
<1>4. QED
  BY <1>1, <1>2, <1>3 DEF TypeOK, HoldRow

\* A row of the audit trail has a known type and a natural number of cents.
LEMMA TrailStep ==
    ASSUME TypeOK, NEW b \in Bookings, NEW type \in EventTypes, NEW cents \in Nat,
           Record(b, type, cents)
    PROVE  trail' \in [Bookings -> Seq([type : EventTypes, cents : Nat])]
<1> DEFINE Rows == [type : EventTypes, cents : Nat]
           row  == [type |-> type, cents |-> cents]
<1>1. row \in Rows
  OBVIOUS
<1>2. trail \in [Bookings -> Seq(Rows)] /\ trail' = [trail EXCEPT ![b] = Append(trail[b], row)]
  BY DEF Record, TypeOK
<1> HIDE DEF Rows, row
<1>3. trail' \in [Bookings -> Seq(Rows)]
  BY <1>1, <1>2
<1>4. QED
  BY <1>3 DEF Rows

LEMMA OutboxStep ==
    ASSUME TypeOK, NEW b \in Bookings, NEW types \in Seq(OutboxTypes), Emit(b, types)
    PROVE  outbox' \in [Bookings -> Seq(OutboxTypes)]
  BY DEF Emit, TypeOK

\* A payment of cents queues one row for them, and no row for nothing.
LEMMA PayoutStep ==
    ASSUME TypeOK, NEW b \in Bookings, NEW cents \in Nat, payouts[b] = <<>>,
           QueuePayout(b, cents)
    PROVE  /\ payouts' \in [Bookings -> Seq([cents : Nat, state : PayoutStates])]
           /\ \/ payouts'[b] = <<>> /\ cents = 0
              \/ Len(payouts'[b]) = 1 /\ payouts'[b][1].cents = cents
<1>1. CASE cents = 0
  <2>1. payouts' = payouts
    BY <1>1 DEF QueuePayout
  <2>2. QED
    BY <1>1, <2>1 DEF TypeOK
<1>2. CASE cents # 0
  <2> DEFINE Rows == [cents : Nat, state : PayoutStates]
             row  == [cents |-> cents, state |-> "QUEUED"]
  <2>1. row \in Rows /\ row.cents = cents
    BY DEF PayoutStates
  <2>2. payouts \in [Bookings -> Seq(Rows)]
    BY DEF TypeOK
  <2>3. payouts' = [payouts EXCEPT ![b] = Append(payouts[b], row)]
    BY <1>2 DEF QueuePayout
  <2> HIDE DEF Rows, row
  <2>4. payouts' \in [Bookings -> Seq(Rows)]
    BY <2>1, <2>2, <2>3
  <2>5. payouts'[b] = Append(<<>>, row)
    BY <2>2, <2>3
  <2>6. Len(payouts'[b]) = 1 /\ payouts'[b][1] = row
    BY <2>1, <2>5
  <2>7. QED
    BY <2>1, <2>4, <2>6 DEF Rows
<1>3. QED
  BY <1>1, <1>2

LEMMA PayoutQueuedType ==
    ASSUME NEW cents \in Int, NEW type \in OutboxTypes
    PROVE  PayoutQueued(cents) \o <<type>> \in Seq(OutboxTypes)
<1>1. CASE cents <= 0
  BY <1>1 DEF PayoutQueued
<1>2. CASE ~(cents <= 0)
  <2>1. PayoutQueued(cents) = <<"escrow.payout.queued">>
    BY <1>2 DEF PayoutQueued
  <2>2. "escrow.payout.queued" \in OutboxTypes
    BY DEF OutboxTypes
  <2>3. QED
    BY <2>1, <2>2
<1>3. QED
  BY <1>1, <1>2

\* The rows of the other bookings are left alone by a step on b.
LEMMA Frame ==
    ASSUME TypeOK, NEW b \in Bookings, EscrowStep(b), NEW c \in Bookings, c # b
    PROVE  /\ hold'[c] = hold[c]
           /\ ledger'[c] = ledger[c]
           /\ trail'[c] = trail[c]
           /\ payouts'[c] = payouts[c]
  BY DEF EscrowStep, TypeOK, Capture, Release, Refund, PartialRefund, Freeze,
         ResolveRelease, ResolveRefund, ResolveSplit, MoveHold, WriteLedger, Record,
         QueuePayout

LEMMA CaptureInv ==
    ASSUME IInv, NEW b \in Bookings, NEW c, c.amount \in Nat, c.fee \in Nat, Capture(b, c)
    PROVE  TypeOK' /\ FundsAccounted(b)'
<1>1. c.amount \in Nat /\ c.fee \in Nat
  OBVIOUS
<1>2. /\ TypeOK
      /\ hold[b] = NoHold
      /\ ledger[b]["ESCROW_LIABILITY"] = 0
      /\ NothingPaidOut(b)
  BY DEF IInv, FundsAccounted, Capture, NoHold, OpenStates
<1>3. /\ hold' \in [Bookings -> HoldRow]
      /\ hold'[b] = [state |-> "HELD", amount |-> c.amount, fee |-> c.fee, partial |-> 0]
  BY <1>1, <1>2 DEF Capture, TypeOK, HoldRow, HoldStates
<1>4. /\ ledger' \in [Bookings -> [Accounts -> Int]]
      /\ ledger'[b]["ESCROW_LIABILITY"] = c.amount
      /\ ledger'[b]["PLATFORM_REVENUE"] = c.fee
      /\ ledger'[b]["ARTIST_PAYABLE"] = 0
      /\ ledger'[b]["REFUNDS_ISSUED"] = 0
  <2> DEFINE amount == c.amount
             fee == c.fee
             entries == CaptureEntries(amount, fee)
  <2>0. amount \in Int /\ fee \in Int
    BY <1>1
  <2> HIDE DEF amount, fee
  <2>1. /\ entries \in [Accounts -> Int]
        /\ entries["ESCROW_LIABILITY"] = amount
        /\ entries["PLATFORM_REVENUE"] = fee
        /\ entries["ARTIST_PAYABLE"] = 0
        /\ entries["REFUNDS_ISSUED"] = 0
    BY <2>0, CaptureEntriesOf
  <2>2. WriteLedger(b, entries)
    BY DEF Capture, amount, fee
  <2> HIDE DEF entries
  <2>3. /\ ledger' \in [Bookings -> [Accounts -> Int]]
        /\ \A acc \in Accounts : ledger'[b][acc] = ledger[b][acc] + entries[acc]
    BY <1>2, <2>1, <2>2, LedgerStep
  <2>4. /\ ledger[b]["PLATFORM_REVENUE"] = 0
        /\ ledger[b]["ARTIST_PAYABLE"] = 0
        /\ ledger[b]["REFUNDS_ISSUED"] = 0
    BY <1>2 DEF NothingPaidOut, NoHold
  <2>5. QED
    BY <1>2, <2>0, <2>1, <2>3, <2>4 DEF Accounts, amount, fee
<1>5. trail' \in [Bookings -> Seq([type : EventTypes, cents : Nat])]
  BY <1>1, <1>2, TrailStep DEF Capture, EventTypes
<1>6. outbox' \in [Bookings -> Seq(OutboxTypes)]
  <2>1. <<"payments.succeeded", "escrow.held">> \in Seq(OutboxTypes)
    BY DEF OutboxTypes
  <2>2. Emit(b, <<"payments.succeeded", "escrow.held">>)
    BY DEF Capture
  <2>3. QED
    BY <1>2, <2>1, <2>2, OutboxStep
<1>7. payouts' = payouts
  BY DEF Capture
<1>8. TypeOK'
  BY <1>2, <1>3, <1>4, <1>5, <1>6, <1>7 DEF TypeOK
<1>9. FundsAccounted(b)'
  BY <1>1, <1>2, <1>3, <1>4, <1>7
     DEF FundsAccounted, NothingPaidOut, NoHold, OpenStates, Remaining
<1>10. QED
  BY <1>8, <1>9

\* A settlement: the hold reaches a terminal state, the whole of what was left
\* goes to the artist and the client, and the fee is reversed or not.
LEMMA SettleInv ==
    ASSUME IInv, NEW b \in Bookings, NEW act \in EscrowActions \ {"PARTIAL_REFUND", "FREEZE"},
           NEW share \in Nat, NEW reversed \in {0, hold[b].fee},
           NEW entries \in [Accounts -> Int],
           MoveHold(b, act), WriteLedger(b, entries), QueuePayout(b, share),
           share <= Remaining(hold[b]), reversed # 0 => share = 0,
           entries["ESCROW_LIABILITY"] = -Remaining(hold[b]),
           entries["PLATFORM_REVENUE"] = 0 - reversed,
           entries["ARTIST_PAYABLE"] = share,
           entries["REFUNDS_ISSUED"] = (Remaining(hold[b]) - share) + reversed
    PROVE  /\ hold' \in [Bookings -> HoldRow]
           /\ ledger' \in [Bookings -> [Accounts -> Int]]
           /\ payouts' \in [Bookings -> Seq([cents : Nat, state : PayoutStates])]
           /\ FundsAccounted(b)'
<1>1. TypeOK /\ FundsAccounted(b) /\ hold[b] \in HoldRow
  BY DEF IInv, TypeOK
<1>2. /\ hold[b].state \in OpenStates
      /\ NextState(hold[b].state, act) \in {"RELEASED", "REFUNDED"}
  <2>1. hold[b].state \in HoldStates \cup {"ABSENT"} /\ CanTransition(hold[b].state, act)
    BY <1>1, HoldStep DEF HoldRow
  <2>2. QED
    BY <2>1, TransitionTable DEF EscrowActions
<1>3. /\ hold' \in [Bookings -> HoldRow]
      /\ hold'[b].state \in {"RELEASED", "REFUNDED"}
      /\ hold'[b].amount = hold[b].amount
      /\ hold'[b].fee = hold[b].fee
      /\ hold'[b].partial = hold[b].partial
  BY <1>1, <1>2, HoldStep DEF HoldStates
<1>4. /\ ledger' \in [Bookings -> [Accounts -> Int]]
      /\ \A acc \in Accounts : ledger'[b][acc] = ledger[b][acc] + entries[acc]
  BY <1>1, LedgerStep
<1>5. NothingPaidOut(b) /\ ledger[b]["ESCROW_LIABILITY"] = Remaining(hold[b])
  BY <1>1, <1>2 DEF FundsAccounted, OpenStates
<1>6. /\ payouts' \in [Bookings -> Seq([cents : Nat, state : PayoutStates])]
      /\ \/ payouts'[b] = <<>> /\ share = 0
         \/ Len(payouts'[b]) = 1 /\ payouts'[b][1].cents = share
  BY <1>1, <1>5, PayoutStep DEF NothingPaidOut
<1>7. /\ hold[b].amount \in Nat /\ hold[b].fee \in Nat /\ hold[b].partial \in Nat
      /\ hold[b].partial <= hold[b].amount
  BY <1>1 DEF HoldRow, FundsAccounted
<1>8. /\ ledger'[b]["ESCROW_LIABILITY"] = 0
      /\ ledger'[b]["PLATFORM_REVENUE"] = hold[b].fee - reversed
      /\ ledger'[b]["ARTIST_PAYABLE"] = share
      /\ ledger'[b]["REFUNDS_ISSUED"] = (hold[b].amount - share) + reversed
  <2>1. /\ ledger'[b]["ESCROW_LIABILITY"] = Remaining(hold[b]) + -Remaining(hold[b])
        /\ ledger'[b]["PLATFORM_REVENUE"] = hold[b].fee + (0 - reversed)
        /\ ledger'[b]["ARTIST_PAYABLE"] = 0 + share
        /\ ledger'[b]["REFUNDS_ISSUED"] =
              hold[b].partial + ((Remaining(hold[b]) - share) + reversed)
    BY <1>4, <1>5 DEF NothingPaidOut, Accounts
  <2>2. Remaining(hold[b]) = hold[b].amount - hold[b].partial /\ reversed \in Nat
    BY <1>7 DEF Remaining
  <2>3. ledger'[b]["ESCROW_LIABILITY"] = 0
    BY <1>7, <2>1, <2>2
  <2>4. ledger'[b]["PLATFORM_REVENUE"] = hold[b].fee - reversed
    BY <1>7, <2>1, <2>2
  <2>5. ledger'[b]["ARTIST_PAYABLE"] = share
    BY <1>7, <2>1, <2>2
  <2>6. ledger'[b]["REFUNDS_ISSUED"] = (hold[b].amount - share) + reversed
    BY <1>7, <2>1, <2>2
  <2>7. QED
    BY <2>3, <2>4, <2>5, <2>6
<1>9. PaidOut(b)'
  <2>1. hold'[b].fee - ledger'[b]["PLATFORM_REVENUE"] = reversed
    BY <1>3, <1>7, <1>8
  <2>2. ledger'[b]["ARTIST_PAYABLE"] + ledger'[b]["REFUNDS_ISSUED"] = hold'[b].amount + reversed
    BY <1>3, <1>7, <1>8
  <2>3. ledger'[b]["ARTIST_PAYABLE"] \in 0 .. Remaining(hold'[b])
    BY <1>3, <1>7, <1>8 DEF Remaining
  <2>4. QED
    BY <1>3, <1>6, <1>8, <2>1, <2>2, <2>3 DEF PaidOut
<1>10. FundsAccounted(b)'
  BY <1>3, <1>7, <1>8, <1>9 DEF FundsAccounted, OpenStates
<1>11. QED
  BY <1>3, <1>4, <1>6, <1>10

\* What is left on an open hold, with its type.
LEMMA RemainingNat ==
    ASSUME IInv, NEW b \in Bookings
    PROVE  /\ Remaining(hold[b]) \in Nat
           /\ hold[b].fee \in Nat
           /\ hold[b].state = "HELD" => Remaining(hold[b]) = hold[b].amount
<1>1. hold[b] \in HoldRow /\ FundsAccounted(b)
  BY DEF IInv, TypeOK
<1>2. QED
  BY <1>1 DEF HoldRow, FundsAccounted, Remaining

LEMMA ReleaseInv ==
    ASSUME IInv, NEW b \in Bookings, NEW act \in {"RELEASE", "RESOLVE_RELEASE"},
           NEW type \in {"RELEASED", "RESOLVED_RELEASE"},
           MoveHold(b, act),
           WriteLedger(b, ReleaseEntries(Remaining(hold[b]))),
           Record(b, type, Remaining(hold[b])),
           QueuePayout(b, Remaining(hold[b])),
           Emit(b, PayoutQueued(Remaining(hold[b])) \o <<"escrow.released">>)
    PROVE  TypeOK' /\ FundsAccounted(b)'
<1> DEFINE rest == Remaining(hold[b])
           entries == ReleaseEntries(rest)
<1>1. TypeOK /\ rest \in Nat /\ hold[b].fee \in Nat
  BY RemainingNat DEF IInv
<1> HIDE DEF rest
<1>2. /\ entries \in [Accounts -> Int]
      /\ entries["ESCROW_LIABILITY"] = -rest
      /\ entries["PLATFORM_REVENUE"] = 0
      /\ entries["ARTIST_PAYABLE"] = rest
      /\ entries["REFUNDS_ISSUED"] = 0
  BY <1>1, ReleaseEntriesOf
<1>3. act \in EscrowActions \ {"PARTIAL_REFUND", "FREEZE"} /\ type \in EventTypes
  BY DEF EscrowActions, EventTypes
<1>4. WriteLedger(b, entries) /\ Record(b, type, rest) /\ QueuePayout(b, rest)
  BY DEF rest
<1> HIDE DEF entries
<1>5. /\ hold' \in [Bookings -> HoldRow]
      /\ ledger' \in [Bookings -> [Accounts -> Int]]
      /\ payouts' \in [Bookings -> Seq([cents : Nat, state : PayoutStates])]
      /\ FundsAccounted(b)'
  <2>1. /\ entries["ESCROW_LIABILITY"] = -Remaining(hold[b])
        /\ entries["PLATFORM_REVENUE"] = 0 - 0
        /\ entries["REFUNDS_ISSUED"] = (Remaining(hold[b]) - rest) + 0
    <3>1. rest = Remaining(hold[b])
      BY DEF rest
    <3>2. entries["ESCROW_LIABILITY"] = -Remaining(hold[b])
      BY <1>2, <3>1
    <3>3. entries["PLATFORM_REVENUE"] = 0 - 0
      BY <1>2
    <3>4. entries["REFUNDS_ISSUED"] = (Remaining(hold[b]) - rest) + 0
      BY <1>1, <1>2, <3>1
    <3>5. QED
      BY <3>2, <3>3, <3>4
  <2>2. rest <= Remaining(hold[b]) /\ 0 \in {0, hold[b].fee} /\ (0 # 0 => rest = 0)
    BY <1>1 DEF rest
  <2>3. QED
    BY <1>1, <1>2, <1>3, <1>4, <2>1, <2>2, SettleInv, Zenon
<1>6. trail' \in [Bookings -> Seq([type : EventTypes, cents : Nat])]
  BY <1>1, <1>3, <1>4, TrailStep
<1>7. outbox' \in [Bookings -> Seq(OutboxTypes)]
  <2>1. PayoutQueued(rest) \o <<"escrow.released">> \in Seq(OutboxTypes)
    BY <1>1, PayoutQueuedType DEF OutboxTypes
  <2>2. QED
    BY <1>1, <2>1, OutboxStep DEF rest
<1>8. QED
  BY <1>5, <1>6, <1>7 DEF TypeOK

\* The two refunds of everything left, on a HELD and on a DISPUTED hold.
LEMMA RefundAllInv ==
    ASSUME IInv, NEW b \in Bookings, NEW faultParty \in FaultParties,
           NEW act \in {"REFUND", "RESOLVE_REFUND"},
           NEW type \in {"REFUNDED", "RESOLVED_REFUND"},
           MoveHold(b, act),
           WriteLedger(b, RefundEntries(hold[b].fee, Remaining(hold[b]), faultParty, TRUE)),
           Record(b, type, Remaining(hold[b])),
           Emit(b, <<"escrow.refunded">>),
           payouts' = payouts
    PROVE  TypeOK' /\ FundsAccounted(b)'
<1> DEFINE rest == Remaining(hold[b])
           fee == hold[b].fee
           reversed == ReversedFee(fee, faultParty, TRUE)
           entries == RefundEntries(fee, rest, faultParty, TRUE)
<1>1. TypeOK /\ rest \in Nat /\ rest \in Int /\ fee \in Nat
  BY RemainingNat DEF IInv
<1>2. /\ act \in EscrowActions \ {"PARTIAL_REFUND", "FREEZE"}
      /\ type \in EventTypes
  BY DEF EscrowActions, EventTypes
<1>3. WriteLedger(b, entries) /\ Record(b, type, rest) /\ QueuePayout(b, 0)
  <2>1. QueuePayout(b, 0)
    BY DEF QueuePayout
  <2>2. QED
    BY <2>1
<1>4. rest = Remaining(hold[b]) /\ fee = hold[b].fee
  OBVIOUS
<1> HIDE DEF rest, fee
<1>5. /\ reversed \in {0, fee}
      /\ entries \in [Accounts -> Int]
      /\ entries["ESCROW_LIABILITY"] = -rest
      /\ entries["PLATFORM_REVENUE"] = 0 - reversed
      /\ entries["ARTIST_PAYABLE"] = 0
      /\ entries["REFUNDS_ISSUED"] = rest + reversed
  <2>1. reversed \in {0, fee}
    BY DEF ReversedFee
  <2> HIDE DEF reversed
  <2>2. entries = [NoEntries EXCEPT !["ESCROW_LIABILITY"] = -rest,
                                    !["PLATFORM_REVENUE"] = -reversed,
                                    !["REFUNDS_ISSUED"]   = rest + reversed]
    BY DEF RefundEntries, reversed
  <2> HIDE DEF entries
  <2>3. QED
    BY <1>1, <2>1, <2>2 DEF NoEntries, Accounts
<1> HIDE DEF reversed, entries
<1>6. /\ hold' \in [Bookings -> HoldRow]
      /\ ledger' \in [Bookings -> [Accounts -> Int]]
      /\ payouts' \in [Bookings -> Seq([cents : Nat, state : PayoutStates])]
      /\ FundsAccounted(b)'
  <2>1. reversed \in {0, hold[b].fee}
    BY <1>4, <1>5
  <2>2. entries["ESCROW_LIABILITY"] = -Remaining(hold[b])
    BY <1>4, <1>5
  <2>3. entries["REFUNDS_ISSUED"] = (Remaining(hold[b]) - 0) + reversed
    BY <1>1, <1>4, <1>5
  <2>4. 0 \in Nat /\ 0 <= Remaining(hold[b]) /\ (reversed # 0 => 0 = 0)
    BY <1>1, <1>4
  <2>5. QED
    BY <1>2, <1>3, <1>5, <2>1, <2>2, <2>3, <2>4, SettleInv, Zenon
<1>7. trail' \in [Bookings -> Seq([type : EventTypes, cents : Nat])]
  BY <1>1, <1>2, <1>3, TrailStep
<1>8. outbox' \in [Bookings -> Seq(OutboxTypes)]
  <2>1. <<"escrow.refunded">> \in Seq(OutboxTypes)
    BY DEF OutboxTypes
  <2>2. QED
    BY <1>1, <2>1, OutboxStep
<1>9. QED
  BY <1>6, <1>7, <1>8 DEF TypeOK

\* REFUND is legal on a HELD hold only, of which nothing was refunded before.
LEMMA RefundInv ==
    ASSUME IInv, NEW b \in Bookings, NEW faultParty \in FaultParties, Refund(b, faultParty)
    PROVE  TypeOK' /\ FundsAccounted(b)'
<1>1. MoveHold(b, "REFUND") /\ TypeOK /\ hold[b].state \in HoldStates \cup {"ABSENT"}
  BY DEF Refund, IInv, TypeOK, HoldRow
<1>2. hold[b].state = "HELD"
  BY <1>1, HoldStep, TransitionTable DEF EscrowActions
<1>3. Remaining(hold[b]) = hold[b].amount
  BY <1>2, RemainingNat
<1>4. QED
  BY <1>1, <1>3, RefundAllInv DEF Refund

LEMMA ResolveRefundInv ==
    ASSUME IInv, NEW b \in Bookings, ResolveRefund(b)
    PROVE  TypeOK' /\ FundsAccounted(b)'
  BY RefundAllInv DEF ResolveRefund, FaultParties

LEMMA ResolveSplitInv ==
    ASSUME IInv, NEW b \in Bookings, NEW artistCents \in Int, NEW clientCents \in Int,
           ResolveSplit(b, artistCents, clientCents)
    PROVE  TypeOK' /\ FundsAccounted(b)'
<1> DEFINE entries == SplitEntries(artistCents, clientCents)
           rest == Remaining(hold[b])
<1>1. TypeOK /\ rest \in Nat /\ hold[b].fee \in Nat
  BY RemainingNat DEF IInv
<1>2. /\ artistCents \in Nat /\ clientCents \in Nat
      /\ artistCents + clientCents = rest
  BY DEF ResolveSplit
<1>3. /\ MoveHold(b, "RESOLVE_SPLIT")
      /\ WriteLedger(b, entries)
      /\ Record(b, "RESOLVED_REFUND", clientCents)
      /\ QueuePayout(b, artistCents)
      /\ Emit(b, PayoutQueued(artistCents) \o <<"escrow.refunded">>)
  BY DEF ResolveSplit
<1>4. rest = Remaining(hold[b])
  OBVIOUS
<1> HIDE DEF rest
<1>5. /\ entries \in [Accounts -> Int]
      /\ entries["ESCROW_LIABILITY"] = -(artistCents + clientCents)
      /\ entries["PLATFORM_REVENUE"] = 0
      /\ entries["ARTIST_PAYABLE"] = artistCents
      /\ entries["REFUNDS_ISSUED"] = clientCents
  BY <1>2, SplitEntriesOf
<1> HIDE DEF entries
<1>6. /\ hold' \in [Bookings -> HoldRow]
      /\ ledger' \in [Bookings -> [Accounts -> Int]]
      /\ payouts' \in [Bookings -> Seq([cents : Nat, state : PayoutStates])]
      /\ FundsAccounted(b)'
  <2>1. "RESOLVE_SPLIT" \in EscrowActions \ {"PARTIAL_REFUND", "FREEZE"}
    BY DEF EscrowActions
  <2>2. entries["ESCROW_LIABILITY"] = -Remaining(hold[b])
    BY <1>2, <1>4, <1>5
  <2>3. entries["REFUNDS_ISSUED"] = (Remaining(hold[b]) - artistCents) + 0
    BY <1>1, <1>2, <1>4, <1>5
  <2>4. entries["PLATFORM_REVENUE"] = 0 - 0
    BY <1>5
  <2>5. artistCents <= Remaining(hold[b]) /\ 0 \in {0, hold[b].fee}
    BY <1>1, <1>2, <1>4
  <2>6. QED
    BY <1>2, <1>3, <1>5, <2>1, <2>2, <2>3, <2>4, <2>5, SettleInv
<1>7. trail' \in [Bookings -> Seq([type : EventTypes, cents : Nat])]
  BY <1>1, <1>2, <1>3, TrailStep DEF EventTypes
<1>8. outbox' \in [Bookings -> Seq(OutboxTypes)]
  <2>1. PayoutQueued(artistCents) \o <<"escrow.refunded">> \in Seq(OutboxTypes)
    BY <1>2, PayoutQueuedType DEF OutboxTypes
  <2>2. QED
    BY <1>1, <1>3, <2>1, OutboxStep
<1>9. QED
  BY <1>6, <1>7, <1>8 DEF TypeOK

\* A partial refund never reverses the fee, and stays within the hold.
LEMMA PartialRefundInv ==
    ASSUME IInv, NEW b \in Bookings, NEW refundCents \in Int, NEW faultParty \in FaultParties,
           PartialRefund(b, refundCents, faultParty)
    PROVE  TypeOK' /\ FundsAccounted(b)'
<1> DEFINE running == hold[b].partial + refundCents
           fee == hold[b].fee
           entries == RefundEntries(fee, refundCents, faultParty, FALSE)
<1>1. /\ TypeOK
      /\ FundsAccounted(b)
      /\ hold[b] \in HoldRow
  BY DEF IInv, TypeOK
<1>2. /\ hold[b].amount \in Nat /\ fee \in Nat /\ hold[b].partial \in Nat
      /\ hold[b].state \in HoldStates \cup {"ABSENT"}
  BY <1>1 DEF HoldRow
<1>3. /\ refundCents \in Nat
      /\ running \in Nat
      /\ running <= hold[b].amount
  BY <1>2 DEF PartialRefund
<1>4. /\ CanTransition(hold[b].state, "PARTIAL_REFUND")
      /\ hold' = [hold EXCEPT ![b].state = NextState(@, "PARTIAL_REFUND"),
                              ![b].partial = running]
      /\ WriteLedger(b, entries)
      /\ Record(b, "PARTIALLY_REFUNDED", refundCents)
      /\ Emit(b, <<"escrow.partially_refunded">>)
      /\ payouts' = payouts
  BY DEF PartialRefund
<1> HIDE DEF running
<1>5. /\ hold[b].state \in OpenStates
      /\ NextState(hold[b].state, "PARTIAL_REFUND") = "PARTIALLY_REFUNDED"
  BY <1>2, <1>4, TransitionTable DEF EscrowActions
<1>6. /\ hold' \in [Bookings -> HoldRow]
      /\ hold'[b].state = "PARTIALLY_REFUNDED"
      /\ hold'[b].amount = hold[b].amount
      /\ hold'[b].fee = hold[b].fee
      /\ hold'[b].partial = running
  BY <1>1, <1>2, <1>3, <1>4, <1>5 DEF TypeOK, HoldRow, HoldStates
<1>7. NothingPaidOut(b) /\ ledger[b]["ESCROW_LIABILITY"] = Remaining(hold[b])
  BY <1>1, <1>5 DEF FundsAccounted, OpenStates
<1>8. /\ ledger' \in [Bookings -> [Accounts -> Int]]
      /\ ledger'[b]["ESCROW_LIABILITY"] = hold[b].amount - running
      /\ ledger'[b]["PLATFORM_REVENUE"] = hold[b].fee
      /\ ledger'[b]["ARTIST_PAYABLE"] = 0
      /\ ledger'[b]["REFUNDS_ISSUED"] = running
  <2>1. entries = [NoEntries EXCEPT !["ESCROW_LIABILITY"] = -refundCents,
                                    !["PLATFORM_REVENUE"] = -0,
                                    !["REFUNDS_ISSUED"]   = refundCents + 0]
    BY DEF RefundEntries, ReversedFee
  <2> HIDE DEF entries
  <2>2. /\ entries \in [Accounts -> Int]
        /\ entries["ESCROW_LIABILITY"] = -refundCents
        /\ entries["PLATFORM_REVENUE"] = 0
        /\ entries["ARTIST_PAYABLE"] = 0
        /\ entries["REFUNDS_ISSUED"] = refundCents
    BY <1>3, <2>1 DEF NoEntries, Accounts
  <2>3. /\ ledger' \in [Bookings -> [Accounts -> Int]]
        /\ \A acc \in Accounts : ledger'[b][acc] = ledger[b][acc] + entries[acc]
    BY <1>1, <1>4, <2>2, LedgerStep
  <2>4. /\ ledger[b]["ESCROW_LIABILITY"] = hold[b].amount - hold[b].partial
        /\ ledger[b]["PLATFORM_REVENUE"] = hold[b].fee
        /\ ledger[b]["ARTIST_PAYABLE"] = 0
        /\ ledger[b]["REFUNDS_ISSUED"] = hold[b].partial
    BY <1>7 DEF NothingPaidOut, Remaining
  <2>5. /\ ledger'[b]["ESCROW_LIABILITY"] = (hold[b].amount - hold[b].partial) + -refundCents
        /\ ledger'[b]["PLATFORM_REVENUE"] = hold[b].fee + 0
        /\ ledger'[b]["ARTIST_PAYABLE"] = 0 + 0
        /\ ledger'[b]["REFUNDS_ISSUED"] = hold[b].partial + refundCents
    BY <2>2, <2>3, <2>4 DEF Accounts
  <2>6. ledger'[b]["ESCROW_LIABILITY"] = hold[b].amount - running
    BY <1>2, <1>3, <2>5 DEF running
  <2>7. /\ ledger'[b]["PLATFORM_REVENUE"] = hold[b].fee
        /\ ledger'[b]["ARTIST_PAYABLE"] = 0
        /\ ledger'[b]["REFUNDS_ISSUED"] = running
    BY <1>2, <1>3, <2>5 DEF running
  <2>8. QED
    BY <2>3, <2>6, <2>7
<1>9. trail' \in [Bookings -> Seq([type : EventTypes, cents : Nat])]
  BY <1>1, <1>3, <1>4, TrailStep DEF EventTypes
<1>10. outbox' \in [Bookings -> Seq(OutboxTypes)]
  <2>1. <<"escrow.partially_refunded">> \in Seq(OutboxTypes)
    BY DEF OutboxTypes
  <2>2. QED
    BY <1>1, <1>4, <2>1, OutboxStep
<1>11. TypeOK'
  BY <1>1, <1>4, <1>6, <1>8, <1>9, <1>10 DEF TypeOK
<1>12. FundsAccounted(b)'
  BY <1>3, <1>4, <1>6, <1>7, <1>8 DEF FundsAccounted, NothingPaidOut, OpenStates, Remaining
<1>13. QED
  BY <1>11, <1>12

\* A freeze moves no money; there is no payout row it could cancel.
LEMMA FreezeInv ==
    ASSUME IInv, NEW b \in Bookings, Freeze(b)
    PROVE  TypeOK' /\ FundsAccounted(b)'
<1>1. TypeOK /\ FundsAccounted(b) /\ hold[b] \in HoldRow
  BY DEF IInv, TypeOK
<1>2. /\ MoveHold(b, "FREEZE")
      /\ Record(b, "FROZEN", Remaining(hold[b]))
      /\ payouts' = [payouts EXCEPT ![b] = CancelQueued(payouts[b])]
      /\ Emit(b, <<"escrow.frozen">>)
      /\ ledger' = ledger
  BY DEF Freeze
<1>3. hold[b].state \in OpenStates /\ NextState(hold[b].state, "FREEZE") = "DISPUTED"
  <2>1. hold[b].state \in HoldStates \cup {"ABSENT"}
    BY <1>1 DEF HoldRow
  <2>2. QED
    BY <1>1, <1>2, <2>1, HoldStep, TransitionTable DEF EscrowActions
<1>4. /\ hold' \in [Bookings -> HoldRow]
      /\ hold'[b].state = "DISPUTED"
      /\ hold'[b].amount = hold[b].amount
      /\ hold'[b].fee = hold[b].fee
      /\ hold'[b].partial = hold[b].partial
  BY <1>1, <1>2, <1>3, HoldStep DEF HoldStates, EscrowActions
<1>5. NothingPaidOut(b) /\ ledger[b]["ESCROW_LIABILITY"] = Remaining(hold[b])
  BY <1>1, <1>3 DEF FundsAccounted, OpenStates
<1>6. payouts' = payouts
  <2>1. payouts[b] = <<>>
    BY <1>5 DEF NothingPaidOut
  <2>2. CancelQueued(<<>>) = <<>>
    BY DEF CancelQueued
  <2>3. QED
    BY <1>1, <1>2, <2>1, <2>2 DEF TypeOK
<1>7. trail' \in [Bookings -> Seq([type : EventTypes, cents : Nat])]
  BY <1>1, <1>2, RemainingNat, TrailStep DEF EventTypes
<1>8. outbox' \in [Bookings -> Seq(OutboxTypes)]
  <2>1. <<"escrow.frozen">> \in Seq(OutboxTypes)
    BY DEF OutboxTypes
  <2>2. QED
    BY <1>1, <1>2, <2>1, OutboxStep
<1>9. TypeOK'
  BY <1>1, <1>2, <1>4, <1>6, <1>7, <1>8 DEF TypeOK
<1>10. FundsAccounted(b)'
  BY <1>1, <1>2, <1>4, <1>5, <1>6
     DEF FundsAccounted, NothingPaidOut, OpenStates, Remaining
<1>11. QED
  BY <1>9, <1>10

LEMMA StepInv ==
    ASSUME IInv, NEW b \in Bookings, EscrowStep(b)
    PROVE  IInv'
<1>1. TypeOK' /\ FundsAccounted(b)'
  <2>1. CASE \E c \in Captures : Capture(b, c)
    BY <2>1, CaptureInv, CapturesAssumption
  <2>2. CASE Release(b)
    BY <2>2, ReleaseInv DEF Release
  <2>3. CASE \E fault \in FaultParties : Refund(b, fault)
    BY <2>3, RefundInv
  <2>4. CASE \E cents \in RequestCents, fault \in FaultParties :
                 PartialRefund(b, cents, fault)
    BY <2>4, PartialRefundInv, RequestCentsAssumption
  <2>5. CASE Freeze(b)
    BY <2>5, FreezeInv
  <2>6. CASE ResolveRelease(b)
    BY <2>6, ReleaseInv DEF ResolveRelease
  <2>7. CASE ResolveRefund(b)
    BY <2>7, ResolveRefundInv
  <2>8. CASE \E artist, client \in RequestCents : ResolveSplit(b, artist, client)
    BY <2>8, ResolveSplitInv, RequestCentsAssumption
  <2>9. QED
    BY <2>1, <2>2, <2>3, <2>4, <2>5, <2>6, <2>7, <2>8 DEF EscrowStep
<1>2. \A c \in Bookings \ {b} : FundsAccounted(c)'
  <2> SUFFICES ASSUME NEW c \in Bookings \ {b} PROVE FundsAccounted(c)'
    OBVIOUS
  <2>1. FundsAccounted(c) /\ TypeOK
    BY DEF IInv
  <2>2. hold'[c] = hold[c] /\ ledger'[c] = ledger[c] /\ payouts'[c] = payouts[c]
    BY <2>1, Frame
  <2>3. QED
    BY <2>1, <2>2 DEF FundsAccounted, NothingPaidOut, PaidOut
<1>3. QED
  BY <1>1, <1>2 DEF IInv

LEMMA StutterInv == IInv /\ UNCHANGED escrowVars => IInv'
  BY DEF IInv, TypeOK, FundsAccounted, NothingPaidOut, PaidOut, escrowVars

-----------------------------------------------------------------------------
(***************************************************************************)
(* The components that extend Escrow call its operations with amounts of   *)
(* their own: what is shown of an operation is shown for any amounts.      *)
(***************************************************************************)

\* An operation on a hold, called by whomever, with any amounts.
Operation(b) ==
    \/ EscrowStep(b)
    \/ \E amount, fee \in Nat : Capture(b, [amount |-> amount, fee |-> fee])
    \/ \E cents \in Int, fault \in FaultParties : PartialRefund(b, cents, fault)
    \/ \E artist, client \in Int : ResolveSplit(b, artist, client)

\* The operation changes nothing of the other bookings.
LEMMA OperationFrame ==
    ASSUME TypeOK, NEW b \in Bookings, Operation(b), NEW c \in Bookings, c # b
    PROVE  /\ hold'[c] = hold[c]
           /\ ledger'[c] = ledger[c]
           /\ trail'[c] = trail[c]
           /\ payouts'[c] = payouts[c]
<1>1. CASE EscrowStep(b)
  BY <1>1, Frame
<1>2. CASE \E cents \in Int, fault \in FaultParties : PartialRefund(b, cents, fault)
  BY <1>2 DEF TypeOK, PartialRefund, WriteLedger, Record
<1>3. CASE \E amount, fee \in Nat : Capture(b, [amount |-> amount, fee |-> fee])
  BY <1>3 DEF TypeOK, Capture, WriteLedger, Record
<1>4. CASE \E artist, client \in Int : ResolveSplit(b, artist, client)
  BY <1>4 DEF TypeOK, ResolveSplit, MoveHold, WriteLedger, Record, QueuePayout
<1>5. QED
  BY <1>1, <1>2, <1>3, <1>4 DEF Operation

\* Every operation keeps the inductive invariant of Escrow.
LEMMA OperationInv ==
    ASSUME IInv, NEW b \in Bookings, Operation(b)
    PROVE  IInv'
<1>1. CASE EscrowStep(b)
  BY <1>1, StepInv
<1>2. CASE ~EscrowStep(b)
  <2>1. TypeOK' /\ FundsAccounted(b)'
    <3>1. CASE \E cents \in Int, fault \in FaultParties : PartialRefund(b, cents, fault)
      BY <3>1, PartialRefundInv
    <3>2. CASE \E amount, fee \in Nat : Capture(b, [amount |-> amount, fee |-> fee])
      BY <3>2, CaptureInv
    <3>3. CASE \E artist, client \in Int : ResolveSplit(b, artist, client)
      BY <3>3, ResolveSplitInv
    <3>4. QED
      BY <1>2, <3>1, <3>2, <3>3 DEF Operation
  <2>2. ASSUME NEW c \in Bookings, c # b
        PROVE  FundsAccounted(c)'
    <3>1. FundsAccounted(c) /\ TypeOK
      BY DEF IInv
    <3>2. hold'[c] = hold[c] /\ ledger'[c] = ledger[c] /\ payouts'[c] = payouts[c]
      BY <2>2, <3>1, OperationFrame
    <3>3. QED
      BY <3>1, <3>2 DEF FundsAccounted, NothingPaidOut, PaidOut
  <2>3. QED
    BY <2>1, <2>2 DEF IInv
<1>3. QED
  BY <1>1, <1>2

\* The outbox is the platform's: checkout announces intents and failed payments in it.
Announcement(b) ==
    /\ \E type \in {"payments.intent.created", "payments.failed"} : Emit(b, <<type>>)
    /\ UNCHANGED <<hold, ledger, trail, payouts>>

LEMMA AnnouncementInv ==
    ASSUME IInv, NEW b \in Bookings, Announcement(b)
    PROVE  IInv'
<1>1. TypeOK
  BY DEF IInv
<1>2. outbox' \in [Bookings -> Seq(OutboxTypes)]
  <2>1. PICK type \in {"payments.intent.created", "payments.failed"} : Emit(b, <<type>>)
    BY DEF Announcement
  <2>2. <<type>> \in Seq(OutboxTypes)
    BY DEF OutboxTypes
  <2>3. QED
    BY <1>1, <2>1, <2>2, OutboxStep
<1>3. QED
  BY <1>2 DEF Announcement, IInv, TypeOK, FundsAccounted, NothingPaidOut, PaidOut

\* The escrow component, whoever calls it.
OperationsNext == \E b \in Bookings : Operation(b) \/ Announcement(b)

OperationsSpec == Init /\ [][OperationsNext]_escrowVars

\* Its own specification is one of these.
LEMMA OwnCalls == Spec => OperationsSpec
<1>1. [Next]_escrowVars => [OperationsNext]_escrowVars
  BY DEF Next, OperationsNext, Operation
<1>2. QED
  BY <1>1, PTL DEF Spec, OperationsSpec

LEMMA AlwaysAccounted == OperationsSpec => []IInv
<1>1. Init => IInv
  BY InitInv
<1>2. IInv /\ [OperationsNext]_escrowVars => IInv'
  BY OperationInv, AnnouncementInv, StutterInv DEF OperationsNext
<1>3. QED
  BY <1>1, <1>2, PTL DEF OperationsSpec

-----------------------------------------------------------------------------

\* Every cent of every booking is accounted for in every reachable state.
THEOREM FundsAlwaysAccounted == Spec => []IInv
<1>1. QED
  BY OwnCalls, AlwaysAccounted, PTL

-----------------------------------------------------------------------------

\* What the account of every cent says of a booking.
LEMMA Accounted ==
    IInv => /\ TypeOK
            /\ LiabilityBacksHolds
            /\ FeeReturnedOnlyWithWhole
            /\ PayoutBacked
            /\ PayoutOnlyWhenSettled
<1> SUFFICES ASSUME IInv
             PROVE  /\ TypeOK
                    /\ LiabilityBacksHolds
                    /\ FeeReturnedOnlyWithWhole
                    /\ PayoutBacked
                    /\ PayoutOnlyWhenSettled
  OBVIOUS
<1>1. TypeOK /\ LiabilityBacksHolds
  BY DEF IInv, FundsAccounted, LiabilityBacksHolds
<1>2. FeeReturnedOnlyWithWhole
  <2> SUFFICES ASSUME NEW b \in Bookings
               PROVE  \/ ledger[b]["PLATFORM_REVENUE"] = hold[b].fee
                      \/ /\ ledger[b]["PLATFORM_REVENUE"] = 0
                         /\ ledger[b]["ARTIST_PAYABLE"] = 0
                         /\ ledger[b]["REFUNDS_ISSUED"] = hold[b].amount + hold[b].fee
    BY DEF FeeReturnedOnlyWithWhole
  <2>1. /\ FundsAccounted(b)
        /\ hold[b] \in HoldRow
        /\ \A acc \in Accounts : ledger[b][acc] \in Int
    BY DEF IInv, TypeOK
  <2>2. CASE NothingPaidOut(b)
    BY <2>2 DEF NothingPaidOut
  <2>3. CASE PaidOut(b)
    <3>1. /\ hold[b].amount \in Nat /\ hold[b].fee \in Nat
          /\ ledger[b]["PLATFORM_REVENUE"] \in Int
          /\ ledger[b]["REFUNDS_ISSUED"] \in Int
      BY <2>1 DEF HoldRow, Accounts
    <3>2. QED
      BY <2>3, <3>1 DEF PaidOut
  <2>4. QED
    BY <2>1, <2>2, <2>3 DEF FundsAccounted
<1>3. PayoutBacked
  <2> SUFFICES ASSUME NEW b \in Bookings
               PROVE  /\ Len(payouts[b]) <= 1
                      /\ ledger[b]["ARTIST_PAYABLE"] =
                            IF payouts[b] = <<>> THEN 0 ELSE payouts[b][1].cents
    BY DEF PayoutBacked
  <2>1. FundsAccounted(b)
    BY DEF IInv
  <2>2. CASE NothingPaidOut(b)
    BY <2>2 DEF NothingPaidOut
  <2>3. CASE PaidOut(b)
    <3>1. CASE payouts[b] = <<>> /\ ledger[b]["ARTIST_PAYABLE"] = 0
      BY <3>1
    <3>2. CASE Len(payouts[b]) = 1 /\ payouts[b][1].cents = ledger[b]["ARTIST_PAYABLE"]
      <4>1. payouts[b] # <<>>
        BY <3>2
      <4>2. QED
        BY <3>2, <4>1
    <3>3. QED
      BY <2>3, <3>1, <3>2 DEF PaidOut
  <2>4. QED
    BY <2>1, <2>2, <2>3 DEF FundsAccounted
<1>4. PayoutOnlyWhenSettled
  BY DEF IInv, FundsAccounted, NothingPaidOut, PayoutOnlyWhenSettled
<1>5. QED
  BY <1>1, <1>2, <1>3, <1>4

\* Types are preserved.
THEOREM TypeCorrect == Spec => []TypeOK
<1>1. QED
  BY Accounted, FundsAlwaysAccounted, PTL

\* The ledger's liability is what is left on the open holds (reconciliation B).
THEOREM LiabilityCorrect == Spec => []LiabilityBacksHolds
<1>1. QED
  BY Accounted, FundsAlwaysAccounted, PTL

\* The fee is kept whole, or given back with the whole payment (reconciliation C).
THEOREM FeeCorrect == Spec => []FeeReturnedOnlyWithWhole
<1>1. QED
  BY Accounted, FundsAlwaysAccounted, PTL

\* A booking is paid out at most once, for what the ledger owes its artist.
THEOREM PayoutCorrect == Spec => []PayoutBacked
<1>1. QED
  BY Accounted, FundsAlwaysAccounted, PTL

\* No hold that can still be frozen has a payout row.
THEOREM NothingToClawBack == Spec => []PayoutOnlyWhenSettled
<1>1. QED
  BY Accounted, FundsAlwaysAccounted, PTL

\* No operation touches a hold that is settled.
LEMMA SettledStays ==
    ASSUME IInv, OperationsNext, NEW b \in Bookings, hold[b].state \in {"RELEASED", "REFUNDED"}
    PROVE  hold'[b] = hold[b] /\ ledger'[b] = ledger[b] /\ trail'[b] = trail[b]
<1>1. PICK c \in Bookings : Operation(c) \/ Announcement(c)
  BY DEF OperationsNext
<1>2. TypeOK /\ hold[b] \in HoldRow
  BY DEF IInv, TypeOK
<1>3. CASE Operation(c) /\ c = b
  <2>1. \A act \in EscrowActions : ~CanTransition(hold[b].state, act)
    BY TransitionTable DEF OpenStates, HoldStates
  <2>2. hold[b] # NoHold
    BY DEF NoHold
  <2>3. QED
    BY <1>1, <1>3, <2>1, <2>2
       DEF Operation, EscrowStep, Capture, Release, Refund, PartialRefund, Freeze,
           ResolveRelease, ResolveRefund, ResolveSplit, MoveHold, EscrowActions
<1>4. CASE Operation(c) /\ c # b
  BY <1>2, <1>4, OperationFrame
<1>5. CASE Announcement(c)
  BY <1>5 DEF Announcement
<1>6. QED
  BY <1>1, <1>3, <1>4, <1>5

LEMMA SettledAlwaysStays == OperationsSpec => SettledForever
<1>1. IInv /\ [OperationsNext]_escrowVars =>
        [\A b \in Bookings :
            hold[b].state \in {"RELEASED", "REFUNDED"} =>
                /\ hold'[b] = hold[b]
                /\ ledger'[b] = ledger[b]
                /\ trail'[b] = trail[b]]_escrowVars
  BY SettledStays
<1>2. QED
  BY <1>1, AlwaysAccounted, PTL DEF OperationsSpec, SettledForever

\* A settled hold, its ledger and its audit trail are final.
THEOREM SettlementIsFinal == Spec => SettledForever
<1>1. QED
  BY OwnCalls, SettledAlwaysStays, PTL

-----------------------------------------------------------------------------
(***************************************************************************)
(* Escrow implements HeldFunds: every transaction is a step of HeldFunds   *)
(* on the money the ledger shows, or leaves that money alone.              *)
(***************************************************************************)

\* What the refinement mapping shows of the bookings a step leaves alone.
LEMMA BarFrame ==
    ASSUME TypeOK, NEW b \in Bookings, Operation(b), NEW c \in Bookings, c # b
    PROVE  /\ phaseBar'[c] = phaseBar[c]
           /\ potBar'[c] = potBar[c]
           /\ artistBar'[c] = artistBar[c]
           /\ clientBar'[c] = clientBar[c]
           /\ feeBar'[c] = feeBar[c]
  BY OperationFrame DEF phaseBar, potBar, artistBar, clientBar, feeBar

LEMMA InitRefines == Init => Funds!Init
  BY DEF Init, Funds!Init, phaseBar, potBar, artistBar, clientBar, feeBar, PhaseOf,
         NoHold, NoEntries, Accounts

\* A step on one booking changes the mapped state at that booking only.
LEMMA BarUpdate ==
    ASSUME TypeOK, NEW b \in Bookings, Operation(b)
    PROVE  /\ phaseBar' = [phaseBar EXCEPT ![b] = phaseBar'[b]]
           /\ potBar' = [potBar EXCEPT ![b] = potBar'[b]]
           /\ artistBar' = [artistBar EXCEPT ![b] = artistBar'[b]]
           /\ clientBar' = [clientBar EXCEPT ![b] = clientBar'[b]]
           /\ feeBar' = [feeBar EXCEPT ![b] = feeBar'[b]]
<1>1. \A c \in Bookings : c # b =>
        /\ phaseBar'[c] = phaseBar[c]
        /\ potBar'[c] = potBar[c]
        /\ artistBar'[c] = artistBar[c]
        /\ clientBar'[c] = clientBar[c]
        /\ feeBar'[c] = feeBar[c]
  BY BarFrame
<1>2. phaseBar' = [phaseBar EXCEPT ![b] = phaseBar'[b]]
  BY <1>1 DEF phaseBar
<1>3. potBar' = [potBar EXCEPT ![b] = potBar'[b]]
  BY <1>1 DEF potBar
<1>4. artistBar' = [artistBar EXCEPT ![b] = artistBar'[b]]
  BY <1>1 DEF artistBar
<1>5. clientBar' = [clientBar EXCEPT ![b] = clientBar'[b]]
  BY <1>1 DEF clientBar
<1>6. feeBar' = [feeBar EXCEPT ![b] = feeBar'[b]]
  BY <1>1 DEF feeBar
<1>7. QED
  BY <1>2, <1>3, <1>4, <1>5, <1>6

\* The mapped state of an open hold.
LEMMA OpenBar ==
    ASSUME IInv, NEW b \in Bookings, hold[b].state \in OpenStates
    PROVE  /\ potBar[b] = Remaining(hold[b])
           /\ artistBar[b] = 0
           /\ clientBar[b] = hold[b].partial
           /\ feeBar[b] = hold[b].fee
<1>1. FundsAccounted(b) /\ hold[b] \in HoldRow
  BY DEF IInv, TypeOK
<1>2. NothingPaidOut(b) /\ ledger[b]["ESCROW_LIABILITY"] = Remaining(hold[b])
  BY <1>1 DEF FundsAccounted, OpenStates
<1>3. QED
  BY <1>1, <1>2 DEF NothingPaidOut, HoldRow, potBar, artistBar, clientBar, feeBar

\* Pot and shares always add up to what was held.
LEMMA PotsAddUp ==
    ASSUME IInv, NEW b \in Bookings
    PROVE  potBar[b] + artistBar[b] + clientBar[b] = hold[b].amount
<1>1. /\ hold[b] \in HoldRow
      /\ FundsAccounted(b)
      /\ \A acc \in Accounts : ledger[b][acc] \in Int
  BY DEF IInv, TypeOK
<1>2. CASE hold[b].state \in OpenStates
  BY <1>1, <1>2, OpenBar DEF HoldRow, Remaining
<1>3. CASE hold[b].state \in {"RELEASED", "REFUNDED"}
  <2> DEFINE artist   == ledger[b]["ARTIST_PAYABLE"]
             revenue  == ledger[b]["PLATFORM_REVENUE"]
             refunded == ledger[b]["REFUNDS_ISSUED"]
  <2>1. /\ potBar[b] = 0
        /\ artistBar[b] = artist
        /\ clientBar[b] = refunded - (hold[b].fee - revenue)
    BY <1>1, <1>3 DEF FundsAccounted, OpenStates, potBar, artistBar, clientBar
  <2>2. /\ artist \in Int /\ revenue \in Int /\ refunded \in Int
        /\ hold[b].fee \in Int /\ hold[b].amount \in Int
        /\ artist + refunded = hold[b].amount + (hold[b].fee - revenue)
    BY <1>1, <1>3 DEF FundsAccounted, PaidOut, HoldRow, Accounts
  <2> HIDE DEF artist, revenue, refunded
  <2>3. QED
    BY <2>1, <2>2
<1>4. CASE hold[b].state = "ABSENT"
  BY <1>1, <1>4 DEF FundsAccounted, NothingPaidOut, NoHold, OpenStates,
                    potBar, artistBar, clientBar
<1>5. QED
  BY <1>1, <1>2, <1>3, <1>4 DEF HoldRow, HoldStates, OpenStates

\* A transaction that settles an open hold settles the booking's funds.
LEMMA SettleRefines ==
    ASSUME IInv, IInv', NEW b \in Bookings, Operation(b),
           hold[b].state \in OpenStates,
           hold'[b].state \in {"RELEASED", "REFUNDED"},
           hold'[b].amount = hold[b].amount,
           hold'[b].fee = hold[b].fee,
           hold'[b].partial = hold[b].partial,
           hold[b].state = "DISPUTED" \/ ledger'[b]["ARTIST_PAYABLE"] \in {0, Remaining(hold[b])}
    PROVE  Funds!Settle(b)
<1> DEFINE share == ledger'[b]["ARTIST_PAYABLE"]
<1>1. /\ potBar[b] = Remaining(hold[b])
      /\ artistBar[b] = 0
      /\ clientBar[b] = hold[b].partial
      /\ feeBar[b] = hold[b].fee
  BY OpenBar
<1>2. /\ hold[b].amount \in Nat /\ hold[b].fee \in Nat /\ hold[b].partial \in Nat
      /\ \A acc \in Accounts : ledger'[b][acc] \in Int
  BY DEF IInv, TypeOK, HoldRow
<1>3. PaidOut(b)' /\ ledger'[b]["ESCROW_LIABILITY"] = 0
  BY DEF IInv, FundsAccounted, OpenStates
<1>4. /\ phaseBar[b] \in {"open", "frozen"}
      /\ phaseBar[b] = "open" => hold[b].state # "DISPUTED"
      /\ phaseBar'[b] = "settled"
  BY DEF phaseBar, PhaseOf, OpenStates
<1>5. share \in 0 .. potBar[b] /\ (phaseBar[b] = "open" => share \in {0, potBar[b]})
  BY <1>1, <1>2, <1>3, <1>4 DEF PaidOut, Remaining
<1>6. potBar'[b] = 0 /\ artistBar'[b] = share
  BY <1>3 DEF potBar, artistBar
<1>7. clientBar'[b] = clientBar[b] + (potBar[b] - share)
  <2> DEFINE revenue == ledger'[b]["PLATFORM_REVENUE"]
             refunds == ledger'[b]["REFUNDS_ISSUED"]
  <2>1. clientBar'[b] = refunds - (hold[b].fee - revenue)
    BY DEF clientBar
  <2>2. /\ share \in Int /\ revenue \in Int /\ refunds \in Int
        /\ share + refunds = hold[b].amount + (hold[b].fee - revenue)
    BY <1>2, <1>3 DEF PaidOut, Accounts
  <2> HIDE DEF revenue, refunds, share
  <2>3. clientBar[b] + (potBar[b] - share) = hold[b].amount - share
    BY <1>1, <1>2, <2>2 DEF Remaining
  <2>4. QED
    BY <1>2, <2>1, <2>2, <2>3
<1>8. feeBar'[b] = feeBar[b] \/ (share = 0 /\ feeBar'[b] = 0)
  BY <1>1, <1>2, <1>3 DEF PaidOut, feeBar, Accounts
<1> HIDE DEF share
<1>9. /\ phaseBar' = [phaseBar EXCEPT ![b] = "settled"]
      /\ potBar' = [potBar EXCEPT ![b] = 0]
      /\ artistBar' = [artistBar EXCEPT ![b] = artistBar[b] + share]
      /\ clientBar' = [clientBar EXCEPT ![b] = clientBar[b] + (potBar[b] - share)]
      /\ feeBar' = [feeBar EXCEPT ![b] = feeBar'[b]]
  <2>1. artistBar'[b] = artistBar[b] + share
    BY <1>1, <1>2, <1>5, <1>6 DEF Remaining
  <2>2. TypeOK
    BY DEF IInv
  <2>3. QED
    BY <1>4, <1>6, <1>7, <2>1, <2>2, BarUpdate
<1>10. feeBar' = feeBar \/ (share = 0 /\ feeBar' = [feeBar EXCEPT ![b] = 0])
  BY <1>8, <1>9 DEF feeBar
<1>11. QED
  BY <1>4, <1>5, <1>9, <1>10 DEF Funds!Settle

\* A release gives the artist all that is left, a refund nothing.
LEMMA ReleasePays ==
    ASSUME IInv, NEW b \in Bookings, hold[b].state \in OpenStates,
           WriteLedger(b, ReleaseEntries(Remaining(hold[b])))
    PROVE  ledger'[b]["ARTIST_PAYABLE"] = Remaining(hold[b])
<1> DEFINE rest == Remaining(hold[b])
           entries == ReleaseEntries(rest)
<1>1. TypeOK /\ rest \in Nat
  BY RemainingNat DEF IInv
<1>2. ledger[b]["ARTIST_PAYABLE"] = 0
  BY DEF IInv, FundsAccounted, NothingPaidOut, OpenStates
<1> HIDE DEF rest
<1>3. entries \in [Accounts -> Int] /\ entries["ARTIST_PAYABLE"] = rest
  BY <1>1, ReleaseEntriesOf
<1>4. WriteLedger(b, entries)
  BY DEF rest
<1> HIDE DEF entries
<1>5. ledger'[b]["ARTIST_PAYABLE"] = 0 + rest
  BY <1>1, <1>2, <1>3, <1>4, LedgerStep DEF Accounts
<1>6. QED
  BY <1>1, <1>5 DEF rest

LEMMA RefundPaysNothing ==
    ASSUME IInv, NEW b \in Bookings, hold[b].state \in OpenStates, NEW faultParty,
           WriteLedger(b, RefundEntries(hold[b].fee, hold[b].amount, faultParty, TRUE))
    PROVE  ledger'[b]["ARTIST_PAYABLE"] = 0
<1>1. TypeOK /\ ledger[b]["ARTIST_PAYABLE"] = 0
  BY DEF IInv, FundsAccounted, NothingPaidOut, OpenStates
<1> DEFINE reversed == ReversedFee(hold[b].fee, faultParty, TRUE)
           entries == RefundEntries(hold[b].fee, hold[b].amount, faultParty, TRUE)
<1>2. hold[b].fee \in Nat /\ hold[b].amount \in Nat
  BY <1>1 DEF TypeOK, HoldRow
<1>3. reversed \in {0, hold[b].fee}
  BY DEF ReversedFee
<1> HIDE DEF reversed
<1>4. entries = [NoEntries EXCEPT !["ESCROW_LIABILITY"] = -hold[b].amount,
                                  !["PLATFORM_REVENUE"] = -reversed,
                                  !["REFUNDS_ISSUED"]   = hold[b].amount + reversed]
  BY DEF RefundEntries, reversed
<1> HIDE DEF entries
<1>5. entries["ARTIST_PAYABLE"] = 0 /\ entries \in [Accounts -> Int]
  BY <1>2, <1>3, <1>4 DEF NoEntries, Accounts
<1>6. WriteLedger(b, entries)
  BY DEF entries
<1>7. ledger'[b]["ARTIST_PAYABLE"] = 0 + 0
  BY <1>1, <1>5, <1>6, LedgerStep DEF Accounts
<1>8. QED
  BY <1>7

\* The hold after a settling transaction.
LEMMA SettledHold ==
    ASSUME IInv, NEW b \in Bookings, NEW act \in EscrowActions \ {"PARTIAL_REFUND", "FREEZE"},
           MoveHold(b, act)
    PROVE  /\ hold[b].state \in OpenStates
           /\ act \in FrozenBypassActions => hold[b].state = "DISPUTED"
           /\ hold'[b].state \in {"RELEASED", "REFUNDED"}
           /\ hold'[b].amount = hold[b].amount
           /\ hold'[b].fee = hold[b].fee
           /\ hold'[b].partial = hold[b].partial
<1>1. TypeOK /\ hold[b].state \in HoldStates \cup {"ABSENT"} /\ act \in EscrowActions
  BY DEF IInv, TypeOK, HoldRow
<1>2. /\ hold[b].state \in OpenStates
      /\ act \in FrozenBypassActions => hold[b].state = "DISPUTED"
      /\ NextState(hold[b].state, act) \in {"RELEASED", "REFUNDED"}
  BY <1>1, HoldStep, TransitionTable DEF EscrowActions
<1>3. QED
  BY <1>1, <1>2, HoldStep DEF HoldStates

\* A payment opens the booking's funds.
LEMMA CaptureRefines ==
    ASSUME IInv, IInv', NEW b \in Bookings, NEW c, c.amount \in Nat, c.fee \in Nat,
           Capture(b, c), Operation(b)
    PROVE  /\ phaseBar[b] = "none"
           /\ phaseBar' = [phaseBar EXCEPT ![b] = "open"]
           /\ potBar' = [potBar EXCEPT ![b] = c.amount]
           /\ feeBar' = [feeBar EXCEPT ![b] = c.fee]
           /\ artistBar' = artistBar
           /\ clientBar' = clientBar
<1>1. c.amount \in Nat /\ c.fee \in Nat
  OBVIOUS
<1>2. /\ TypeOK /\ hold[b] = NoHold
      /\ hold'[b] = [state |-> "HELD", amount |-> c.amount, fee |-> c.fee, partial |-> 0]
  BY DEF IInv, TypeOK, Capture
<1>3. /\ NothingPaidOut(b) /\ NothingPaidOut(b)'
      /\ ledger'[b]["ESCROW_LIABILITY"] = c.amount
  BY <1>1, <1>2 DEF IInv, FundsAccounted, NoHold, OpenStates, Remaining
<1>4. phaseBar[b] = "none" /\ phaseBar'[b] = "open"
  BY <1>2 DEF phaseBar, PhaseOf, NoHold
<1>5. potBar'[b] = c.amount /\ feeBar'[b] = c.fee
  BY <1>2, <1>3 DEF potBar, feeBar, NothingPaidOut
<1>6. artistBar'[b] = artistBar[b] /\ clientBar'[b] = clientBar[b]
  BY <1>1, <1>2, <1>3 DEF artistBar, clientBar, NothingPaidOut, NoHold
<1>7. /\ phaseBar' = [phaseBar EXCEPT ![b] = "open"]
      /\ potBar' = [potBar EXCEPT ![b] = c.amount]
      /\ feeBar' = [feeBar EXCEPT ![b] = c.fee]
      /\ artistBar' = artistBar
      /\ clientBar' = clientBar
  BY <1>2, <1>4, <1>5, <1>6, BarUpdate DEF artistBar, clientBar
<1>8. QED
  BY <1>4, <1>7

LEMMA PartialRefundRefines ==
    ASSUME IInv, IInv', NEW b \in Bookings, Operation(b), NEW cents \in Int,
           NEW fault \in FaultParties, PartialRefund(b, cents, fault)
    PROVE  Funds!GiveBack(b)
<1>1. TypeOK /\ hold[b] \in HoldRow
  BY DEF IInv, TypeOK
<1>2. /\ cents > 0
      /\ hold[b].partial + cents <= hold[b].amount
      /\ CanTransition(hold[b].state, "PARTIAL_REFUND")
      /\ hold' = [hold EXCEPT ![b].state = NextState(@, "PARTIAL_REFUND"),
                              ![b].partial = hold[b].partial + cents]
  BY DEF PartialRefund
<1>3. /\ hold[b].state \in {"HELD", "PARTIALLY_REFUNDED"}
      /\ NextState(hold[b].state, "PARTIAL_REFUND") = "PARTIALLY_REFUNDED"
  BY <1>1, <1>2, TransitionTable DEF EscrowActions, HoldRow, OpenStates, FrozenBypassActions
<1>4. /\ hold'[b].state = "PARTIALLY_REFUNDED"
      /\ hold'[b].amount = hold[b].amount
      /\ hold'[b].fee = hold[b].fee
      /\ hold'[b].partial = hold[b].partial + cents
  BY <1>1, <1>2, <1>3 DEF TypeOK, HoldRow
<1>5. /\ potBar[b] = hold[b].amount - hold[b].partial
      /\ artistBar[b] = 0
      /\ clientBar[b] = hold[b].partial
      /\ feeBar[b] = hold[b].fee
  BY <1>3, OpenBar DEF OpenStates, Remaining
<1>6. hold[b].amount \in Nat /\ hold[b].fee \in Nat /\ hold[b].partial \in Nat
  BY <1>1 DEF HoldRow
<1>7. NothingPaidOut(b)' /\ ledger'[b]["ESCROW_LIABILITY"] = Remaining(hold'[b])
  BY <1>4 DEF IInv, FundsAccounted, OpenStates
<1>8. /\ potBar'[b] = potBar[b] - cents
      /\ artistBar'[b] = artistBar[b]
      /\ feeBar'[b] = feeBar[b]
  <2>1. potBar'[b] = hold[b].amount - (hold[b].partial + cents)
    BY <1>4, <1>7 DEF potBar, Remaining
  <2>2. potBar'[b] = potBar[b] - cents
    BY <1>5, <1>6, <2>1
  <2>3. artistBar'[b] = artistBar[b]
    BY <1>5, <1>7 DEF NothingPaidOut, artistBar
  <2>4. feeBar'[b] = feeBar[b]
    BY <1>4, <1>5, <1>7 DEF NothingPaidOut, feeBar
  <2>5. QED
    BY <2>2, <2>3, <2>4
<1>9. clientBar'[b] = clientBar[b] + cents
  <2>1. clientBar'[b] = (hold[b].partial + cents) - (hold[b].fee - hold[b].fee)
    BY <1>4, <1>7 DEF NothingPaidOut, clientBar
  <2>2. QED
    BY <1>5, <1>6, <2>1
<1>10. phaseBar[b] = "open" /\ phaseBar'[b] = phaseBar[b]
  BY <1>3, <1>4 DEF phaseBar, PhaseOf
<1>11. /\ potBar' = [potBar EXCEPT ![b] = potBar[b] - cents]
       /\ clientBar' = [clientBar EXCEPT ![b] = clientBar[b] + cents]
       /\ phaseBar' = phaseBar
       /\ artistBar' = artistBar
       /\ feeBar' = feeBar
  <2>1. /\ phaseBar' = [phaseBar EXCEPT ![b] = phaseBar'[b]]
        /\ potBar' = [potBar EXCEPT ![b] = potBar'[b]]
        /\ artistBar' = [artistBar EXCEPT ![b] = artistBar'[b]]
        /\ clientBar' = [clientBar EXCEPT ![b] = clientBar'[b]]
        /\ feeBar' = [feeBar EXCEPT ![b] = feeBar'[b]]
    BY <1>1, BarUpdate
  <2>2. phaseBar' = phaseBar
    BY <1>10, <2>1 DEF phaseBar
  <2>3. artistBar' = artistBar
    BY <1>8, <2>1 DEF artistBar
  <2>4. feeBar' = feeBar
    BY <1>8, <2>1 DEF feeBar
  <2>5. /\ potBar' = [potBar EXCEPT ![b] = potBar[b] - cents]
        /\ clientBar' = [clientBar EXCEPT ![b] = clientBar[b] + cents]
    BY <1>8, <1>9, <2>1
  <2>6. QED
    BY <2>2, <2>3, <2>4, <2>5
<1>12. cents \in 1 .. potBar[b]
  BY <1>2, <1>5, <1>6
<1>13. QED
  BY <1>10, <1>11, <1>12 DEF Funds!GiveBack

LEMMA FreezeRefines ==
    ASSUME IInv, IInv', NEW b \in Bookings, Operation(b), Freeze(b)
    PROVE  Funds!Dispute(b)
<1>1. TypeOK /\ hold[b].state \in HoldStates \cup {"ABSENT"} /\ MoveHold(b, "FREEZE")
  BY DEF IInv, TypeOK, HoldRow, Freeze
<1>2. /\ hold[b].state \in {"HELD", "PARTIALLY_REFUNDED"}
      /\ NextState(hold[b].state, "FREEZE") = "DISPUTED"
  BY <1>1, HoldStep, TransitionTable DEF EscrowActions, FrozenBypassActions, OpenStates
<1>3. hold'[b].state = "DISPUTED" /\ hold'[b].fee = hold[b].fee
  BY <1>1, <1>2, HoldStep DEF HoldStates, EscrowActions
<1>4. ledger' = ledger
  BY DEF Freeze
<1>5. phaseBar[b] = "open" /\ phaseBar'[b] = "frozen"
  BY <1>2, <1>3 DEF phaseBar, PhaseOf
<1>6. /\ potBar'[b] = potBar[b]
      /\ artistBar'[b] = artistBar[b]
      /\ clientBar'[b] = clientBar[b]
      /\ feeBar'[b] = feeBar[b]
  BY <1>3, <1>4 DEF potBar, artistBar, clientBar, feeBar
<1>7. /\ phaseBar' = [phaseBar EXCEPT ![b] = "frozen"]
      /\ potBar' = potBar
      /\ artistBar' = artistBar
      /\ clientBar' = clientBar
      /\ feeBar' = feeBar
  BY <1>1, <1>5, <1>6, BarUpdate DEF potBar, artistBar, clientBar, feeBar
<1>8. QED
  BY <1>5, <1>7 DEF Funds!Dispute

\* A step that settles a hold by one of the settling actions of the table.
LEMMA SettlingStepRefines ==
    ASSUME IInv, IInv', NEW b \in Bookings, Operation(b),
           NEW act \in EscrowActions \ {"PARTIAL_REFUND", "FREEZE"}, MoveHold(b, act),
           \/ act \in FrozenBypassActions
           \/ WriteLedger(b, ReleaseEntries(Remaining(hold[b])))
           \/ \E faultParty \in FaultParties :
                 WriteLedger(b, RefundEntries(hold[b].fee, hold[b].amount, faultParty, TRUE))
    PROVE  Funds!Settle(b)
<1>1. /\ hold[b].state \in OpenStates
      /\ act \in FrozenBypassActions => hold[b].state = "DISPUTED"
      /\ hold'[b].state \in {"RELEASED", "REFUNDED"}
      /\ hold'[b].amount = hold[b].amount
      /\ hold'[b].fee = hold[b].fee
      /\ hold'[b].partial = hold[b].partial
  BY SettledHold
<1>2. hold[b].state = "DISPUTED" \/ ledger'[b]["ARTIST_PAYABLE"] \in {0, Remaining(hold[b])}
  <2>1. CASE act \in FrozenBypassActions
    BY <1>1, <2>1
  <2>2. CASE WriteLedger(b, ReleaseEntries(Remaining(hold[b])))
    BY <1>1, <2>2, ReleasePays
  <2>3. ASSUME NEW faultParty \in FaultParties,
               WriteLedger(b, RefundEntries(hold[b].fee, hold[b].amount, faultParty, TRUE))
        PROVE  ledger'[b]["ARTIST_PAYABLE"] = 0
    BY <1>1, <2>3, RefundPaysNothing, Zenon
  <2>4. QED
    BY <2>1, <2>2, <2>3
<1>3. QED
  BY <1>1, <1>2, SettleRefines

\* The operations on a hold that is there.
LaterOperation(b) ==
    \/ Release(b)
    \/ \E fault \in FaultParties : Refund(b, fault)
    \/ \E cents \in Int, fault \in FaultParties : PartialRefund(b, cents, fault)
    \/ Freeze(b)
    \/ ResolveRelease(b)
    \/ ResolveRefund(b)
    \/ \E artist, client \in Int : ResolveSplit(b, artist, client)

\* Each of them is a step of HeldFunds, whatever payments there are.
LEMMA LaterRefines ==
    ASSUME IInv, IInv', NEW b \in Bookings, Operation(b), LaterOperation(b)
    PROVE  Funds!GiveBack(b) \/ Funds!Dispute(b) \/ Funds!Settle(b)
<1>0. {"RELEASE", "REFUND", "RESOLVE_RELEASE", "RESOLVE_REFUND", "RESOLVE_SPLIT"}
         \subseteq EscrowActions \ {"PARTIAL_REFUND", "FREEZE"}
  BY DEF EscrowActions
<1>2. CASE Release(b)
  <2>1. MoveHold(b, "RELEASE") /\ WriteLedger(b, ReleaseEntries(Remaining(hold[b])))
    BY <1>2 DEF Release
  <2>2. QED
    BY <1>0, <2>1, SettlingStepRefines, Zenon
<1>3. ASSUME NEW fault \in FaultParties, Refund(b, fault) PROVE Funds!Settle(b)
  <2>1. /\ MoveHold(b, "REFUND")
        /\ WriteLedger(b, RefundEntries(hold[b].fee, hold[b].amount, fault, TRUE))
    BY <1>3 DEF Refund
  <2>2. QED
    BY <1>0, <2>1, SettlingStepRefines, Zenon
<1>4. ASSUME NEW cents \in Int, NEW fault \in FaultParties,
             PartialRefund(b, cents, fault)
      PROVE  Funds!GiveBack(b)
  BY <1>4, PartialRefundRefines
<1>5. CASE Freeze(b)
  BY <1>5, FreezeRefines
<1>6. CASE ResolveRelease(b)
  <2>1. MoveHold(b, "RESOLVE_RELEASE")
    BY <1>6 DEF ResolveRelease
  <2>2. QED
    BY <1>0, <2>1, SettlingStepRefines, Zenon DEF FrozenBypassActions
<1>7. CASE ResolveRefund(b)
  <2>1. MoveHold(b, "RESOLVE_REFUND")
    BY <1>7 DEF ResolveRefund
  <2>2. QED
    BY <1>0, <2>1, SettlingStepRefines, Zenon DEF FrozenBypassActions
<1>8. ASSUME NEW artistCents, NEW clientCents, ResolveSplit(b, artistCents, clientCents)
      PROVE  Funds!Settle(b)
  <2>1. MoveHold(b, "RESOLVE_SPLIT")
    BY <1>8 DEF ResolveSplit
  <2>2. QED
    BY <1>0, <2>1, SettlingStepRefines, Zenon DEF FrozenBypassActions
<1>9. QED
  BY <1>2, <1>3, <1>4, <1>5, <1>6, <1>7, <1>8, Zenon DEF LaterOperation

\* A step of the component, whatever the amounts it is called with.
LEMMA StepRefines ==
    ASSUME IInv, IInv', NEW b \in Bookings, EscrowStep(b) \/ LaterOperation(b)
    PROVE  Funds!Next
<1>1. Operation(b)
  BY DEF Operation, EscrowStep, LaterOperation
<1>2. ASSUME NEW c \in Captures, Capture(b, c) PROVE Funds!Pay(b)
  BY <1>1, <1>2, CaptureRefines, CapturesAssumption DEF Funds!Pay
<1>3. (\E c \in Captures : Capture(b, c)) \/ LaterOperation(b)
  BY RequestCentsAssumption DEF EscrowStep, LaterOperation
<1>4. QED
  BY <1>1, <1>2, <1>3, LaterRefines, Zenon DEF Funds!Next

LEMMA BarStutter ==
    ASSUME UNCHANGED <<hold, ledger>>
    PROVE  UNCHANGED <<phaseBar, potBar, artistBar, clientBar, feeBar>>
  BY DEF phaseBar, potBar, artistBar, clientBar, feeBar

\* The escrow component implements HeldFunds: at every step the money of a booking
\* moves as the abstract pot, shares and fee do, for any payments and any requests.
THEOREM Implementation == Spec => ImplementsHeldFunds
<1>1. Init => Funds!Init
  BY InitRefines
<1>2. IInv /\ IInv' /\ [Next]_escrowVars => [Funds!Next]_(Funds!vars)
  <2> SUFFICES ASSUME IInv, IInv', [Next]_escrowVars
               PROVE  [Funds!Next]_(Funds!vars)
    OBVIOUS
  <2>1. ASSUME NEW b \in Bookings, EscrowStep(b) PROVE Funds!Next
    BY <2>1, StepRefines
  <2>2. CASE UNCHANGED escrowVars
    BY <2>2, BarStutter DEF escrowVars, Funds!vars
  <2>3. QED
    BY <2>1, <2>2 DEF Next
<1>3. QED
  BY <1>1, <1>2, FundsAlwaysAccounted, PTL DEF Spec, ImplementsHeldFunds, Funds!Spec

\* HeldFunds for payments of any amounts, as the callers of the component have them.
AnyFunds == INSTANCE HeldFunds WITH Payments <- [amount : Nat, fee : Nat],
                                    phase <- phaseBar, pot <- potBar, artist <- artistBar,
                                    client <- clientBar, fee <- feeBar

LEMMA CallersImplement == OperationsSpec => AnyFunds!Spec
<1>1. Init => AnyFunds!Init
  BY InitRefines DEF Funds!Init, AnyFunds!Init
<1>2. IInv /\ IInv' /\ [OperationsNext]_escrowVars => [AnyFunds!Next]_(AnyFunds!vars)
  <2> SUFFICES ASSUME IInv, IInv', [OperationsNext]_escrowVars
               PROVE  [AnyFunds!Next]_(AnyFunds!vars)
    OBVIOUS
  <2>1. ASSUME NEW b \in Bookings, Operation(b) PROVE AnyFunds!Next
    <3>1. ASSUME NEW c \in [amount : Nat, fee : Nat], Capture(b, c) PROVE AnyFunds!Pay(b)
      BY <2>1, <3>1, CaptureRefines DEF AnyFunds!Pay
    <3>2. (\E c \in [amount : Nat, fee : Nat] : Capture(b, c)) \/ LaterOperation(b)
      BY <2>1, CapturesAssumption, RequestCentsAssumption DEF Operation, EscrowStep, LaterOperation
    <3>3. CASE LaterOperation(b)
      <4>1. Funds!GiveBack(b) \/ Funds!Dispute(b) \/ Funds!Settle(b)
        BY <2>1, <3>3, LaterRefines
      <4>2. AnyFunds!GiveBack(b) \/ AnyFunds!Dispute(b) \/ AnyFunds!Settle(b)
        BY <4>1, Zenon DEF Funds!GiveBack, Funds!Dispute, Funds!Settle,
                           AnyFunds!GiveBack, AnyFunds!Dispute, AnyFunds!Settle
      <4>3. QED
        BY <4>2, Zenon DEF AnyFunds!Next
    <3>4. QED
      BY <3>1, <3>2, <3>3, Zenon DEF AnyFunds!Next
  <2>2. CASE UNCHANGED escrowVars \/ \E b \in Bookings : Announcement(b)
    BY <2>2, BarStutter DEF escrowVars, Announcement, AnyFunds!vars
  <2>3. QED
    BY <2>1, <2>2 DEF OperationsNext
<1>3. QED
  BY <1>1, <1>2, AlwaysAccounted, PTL DEF OperationsSpec, AnyFunds!Spec

-----------------------------------------------------------------------------
(***************************************************************************)
(* What the rest of the platform hears of a hold: each outcome and each    *)
(* payout is announced exactly once.                                       *)
(***************************************************************************)

Settling == {"escrow.released", "escrow.refunded"}
Queueing == {"escrow.payout.queued"}

\* Where in a list of outbox rows one of these types stands, and how often.
Places(rows, types) == {i \in DOMAIN rows : rows[i] \in types}
Count(rows, types) == Cardinality(Places(rows, types))

\* One row more is one place more if it is of the types, and none otherwise.
LEMMA CountAppend ==
    ASSUME NEW rows \in Seq(OutboxTypes), NEW type \in OutboxTypes, NEW types
    PROVE  /\ Count(rows, types) \in Nat
           /\ Count(Append(rows, type), types) =
                 Count(rows, types) + IF type \in types THEN 1 ELSE 0
<1> DEFINE n == Len(rows)
           more == Append(rows, type)
<1>1. n \in Nat /\ DOMAIN rows = 1 .. n
  OBVIOUS
<1>2. /\ DOMAIN more = 1 .. (n + 1)
      /\ more[n + 1] = type
      /\ \A i \in 1 .. n : more[i] = rows[i]
  OBVIOUS
<1> HIDE DEF n, more
<1>3. IsFiniteSet(Places(rows, types))
  <2>1. IsFiniteSet(1 .. n)
    BY <1>1, FS_Interval
  <2>2. Places(rows, types) \in SUBSET (1 .. n)
    BY <1>1 DEF Places
  <2>3. QED
    BY <2>1, <2>2, FS_Subset
<1>4. Count(rows, types) \in Nat
  BY <1>3, FS_CardinalityType DEF Count
<1>5. n + 1 \notin Places(rows, types)
  BY <1>1 DEF Places
<1>6. Places(more, types) =
          IF type \in types THEN Places(rows, types) \cup {n + 1} ELSE Places(rows, types)
  BY <1>1, <1>2 DEF Places
<1>7. Cardinality(Places(rows, types) \cup {n + 1}) = Cardinality(Places(rows, types)) + 1
  BY <1>3, <1>5, FS_AddElement
<1>8. Count(more, types) = Count(rows, types) + IF type \in types THEN 1 ELSE 0
  BY <1>4, <1>6, <1>7 DEF Count
<1>9. QED
  BY <1>4, <1>8 DEF more

LEMMA TwoInOrder ==
    ASSUME NEW first \in OutboxTypes, NEW second \in OutboxTypes
    PROVE  <<first>> \o <<second>> = <<first, second>>
<1> DEFINE both == <<first>> \o <<second>>
<1>1. <<first>> \in Seq(OutboxTypes) /\ <<second>> \in Seq(OutboxTypes)
  OBVIOUS
<1>2. /\ both \in Seq(OutboxTypes)
      /\ Len(both) = 2
      /\ both[1] = first
      /\ both[2] = second
  BY <1>1
<1> HIDE DEF both
<1>3. both = <<both[1], both[2]>>
  BY <1>2
<1>4. QED
  BY <1>2, <1>3 DEF both

LEMMA CountNone == \A types : Count(<<>>, types) = 0
<1>1. \A types : Places(<<>>, types) = {}
  BY DEF Places
<1>2. QED
  BY <1>1, FS_EmptySet DEF Count

\* An announcement of one event, and of two.
LEMMA EmitOne ==
    ASSUME TypeOK, NEW b \in Bookings, NEW type \in OutboxTypes, Emit(b, <<type>>), NEW types
    PROVE  Count(outbox'[b], types) = Count(outbox[b], types) + IF type \in types THEN 1 ELSE 0
<1>1. outbox[b] \in Seq(OutboxTypes)
  BY DEF TypeOK
<1>2. outbox'[b] = outbox[b] \o <<type>>
  BY DEF Emit, TypeOK
<1>3. outbox'[b] = Append(outbox[b], type)
  BY <1>1, <1>2
<1>4. QED
  BY <1>1, <1>3, CountAppend

LEMMA EmitTwo ==
    ASSUME TypeOK, NEW b \in Bookings, NEW first \in OutboxTypes, NEW second \in OutboxTypes,
           Emit(b, <<first, second>>), NEW types
    PROVE  Count(outbox'[b], types) =
               Count(outbox[b], types) + (IF first \in types THEN 1 ELSE 0)
                                       + (IF second \in types THEN 1 ELSE 0)
<1>1. outbox[b] \in Seq(OutboxTypes)
  BY DEF TypeOK
<1>2. outbox'[b] = outbox[b] \o <<first, second>>
  BY DEF Emit, TypeOK
<1> DEFINE one == Append(outbox[b], first)
<1>3. one \in Seq(OutboxTypes)
  BY <1>1
<1>4. outbox'[b] = Append(one, second)
  BY <1>1, <1>2
<1>5. Count(one, types) = Count(outbox[b], types) + IF first \in types THEN 1 ELSE 0
  BY <1>1, CountAppend
<1> HIDE DEF one
<1>6. Count(outbox'[b], types) = Count(one, types) + IF second \in types THEN 1 ELSE 0
  BY <1>3, <1>4, CountAppend
<1>7. QED
  BY <1>5, <1>6

-----------------------------------------------------------------------------

\* The property, booking by booking.
Settled(b) == hold[b].state \in {"RELEASED", "REFUNDED"}

Announced(b) ==
    /\ Count(outbox[b], Settling) = IF Settled(b) THEN 1 ELSE 0
    /\ Count(outbox[b], Queueing) = Len(payouts[b])

AnnouncedInv == IInv /\ \A b \in Bookings : Announced(b)

\* A hold that is still open has announced nothing yet, and has no payout row.
LEMMA OpenIsSilent ==
    ASSUME AnnouncedInv, NEW b \in Bookings, ~Settled(b)
    PROVE  /\ payouts[b] = <<>>
           /\ Count(outbox[b], Settling) = 0
           /\ Count(outbox[b], Queueing) = 0
<1>1. payouts[b] = <<>>
  BY DEF AnnouncedInv, IInv, FundsAccounted, NothingPaidOut, Settled
<1>2. QED
  BY <1>1 DEF AnnouncedInv, Announced

\* An operation that leaves the hold open says nothing of an outcome or a payout.
LEMMA StaysOpen ==
    ASSUME AnnouncedInv, NEW b \in Bookings, ~Settled(b), ~Settled(b)',
           NEW type \in OutboxTypes \ (Settling \cup Queueing), Emit(b, <<type>>),
           payouts'[b] = payouts[b]
    PROVE  Announced(b)'
<1>1. TypeOK
  BY DEF AnnouncedInv, IInv
<1>2. /\ Count(outbox'[b], Settling) = Count(outbox[b], Settling) + 0
      /\ Count(outbox'[b], Queueing) = Count(outbox[b], Queueing) + 0
  BY <1>1, EmitOne
<1>3. QED
  BY <1>2, OpenIsSilent DEF Announced

\* One that settles it without a payout.
LEMMA SettlesUnpaid ==
    ASSUME AnnouncedInv, NEW b \in Bookings, ~Settled(b), Settled(b)',
           NEW type \in Settling, Emit(b, <<type>>), payouts'[b] = payouts[b]
    PROVE  Announced(b)'
<1>1. TypeOK /\ type \in OutboxTypes /\ type \notin Queueing
  BY DEF AnnouncedInv, IInv, Settling, Queueing, OutboxTypes
<1>2. /\ Count(outbox'[b], Settling) = Count(outbox[b], Settling) + 1
      /\ Count(outbox'[b], Queueing) = Count(outbox[b], Queueing) + 0
  BY <1>1, EmitOne
<1>3. QED
  BY <1>2, OpenIsSilent DEF Announced

\* One that settles it with what there is for the artist.
LEMMA SettlesPaid ==
    ASSUME AnnouncedInv, NEW b \in Bookings, ~Settled(b), Settled(b)',
           NEW type \in Settling, NEW cents \in Nat,
           QueuePayout(b, cents), Emit(b, PayoutQueued(cents) \o <<type>>)
    PROVE  Announced(b)'
<1>1. TypeOK /\ payouts[b] = <<>> /\ payouts \in [Bookings -> Seq([cents : Nat, state : PayoutStates])]
  BY OpenIsSilent DEF AnnouncedInv, IInv, TypeOK
<1>2. CASE cents = 0
  <2>1. PayoutQueued(cents) \o <<type>> = <<type>> /\ payouts' = payouts
    BY <1>2 DEF PayoutQueued, QueuePayout
  <2>2. QED
    BY <2>1, SettlesUnpaid
<1>3. CASE cents # 0
  <2>1. /\ PayoutQueued(cents) = <<"escrow.payout.queued">>
        /\ payouts' = [payouts EXCEPT ![b] = Append(@, [cents |-> cents, state |-> "QUEUED"])]
    BY <1>3 DEF PayoutQueued, QueuePayout
  <2>2. Len(payouts'[b]) = 1
    BY <1>1, <2>1
  <2>3. <<"escrow.payout.queued">> \o <<type>> = <<"escrow.payout.queued", type>>
    BY TwoInOrder DEF Settling, OutboxTypes
  <2>4. Emit(b, <<"escrow.payout.queued", type>>)
    BY <2>1, <2>3
  <2>5. /\ "escrow.payout.queued" \in OutboxTypes
        /\ "escrow.payout.queued" \in Queueing
        /\ "escrow.payout.queued" \notin Settling
        /\ type \in OutboxTypes
        /\ type \notin Queueing
    BY DEF OutboxTypes, Settling, Queueing
  <2>6. /\ Count(outbox'[b], Settling) = Count(outbox[b], Settling) + 0 + 1
        /\ Count(outbox'[b], Queueing) = Count(outbox[b], Queueing) + 1 + 0
    BY <1>1, <2>4, <2>5, EmitTwo
  <2>7. QED
    BY <2>2, <2>6, OpenIsSilent DEF Announced
<1>4. QED
  BY <1>2, <1>3

\* Where the transition table leads, as far as outcomes go.
LEMMA Outcome ==
    ASSUME TypeOK, NEW b \in Bookings, NEW act \in EscrowActions \ {"PARTIAL_REFUND"},
           MoveHold(b, act)
    PROVE  ~Settled(b) /\ (Settled(b)' <=> act # "FREEZE")
<1>1. hold[b].state \in HoldStates \cup {"ABSENT"}
  BY DEF TypeOK, HoldRow
<1>2. /\ CanTransition(hold[b].state, act)
      /\ hold[b].state \in OpenStates
  BY HoldStep
<1>3. NextState(hold[b].state, act) = IF act = "FREEZE" THEN "DISPUTED"
                                      ELSE IF act \in {"RELEASE", "RESOLVE_RELEASE"}
                                           THEN "RELEASED" ELSE "REFUNDED"
  BY <1>1, <1>2, TransitionTable DEF EscrowActions
<1>4. hold'[b].state = NextState(hold[b].state, act)
  BY <1>3, HoldStep DEF HoldStates
<1>5. QED
  BY <1>2, <1>3, <1>4 DEF Settled, OpenStates

LEMMA OutcomeStep ==
    ASSUME AnnouncedInv, NEW b \in Bookings, Operation(b)
    PROVE  Announced(b)'
<1>1. TypeOK /\ Remaining(hold[b]) \in Nat
  BY RemainingNat DEF AnnouncedInv, IInv
<1>2. ASSUME NEW c, Capture(b, c)
      PROVE  Announced(b)'
  <2>1. ~Settled(b) /\ ~Settled(b)'
    BY <1>1, <1>2 DEF Capture, NoHold, Settled, TypeOK
  <2>2. /\ "payments.succeeded" \in OutboxTypes \ (Settling \cup Queueing)
        /\ "escrow.held" \in OutboxTypes \ (Settling \cup Queueing)
        /\ Emit(b, <<"payments.succeeded", "escrow.held">>)
        /\ payouts' = payouts
    BY <1>2 DEF Capture, OutboxTypes, Settling, Queueing
  <2>3. /\ Count(outbox'[b], Settling) = Count(outbox[b], Settling) + 0 + 0
        /\ Count(outbox'[b], Queueing) = Count(outbox[b], Queueing) + 0 + 0
    BY <1>1, <2>2, EmitTwo
  <2>4. QED
    BY <2>1, <2>2, <2>3, OpenIsSilent DEF Announced
<1>3. ASSUME Release(b) \/ ResolveRelease(b)
      PROVE  Announced(b)'
  <2>1. ~Settled(b) /\ Settled(b)'
    BY <1>1, <1>3, Outcome DEF Release, ResolveRelease, EscrowActions
  <2>2. QED
    BY <1>1, <1>3, <2>1, SettlesPaid DEF Release, ResolveRelease, Settling
<1>4. ASSUME NEW fault, Refund(b, fault) \/ ResolveRefund(b)
      PROVE  Announced(b)'
  <2>1. /\ MoveHold(b, "REFUND") \/ MoveHold(b, "RESOLVE_REFUND")
        /\ Emit(b, <<"escrow.refunded">>)
        /\ payouts' = payouts
    BY <1>4 DEF Refund, ResolveRefund
  <2>2. ~Settled(b) /\ Settled(b)'
    BY <1>1, <2>1, Outcome DEF EscrowActions
  <2>3. QED
    BY <2>1, <2>2, SettlesUnpaid DEF Settling
<1>5. ASSUME NEW cents, NEW fault, PartialRefund(b, cents, fault)
      PROVE  Announced(b)'
  <2>1. /\ hold[b].state \in HoldStates \cup {"ABSENT"}
        /\ CanTransition(hold[b].state, "PARTIAL_REFUND")
    BY <1>1, <1>5 DEF PartialRefund, TypeOK, HoldRow
  <2>2. /\ hold[b].state \in OpenStates
        /\ NextState(hold[b].state, "PARTIAL_REFUND") = "PARTIALLY_REFUNDED"
    BY <2>1, TransitionTable DEF EscrowActions
  <2>3. hold'[b].state = "PARTIALLY_REFUNDED"
    BY <1>1, <1>5, <2>2 DEF PartialRefund, TypeOK, HoldRow
  <2>4. ~Settled(b) /\ ~Settled(b)'
    BY <2>2, <2>3 DEF Settled, OpenStates
  <2>5. /\ "escrow.partially_refunded" \in OutboxTypes \ (Settling \cup Queueing)
        /\ Emit(b, <<"escrow.partially_refunded">>)
        /\ payouts' = payouts
    BY <1>5 DEF PartialRefund, OutboxTypes, Settling, Queueing
  <2>6. QED
    BY <2>4, <2>5, StaysOpen
<1>6. ASSUME Freeze(b)
      PROVE  Announced(b)'
  <2>1. ~Settled(b) /\ ~Settled(b)'
    BY <1>1, <1>6, Outcome DEF Freeze, EscrowActions
  <2>2. /\ "escrow.frozen" \in OutboxTypes \ (Settling \cup Queueing)
        /\ Emit(b, <<"escrow.frozen">>)
        /\ payouts' = [payouts EXCEPT ![b] = CancelQueued(payouts[b])]
    BY <1>6 DEF Freeze, OutboxTypes, Settling, Queueing
  <2>3. payouts[b] = <<>> /\ CancelQueued(<<>>) = <<>>
    BY <2>1, OpenIsSilent DEF CancelQueued
  <2>4. payouts'[b] = payouts[b]
    BY <1>1, <2>2, <2>3 DEF TypeOK
  <2>5. QED
    BY <2>1, <2>2, <2>4, StaysOpen
<1>7. ASSUME NEW artist \in Int, NEW client, ResolveSplit(b, artist, client)
      PROVE  Announced(b)'
  <2>1. ~Settled(b) /\ Settled(b)'
    BY <1>1, <1>7, Outcome DEF ResolveSplit, EscrowActions
  <2>2. artist \in Nat
    BY <1>7 DEF ResolveSplit
  <2>3. QED
    BY <1>7, <2>1, <2>2, SettlesPaid DEF ResolveSplit, Settling
<1>8. QED
  BY <1>2, <1>3, <1>4, <1>5, <1>6, <1>7, RequestCentsAssumption DEF Operation, EscrowStep

\* The announcements of the other bookings stay as they are.
LEMMA OthersStaySilent ==
    ASSUME AnnouncedInv, NEW b \in Bookings, Operation(b), NEW c \in Bookings, c # b
    PROVE  Announced(c)'
<1>1. TypeOK /\ Announced(c)
  BY DEF AnnouncedInv, IInv
<1>2. hold'[c] = hold[c] /\ payouts'[c] = payouts[c]
  BY <1>1, OperationFrame
<1>3. outbox'[c] = outbox[c]
  BY <1>1 DEF Operation, EscrowStep, TypeOK, Capture, Release, Refund, PartialRefund, Freeze,
              ResolveRelease, ResolveRefund, ResolveSplit, Emit
<1>4. QED
  BY <1>1, <1>2, <1>3 DEF Announced, Settled

\* What checkout announces is not about outcomes.
LEMMA AnnouncementSilent ==
    ASSUME AnnouncedInv, NEW b \in Bookings, Announcement(b), NEW c \in Bookings
    PROVE  Announced(c)'
<1>1. TypeOK /\ Announced(c)
  BY DEF AnnouncedInv, IInv
<1>2. hold'[c] = hold[c] /\ payouts'[c] = payouts[c]
  BY DEF Announcement
<1>3. PICK type \in {"payments.intent.created", "payments.failed"} : Emit(b, <<type>>)
  BY DEF Announcement
<1>4. type \in OutboxTypes \ (Settling \cup Queueing)
  BY DEF OutboxTypes, Settling, Queueing
<1>5. CASE c = b
  <2>1. /\ Count(outbox'[c], Settling) = Count(outbox[c], Settling) + 0
        /\ Count(outbox'[c], Queueing) = Count(outbox[c], Queueing) + 0
    BY <1>1, <1>3, <1>4, <1>5, EmitOne
  <2>2. Count(outbox'[c], Settling) = Count(outbox[c], Settling)
    BY <1>1, <2>1 DEF Announced
  <2>3. Count(outbox'[c], Queueing) = Count(outbox[c], Queueing)
    BY <1>1, <2>1 DEF Announced, TypeOK
  <2>4. QED
    BY <1>1, <1>2, <2>2, <2>3 DEF Announced, Settled
<1>6. CASE c # b
  <2>1. outbox'[c] = outbox[c]
    BY <1>1, <1>3, <1>6 DEF Emit, TypeOK
  <2>2. QED
    BY <1>1, <1>2, <2>1 DEF Announced, Settled
<1>7. QED
  BY <1>5, <1>6

LEMMA OutcomesAlwaysAnnounced == OperationsSpec => []OutcomeAnnouncedOnce
<1>1. Init => AnnouncedInv
  BY InitInv, CountNone DEF Init, AnnouncedInv, Announced, Settled, NoHold
<1>2. AnnouncedInv /\ [OperationsNext]_escrowVars => AnnouncedInv'
  <2>1. ASSUME AnnouncedInv, NEW b \in Bookings, Operation(b)
        PROVE  AnnouncedInv'
    BY <2>1, OperationInv, OutcomeStep, OthersStaySilent DEF AnnouncedInv
  <2>2. ASSUME AnnouncedInv, UNCHANGED escrowVars
        PROVE  AnnouncedInv'
    BY <2>2, StutterInv DEF AnnouncedInv, Announced, Settled, escrowVars
  <2>3. ASSUME AnnouncedInv, NEW b \in Bookings, Announcement(b)
        PROVE  AnnouncedInv'
    BY <2>3, AnnouncementInv, AnnouncementSilent DEF AnnouncedInv
  <2>4. QED
    BY <2>1, <2>2, <2>3 DEF OperationsNext
<1>3. AnnouncedInv => OutcomeAnnouncedOnce
  BY DEF AnnouncedInv, Announced, Settled, OutcomeAnnouncedOnce, Count, Places,
         Settling, Queueing
<1>4. QED
  BY <1>1, <1>2, <1>3, PTL DEF OperationsSpec

\* A hold is settled exactly when one outcome was announced, and a payout was announced
\* exactly when it was queued.
THEOREM OutcomesAnnounced == Spec => []OutcomeAnnouncedOnce
<1>1. QED
  BY OwnCalls, OutcomesAlwaysAnnounced, PTL

-----------------------------------------------------------------------------
(***************************************************************************)
(* The life of a hold, for the components that call the operations of      *)
(* Escrow: what any operation, with any amounts, does to the row of a hold *)
(* that its caller has read before.                                        *)
(***************************************************************************)

\* How the row of a hold may change once it is there: it is never taken away, its
\* amount and fee are fixed, refunds are not taken back, no hold becomes HELD again, a
\* frozen one stays frozen until it is settled, and a settled one stays as it is.
Evolves(row, next) ==
    row # NoHold =>
        /\ next # NoHold
        /\ next.amount = row.amount
        /\ next.fee = row.fee
        /\ next.partial >= row.partial
        /\ next.state = "HELD" => next = row
        /\ row.state = "DISPUTED" => next.state \in {"DISPUTED", "RELEASED", "REFUNDED"}
        /\ row.state \in {"RELEASED", "REFUNDED"} => next = row

\* What an operation posts to the ledger balances.
LEMMA OperationPosts ==
    ASSUME IInv, NEW b \in Bookings, Operation(b)
    PROVE  \/ ledger' = ledger
           \/ \E entries \in [Accounts -> Int] : WriteLedger(b, entries)
<1>1. /\ hold[b].fee \in Int
      /\ hold[b].amount \in Int
      /\ Remaining(hold[b]) \in Int
  <2>1. hold[b] \in HoldRow
    BY DEF IInv, TypeOK
  <2>2. QED
    BY <2>1 DEF HoldRow, Remaining
<1> DEFINE Posted(entries) == entries \in [Accounts -> Int] /\ WriteLedger(b, entries)
<1>2. ASSUME NEW fee \in Int, NEW cents \in Int, NEW fault
      PROVE  /\ RefundEntries(fee, cents, fault, TRUE) \in [Accounts -> Int]
             /\ RefundEntries(fee, cents, fault, FALSE) \in [Accounts -> Int]
  BY RefundEntriesOf
<1>3. CASE \E c \in [amount : Nat, fee : Nat] : Capture(b, c)
  <2>1. PICK c \in [amount : Nat, fee : Nat] : Capture(b, c)
    BY <1>3
  <2>2. Posted(CaptureEntries(c.amount, c.fee))
    BY <2>1, CaptureEntriesOf DEF Capture
  <2>3. QED
    BY <2>2
<1>4. CASE Release(b) \/ ResolveRelease(b)
  <2>1. Posted(ReleaseEntries(Remaining(hold[b])))
    BY <1>1, <1>4, ReleaseEntriesOf DEF Release, ResolveRelease
  <2>2. QED
    BY <2>1
<1>5. CASE \E fault \in FaultParties : Refund(b, fault)
  <2>1. PICK fault \in FaultParties : Refund(b, fault)
    BY <1>5
  <2>2. Posted(RefundEntries(hold[b].fee, hold[b].amount, fault, TRUE))
    BY <1>1, <1>2, <2>1 DEF Refund
  <2>3. QED
    BY <2>2
<1>6. CASE \E cents \in Int, fault \in FaultParties : PartialRefund(b, cents, fault)
  <2>1. PICK cents \in Int, fault \in FaultParties : PartialRefund(b, cents, fault)
    BY <1>6
  <2>2. Posted(RefundEntries(hold[b].fee, cents, fault, FALSE))
    BY <1>1, <1>2, <2>1 DEF PartialRefund
  <2>3. QED
    BY <2>2
<1>7. CASE Freeze(b)
  BY <1>7 DEF Freeze
<1>8. CASE ResolveRefund(b)
  <2>1. Posted(RefundEntries(hold[b].fee, Remaining(hold[b]), "ARTIST", TRUE))
    BY <1>1, <1>2, <1>8 DEF ResolveRefund
  <2>2. QED
    BY <2>1
<1>9. CASE \E artist, client \in Int : ResolveSplit(b, artist, client)
  <2>1. PICK artist \in Int, client \in Int : ResolveSplit(b, artist, client)
    BY <1>9
  <2>2. Posted(SplitEntries(artist, client))
    BY <2>1, SplitEntriesOf DEF ResolveSplit
  <2>3. QED
    BY <2>2
<1>10. QED
  BY <1>3, <1>4, <1>5, <1>6, <1>7, <1>8, <1>9, CapturesAssumption, RequestCentsAssumption
  DEF Operation, EscrowStep

\* Moving a hold by the transition table.
LEMMA MoveEvolves ==
    ASSUME IInv, NEW b \in Bookings, NEW act \in EscrowActions, MoveHold(b, act)
    PROVE  /\ hold[b] # NoHold
           /\ Evolves(hold[b], hold'[b])
<1>1. TypeOK /\ hold[b] \in HoldRow
  BY DEF IInv, TypeOK
<1>2. /\ CanTransition(hold[b].state, act)
      /\ hold[b].state \in OpenStates
  BY <1>1, HoldStep
<1>3. NextState(hold[b].state, act) \in
          {"RELEASED", "REFUNDED", "PARTIALLY_REFUNDED", "DISPUTED"}
  BY <1>1, <1>2, TransitionTable DEF EscrowActions, HoldRow
<1>4. /\ hold'[b] \in HoldRow
      /\ hold'[b].state \in {"RELEASED", "REFUNDED", "PARTIALLY_REFUNDED", "DISPUTED"}
      /\ hold'[b].amount = hold[b].amount
      /\ hold'[b].fee = hold[b].fee
      /\ hold'[b].partial = hold[b].partial
  BY <1>1, <1>3, HoldStep DEF HoldStates
<1>5. hold[b].state = "DISPUTED" => NextState(hold[b].state, act) \in {"RELEASED", "REFUNDED"}
  BY <1>1, <1>2, <1>3, TransitionTable DEF FrozenBypassActions, HoldRow
<1>6. hold[b].state = "DISPUTED" => hold'[b].state \in {"RELEASED", "REFUNDED"}
  BY <1>1, <1>3, <1>5, HoldStep DEF HoldStates
<1>7. QED
  BY <1>1, <1>2, <1>4, <1>6 DEF Evolves, OpenStates, NoHold, HoldRow

LEMMA PartialRefundEvolves ==
    ASSUME IInv, NEW b \in Bookings, NEW cents \in Int, NEW fault,
           PartialRefund(b, cents, fault)
    PROVE  /\ hold[b] # NoHold
           /\ Evolves(hold[b], hold'[b])
<1>1. TypeOK /\ hold[b] \in HoldRow
  BY DEF IInv, TypeOK
<1>2. /\ CanTransition(hold[b].state, "PARTIAL_REFUND")
      /\ hold' = [hold EXCEPT ![b] =
                    [hold[b] EXCEPT !.state = NextState(hold[b].state, "PARTIAL_REFUND"),
                                    !.partial = hold[b].partial + cents]]
      /\ cents > 0
  BY <1>1 DEF PartialRefund, TypeOK
<1>3. /\ hold[b].state \in OpenStates
      /\ NextState(hold[b].state, "PARTIAL_REFUND") = "PARTIALLY_REFUNDED"
  BY <1>1, <1>2, TransitionTable DEF EscrowActions, HoldRow
<1>4. /\ hold'[b].state = "PARTIALLY_REFUNDED"
      /\ hold'[b].amount = hold[b].amount
      /\ hold'[b].fee = hold[b].fee
      /\ hold'[b].partial = hold[b].partial + cents
  BY <1>1, <1>2, <1>3 DEF TypeOK, HoldRow
<1>5. hold[b].state \in {"HELD", "PARTIALLY_REFUNDED"}
  BY <1>1, <1>2, <1>3, TransitionTable
     DEF OpenStates, EscrowActions, FrozenBypassActions, HoldRow
<1>6. hold[b] # NoHold /\ hold'[b] # NoHold
  BY <1>4, <1>5 DEF NoHold
<1>7. hold'[b].partial >= hold[b].partial
  BY <1>1, <1>2, <1>4 DEF HoldRow
<1>8. QED
  BY <1>4, <1>5, <1>6, <1>7 DEF Evolves

\* Whatever is called, every hold only moves on.
LEMMA OperationEvolves ==
    ASSUME IInv, NEW b \in Bookings, Operation(b), NEW c \in Bookings
    PROVE  Evolves(hold[c], hold'[c])
<1>1. TypeOK /\ hold[c] \in HoldRow
  BY DEF IInv, TypeOK
<1>2. CASE c # b
  <2>1. hold'[c] = hold[c]
    BY <1>1, <1>2, OperationFrame
  <2>2. QED
    BY <1>1, <2>1 DEF Evolves, HoldRow
<1>3. CASE c = b
  <2>1. CASE \E x : Capture(b, x)
    BY <1>3, <2>1 DEF Capture, Evolves
  <2>2. CASE \E act \in EscrowActions : MoveHold(b, act)
    BY <1>3, <2>2, MoveEvolves
  <2>3. CASE \E cents \in Int, fault \in FaultParties : PartialRefund(b, cents, fault)
    BY <1>3, <2>3, PartialRefundEvolves
  <2>4. QED
    BY <2>1, <2>2, <2>3, RequestCentsAssumption
       DEF Operation, EscrowStep, Release, Refund, Freeze, ResolveRelease, ResolveRefund,
           ResolveSplit, EscrowActions
<1>4. QED
  BY <1>2, <1>3

\* What an operation announces of a booking, and of no other: an intent is created and
\* a payment fails elsewhere.
OtherTypes == OutboxTypes \ {"payments.intent.created", "payments.failed"}

LEMMA PayoutQueuedAnd ==
    ASSUME NEW cents \in Int, NEW type \in OtherTypes
    PROVE  PayoutQueued(cents) \o <<type>> \in Seq(OtherTypes)
<1>1. CASE cents <= 0
  BY <1>1 DEF PayoutQueued
<1>2. CASE ~(cents <= 0)
  <2>1. PayoutQueued(cents) = <<"escrow.payout.queued">>
    BY <1>2 DEF PayoutQueued
  <2>2. "escrow.payout.queued" \in OtherTypes
    BY DEF OutboxTypes, OtherTypes
  <2>3. QED
    BY <2>1, <2>2
<1>3. QED
  BY <1>1, <1>2

LEMMA OperationEmits ==
    ASSUME IInv, NEW b \in Bookings, Operation(b)
    PROVE  \E types \in Seq(OtherTypes) : Emit(b, types)
<1>1. Remaining(hold[b]) \in Int
  BY RemainingNat
<1>2. {"payments.succeeded", "escrow.held", "escrow.refunded", "escrow.released",
       "escrow.partially_refunded", "escrow.frozen"} \subseteq OtherTypes
  BY DEF OtherTypes, OutboxTypes
<1>3. CASE \E x : Capture(b, x)
  <2>1. <<"payments.succeeded", "escrow.held">> \in Seq(OtherTypes)
    BY <1>2
  <2>2. QED
    BY <1>3, <2>1 DEF Capture
<1>4. CASE Release(b) \/ ResolveRelease(b)
  <2>1. PayoutQueued(Remaining(hold[b])) \o <<"escrow.released">> \in Seq(OtherTypes)
    BY <1>1, <1>2, PayoutQueuedAnd
  <2>2. QED
    BY <1>4, <2>1 DEF Release, ResolveRelease
<1>5. CASE ResolveRefund(b) \/ \E fault \in FaultParties : Refund(b, fault)
  <2>1. <<"escrow.refunded">> \in Seq(OtherTypes)
    BY <1>2
  <2>2. QED
    BY <1>5, <2>1 DEF Refund, ResolveRefund
<1>6. CASE \E cents \in Int, fault \in FaultParties : PartialRefund(b, cents, fault)
  <2>1. <<"escrow.partially_refunded">> \in Seq(OtherTypes)
    BY <1>2
  <2>2. QED
    BY <1>6, <2>1 DEF PartialRefund
<1>7. CASE Freeze(b)
  <2>1. <<"escrow.frozen">> \in Seq(OtherTypes)
    BY <1>2
  <2>2. QED
    BY <1>7, <2>1 DEF Freeze
<1>8. CASE \E artist, client \in Int : ResolveSplit(b, artist, client)
  <2>1. PICK artist \in Int, client \in Int : ResolveSplit(b, artist, client)
    BY <1>8
  <2>2. PayoutQueued(artist) \o <<"escrow.refunded">> \in Seq(OtherTypes)
    BY <1>2, PayoutQueuedAnd
  <2>3. QED
    BY <2>1, <2>2 DEF ResolveSplit
<1>9. QED
  BY <1>3, <1>4, <1>5, <1>6, <1>7, <1>8, RequestCentsAssumption DEF Operation, EscrowStep
-----------------------------------------------------------------------------
(***************************************************************************)
(* Sums over finite sets, as the community module Functions folds them.    *)
(* The fold is a recursive function that CHOOSE picks, so its equation     *)
(* has to be earned by showing that such a function exists.  Induction is  *)
(* a fact about a set here, of numbers or of subsets, never a schema.      *)
(***************************************************************************)

\* The induction principle on the natural numbers, as a fact about a set of them.
LEMMA LeastNumber ==
    ASSUME NEW T \in SUBSET Nat, T # {}
    PROVE  \E m \in T : \A n \in T : m <= n
<1> DEFINE R == OpToRel(<, Nat)
<1>1. IsWellFoundedOn(R, Nat)
  BY NatLessThanWellFounded
<1>2. \A n, m \in Nat : n < m => <<n, m>> \in R
  BY DEF OpToRel
<1> HIDE DEF R
<1>3. PICK m \in T : \A n \in T : ~(<<n, m>> \in R)
  BY <1>1, WFMin
<1>4. \A n \in T : m <= n
  <2> TAKE n \in T
  <2>1. ~(n < m)
    BY <1>2, <1>3
  <2>2. QED
    BY <2>1
<1>5. QED
  BY <1>4

LEMMA Counting ==
    ASSUME NEW T \in SUBSET Nat, 0 \in T, \A n \in T : n + 1 \in T
    PROVE  T = Nat
<1> SUFFICES ASSUME T # Nat PROVE FALSE
  OBVIOUS
<1>1. PICK m \in Nat \ T : \A n \in Nat \ T : m <= n
  BY LeastNumber
<1>2. m # 0 /\ m - 1 \in Nat /\ m - 1 \in T
  BY <1>1
<1>3. QED
  BY <1>1, <1>2

\* How SumFunctionOnSet goes through a set.
Pick(s) == CHOOSE x \in s : TRUE
Unfold(f, F, s) == IF s = {} THEN 0 ELSE f[Pick(s)] + F[s \ {Pick(s)}]
Unfolds(f, F, S) == F = [s \in SUBSET S |-> Unfold(f, F, s)]

LEMMA PickIn == \A s : s # {} => Pick(s) \in s
  BY DEF Pick

LEMMA UnfoldingExists ==
    ASSUME NEW S, IsFiniteSet(S), NEW f
    PROVE  \E F : Unfolds(f, F, S)
<1> DEFINE Small(n) == {s \in SUBSET S : Cardinality(s) <= n}
           Good(n) == \E F : F = [s \in SUBSET S |-> F[s]] /\ \A s \in Small(n) : F[s] = Unfold(f, F, s)
           T == {n \in Nat : Good(n)}
<1>1. \A s \in SUBSET S : IsFiniteSet(s) /\ Cardinality(s) \in Nat
  BY FS_Subset, FS_CardinalityType
<1>2. Good(0)
  <2> DEFINE F == [s \in SUBSET S |-> 0]
  <2>1. \A s \in Small(0) : s = {}
    BY <1>1, FS_EmptySet
  <2>2. F = [s \in SUBSET S |-> F[s]] /\ \A s \in Small(0) : F[s] = Unfold(f, F, s)
    BY <2>1 DEF Unfold
  <2> HIDE DEF F
  <2>3. QED
    BY <2>2
<1>3. ASSUME NEW n \in Nat, Good(n)
      PROVE  Good(n + 1)
  <2>1. PICK F : F = [s \in SUBSET S |-> F[s]] /\ \A s \in Small(n) : F[s] = Unfold(f, F, s)
    BY <1>3
  <2> DEFINE G == [s \in SUBSET S |-> Unfold(f, F, s)]
  <2>2. \A s \in Small(n) : G[s] = F[s]
    BY <2>1
  <2>3. ASSUME NEW s \in Small(n + 1)
        PROVE  G[s] = Unfold(f, G, s)
    <3>1. CASE s = {}
      BY <3>1 DEF Unfold
    <3>2. CASE s # {}
      <4>1. Pick(s) \in s
        BY <3>2, PickIn
      <4>2. s \ {Pick(s)} \in Small(n)
        <5>1. Cardinality(s \ {Pick(s)}) = Cardinality(s) - 1
          BY <1>1, <4>1, FS_RemoveElement
        <5>2. QED
          BY <1>1, <5>1
      <4>3. G[s] = Unfold(f, F, s)
        OBVIOUS
      <4>4. G[s \ {Pick(s)}] = F[s \ {Pick(s)}]
        BY <2>2, <4>2
      <4> HIDE DEF G
      <4>5. QED
        BY <3>2, <4>3, <4>4 DEF Unfold
    <3>3. QED
      BY <3>1, <3>2
  <2>4. G = [s \in SUBSET S |-> G[s]]
    OBVIOUS
  <2> HIDE DEF G
  <2>5. QED
    BY <2>3, <2>4
<1> HIDE DEF Good
<1>4. T = Nat
  <2>1. 0 \in T /\ \A n \in T : n + 1 \in T
    BY <1>2, <1>3
  <2> HIDE DEF T
  <2>2. QED
    BY <2>1, Counting DEF T
<1>5. Good(Cardinality(S))
  BY <1>1, <1>4
<1>6. PICK F : /\ F = [s \in SUBSET S |-> F[s]]
               /\ \A s \in Small(Cardinality(S)) : F[s] = Unfold(f, F, s)
  BY <1>5 DEF Good
<1>7. \A s \in SUBSET S : s \in Small(Cardinality(S))
  BY <1>1, FS_Subset
<1>8. F = [s \in SUBSET S |-> Unfold(f, F, s)]
  BY <1>6, <1>7
<1>9. QED
  BY <1>8 DEF Unfolds

LEMMA SumUnfold ==
    ASSUME NEW S, IsFiniteSet(S), NEW f
    PROVE  \E F : SumFunctionOnSet(f, S) = F[S] /\ Unfolds(f, F, S)
<1> DEFINE F == CHOOSE G : G = [s \in SUBSET S |-> Unfold(f, G, s)]
<1>1. F = [s \in SUBSET S |-> Unfold(f, F, s)]
  BY UnfoldingExists DEF Unfolds
<1>2. SumFunctionOnSet(f, S) = F[S]
  BY Zenon DEF SumFunctionOnSet, FoldFunctionOnSet, MapThenFoldSet, Unfold, Pick
<1>3. QED
  BY <1>1, <1>2 DEF Unfolds

\* Induction on the finite subsets of a finite set, as a fact about a set of them.
LEMMA SubsetInduction ==
    ASSUME NEW S, IsFiniteSet(S), NEW T \in SUBSET (SUBSET S),
           \A s \in SUBSET S : (\A x \in s : s \ {x} \in T) => s \in T
    PROVE  S \in T
<1>1. \A s \in SUBSET S : IsFiniteSet(s) /\ Cardinality(s) \in Nat
  BY FS_Subset, FS_CardinalityType
<1> DEFINE N == {n \in Nat : \A s \in SUBSET S : Cardinality(s) <= n => s \in T}
<1>2. 0 \in N
  BY <1>1, FS_EmptySet
<1>3. ASSUME NEW n \in N
      PROVE  n + 1 \in N
  <2> SUFFICES ASSUME NEW s \in SUBSET S, Cardinality(s) <= n + 1
               PROVE  s \in T
    OBVIOUS
  <2>1. ASSUME NEW x \in s
        PROVE  s \ {x} \in T
    <3>1. Cardinality(s \ {x}) = Cardinality(s) - 1 /\ s \ {x} \in SUBSET S
      BY <1>1, FS_RemoveElement
    <3>2. QED
      BY <1>1, <3>1
  <2>2. QED
    BY <2>1
<1>4. N = Nat
  <2> HIDE DEF N
  <2>1. N \in SUBSET Nat
    BY DEF N
  <2>2. QED
    BY <1>2, <1>3, <2>1, Counting
<1>5. Cardinality(S) \in N
  BY <1>1, <1>4
<1>6. QED
  BY <1>1, <1>5

\* One set at a time: a sum is taken the same way whichever set it is part of.
LEMMA UnfoldingUnique ==
    ASSUME NEW S, IsFiniteSet(S), NEW f, NEW U, NEW V, NEW F, NEW G,
           S \in SUBSET U, S \in SUBSET V,
           Unfolds(f, F, U), Unfolds(f, G, V)
    PROVE  F[S] = G[S]
<1> DEFINE T == {s \in SUBSET S : F[s] = G[s]}
<1>1. ASSUME NEW s \in SUBSET S, \A x \in s : s \ {x} \in T
      PROVE  s \in T
  <2>1. F[s] = Unfold(f, F, s) /\ G[s] = Unfold(f, G, s)
    BY DEF Unfolds
  <2>2. s # {} => F[s \ {Pick(s)}] = G[s \ {Pick(s)}]
    BY <1>1, PickIn
  <2>3. Unfold(f, F, s) = Unfold(f, G, s)
    BY <2>2 DEF Unfold
  <2>4. QED
    BY <2>1, <2>3
<1>2. T \in SUBSET (SUBSET S)
  OBVIOUS
<1> HIDE DEF T
<1>3. S \in T
  BY <1>1, <1>2, SubsetInduction
<1>4. QED
  BY <1>3 DEF T

LEMMA SumEmpty == ASSUME NEW f PROVE SumFunctionOnSet(f, {}) = 0
<1>1. IsFiniteSet({})
  BY FS_EmptySet
<1>2. PICK F : SumFunctionOnSet(f, {}) = F[{}] /\ Unfolds(f, F, {})
  BY <1>1, SumUnfold
<1>3. QED
  BY <1>2 DEF Unfold, Unfolds

LEMMA SumPick ==
    ASSUME NEW S, IsFiniteSet(S), S # {}, NEW f
    PROVE  SumFunctionOnSet(f, S) = f[Pick(S)] + SumFunctionOnSet(f, S \ {Pick(S)})
<1> DEFINE R == S \ {Pick(S)}
<1>1. IsFiniteSet(R)
  BY FS_Subset
<1>2. PICK F : SumFunctionOnSet(f, S) = F[S] /\ Unfolds(f, F, S)
  BY SumUnfold
<1>3. PICK G : SumFunctionOnSet(f, R) = G[R] /\ Unfolds(f, G, R)
  BY <1>1, SumUnfold
<1>4. F[R] = G[R]
  <2>1. R \in SUBSET S /\ R \in SUBSET R
    OBVIOUS
  <2> HIDE DEF R
  <2>2. QED
    BY <1>1, <1>2, <1>3, <2>1, UnfoldingUnique
<1>5. F[S] = f[Pick(S)] + F[R]
  <2>1. F[S] = Unfold(f, F, S)
    BY <1>2 DEF Unfolds
  <2>2. QED
    BY <2>1 DEF Unfold
<1>6. QED
  BY <1>2, <1>3, <1>4, <1>5

LEMMA SumInt ==
    ASSUME NEW S, IsFiniteSet(S), NEW f, \A x \in S : f[x] \in Int
    PROVE  SumFunctionOnSet(f, S) \in Int
<1> DEFINE T == {s \in SUBSET S : SumFunctionOnSet(f, s) \in Int}
<1>1. ASSUME NEW s \in SUBSET S, \A x \in s : s \ {x} \in T
      PROVE  SumFunctionOnSet(f, s) \in Int
  <2>1. CASE s = {}
    BY <2>1, SumEmpty
  <2>2. CASE s # {}
    <3>1. Pick(s) \in s /\ IsFiniteSet(s)
      BY <2>2, PickIn, FS_Subset
    <3>2. SumFunctionOnSet(f, s \ {Pick(s)}) \in Int /\ f[Pick(s)] \in Int
      BY <1>1, <3>1
    <3>3. SumFunctionOnSet(f, s) = f[Pick(s)] + SumFunctionOnSet(f, s \ {Pick(s)})
      BY <2>2, <3>1, SumPick
    <3>4. QED
      BY <3>2, <3>3
  <2>3. QED
    BY <2>1, <2>2
<1> HIDE DEF T
<1>2. S \in T
  <2>1. T \in SUBSET (SUBSET S)
    BY DEF T
  <2>2. \A s \in SUBSET S : (\A x \in s : s \ {x} \in T) => s \in T
    BY <1>1 DEF T
  <2>3. QED
    BY <2>1, <2>2, SubsetInduction
<1>3. QED
  BY <1>2 DEF T

\* A sum can be split at any of its elements.
LEMMA SumSplit ==
    ASSUME NEW S, IsFiniteSet(S), NEW f, \A x \in S : f[x] \in Int
    PROVE  \A x \in S : SumFunctionOnSet(f, S) = f[x] + SumFunctionOnSet(f, S \ {x})
<1> DEFINE Sum(s) == SumFunctionOnSet(f, s)
           T == {s \in SUBSET S : \A x \in s : Sum(s) = f[x] + Sum(s \ {x})}
<1>1. \A s \in SUBSET S : IsFiniteSet(s) /\ Sum(s) \in Int
  BY FS_Subset, SumInt
<1>2. ASSUME NEW s \in SUBSET S, \A x \in s : s \ {x} \in T, NEW x \in s
      PROVE  Sum(s) = f[x] + Sum(s \ {x})
  <2> DEFINE y == Pick(s)
  <2>1. y \in s
    BY PickIn
  <2>2. Sum(s) = f[y] + Sum(s \ {y})
    BY <1>1, SumPick
  <2>3. CASE x # y
    <3> DEFINE r == (s \ {x}) \ {y}
    <3>1. r = (s \ {y}) \ {x}
      OBVIOUS
    <3>2. Sum(s \ {x}) = f[y] + Sum(r) /\ Sum(s \ {y}) = f[x] + Sum(r)
      <4>1. y \in s \ {x} /\ x \in s \ {y}
        BY <2>1, <2>3
      <4>2. s \ {x} \in T /\ s \ {y} \in T
        BY <1>2, <2>1
      <4> HIDE DEF Sum, y
      <4>3. QED
        BY <3>1, <4>1, <4>2
    <3>3. /\ f[x] \in Int /\ f[y] \in Int
          /\ Sum(r) \in Int /\ Sum(s) \in Int /\ Sum(s \ {x}) \in Int /\ Sum(s \ {y}) \in Int
      <4>1. r \in SUBSET S /\ s \ {x} \in SUBSET S /\ s \ {y} \in SUBSET S
        OBVIOUS
      <4>2. x \in S /\ y \in S
        BY <2>1
      <4> HIDE DEF Sum, r, y
      <4>3. QED
        BY <1>1, <4>1, <4>2
    <3> HIDE DEF Sum, r, y
    <3>4. QED
      BY <2>2, <3>2, <3>3
  <2>4. CASE x = y
    BY <2>2, <2>4
  <2>5. QED
    BY <2>3, <2>4
<1>3. S \in T
  <2>1. T \in SUBSET (SUBSET S)
    OBVIOUS
  <2>2. \A s \in SUBSET S : (\A x \in s : s \ {x} \in T) => s \in T
    BY <1>2
  <2> HIDE DEF T
  <2>3. QED
    BY <2>1, <2>2, SubsetInduction
<1>4. QED
  BY <1>3

\* Sums of equal numbers are equal; a greater number makes a greater sum.
LEMMA SumMonotone ==
    ASSUME NEW S, IsFiniteSet(S), NEW f, NEW g,
           \A x \in S : f[x] \in Int /\ g[x] \in Int /\ f[x] <= g[x]
    PROVE  SumFunctionOnSet(f, S) <= SumFunctionOnSet(g, S)
<1> DEFINE T == {s \in SUBSET S : SumFunctionOnSet(f, s) <= SumFunctionOnSet(g, s)}
<1>1. ASSUME NEW s \in SUBSET S, \A x \in s : s \ {x} \in T
      PROVE  SumFunctionOnSet(f, s) <= SumFunctionOnSet(g, s)
  <2>1. CASE s = {}
    BY <2>1, SumEmpty
  <2>2. CASE s # {}
    <3> DEFINE x == Pick(s)
               r == s \ {x}
    <3>1. x \in s /\ IsFiniteSet(s) /\ IsFiniteSet(r)
      BY <2>2, PickIn, FS_Subset
    <3>2. /\ SumFunctionOnSet(f, s) = f[x] + SumFunctionOnSet(f, r)
          /\ SumFunctionOnSet(g, s) = g[x] + SumFunctionOnSet(g, r)
      BY <2>2, <3>1, SumPick
    <3>3. SumFunctionOnSet(f, r) \in Int /\ SumFunctionOnSet(g, r) \in Int
      <4>1. \A z \in r : f[z] \in Int /\ g[z] \in Int
        OBVIOUS
      <4> HIDE DEF r
      <4>2. QED
        BY <3>1, <4>1, SumInt
    <3>4. SumFunctionOnSet(f, r) <= SumFunctionOnSet(g, r)
      BY <1>1, <3>1
    <3>5. f[x] \in Int /\ g[x] \in Int /\ f[x] <= g[x]
      BY <3>1
    <3> HIDE DEF x, r
    <3>6. QED
      BY <3>2, <3>3, <3>4, <3>5
  <2>3. QED
    BY <2>1, <2>2
<1>2. S \in T
  <2>1. T \in SUBSET (SUBSET S)
    OBVIOUS
  <2>2. \A s \in SUBSET S : (\A x \in s : s \ {x} \in T) => s \in T
    BY <1>1
  <2> HIDE DEF T
  <2>3. QED
    BY <2>1, <2>2, SubsetInduction
<1>3. QED
  BY <1>2

LEMMA SumSame ==
    ASSUME NEW S, IsFiniteSet(S), NEW f, NEW g,
           \A x \in S : f[x] \in Int /\ g[x] = f[x]
    PROVE  SumFunctionOnSet(f, S) = SumFunctionOnSet(g, S)
<1>1. SumFunctionOnSet(f, S) \in Int /\ SumFunctionOnSet(g, S) \in Int
  BY SumInt
<1>2. /\ SumFunctionOnSet(f, S) <= SumFunctionOnSet(g, S)
      /\ SumFunctionOnSet(g, S) <= SumFunctionOnSet(f, S)
  BY SumMonotone
<1>3. QED
  BY <1>1, <1>2

\* A sum of nothing but naturals is one.
LEMMA SumNat ==
    ASSUME NEW S, IsFiniteSet(S), NEW f, \A x \in S : f[x] \in Nat
    PROVE  SumFunctionOnSet(f, S) \in Nat
<1> DEFINE none == [x \in S |-> 0]
           T == {s \in SUBSET S : SumFunctionOnSet(none, s) = 0}
<1>1. ASSUME NEW s \in SUBSET S, \A x \in s : s \ {x} \in T
      PROVE  SumFunctionOnSet(none, s) = 0
  <2>1. CASE s = {}
    BY <2>1, SumEmpty
  <2>2. CASE s # {}
    <3>1. Pick(s) \in s /\ IsFiniteSet(s)
      BY <2>2, PickIn, FS_Subset
    <3>2. none[Pick(s)] = 0 /\ SumFunctionOnSet(none, s \ {Pick(s)}) = 0
      BY <1>1, <3>1
    <3> HIDE DEF none
    <3>3. QED
      BY <2>2, <3>1, <3>2, SumPick
  <2>3. QED
    BY <2>1, <2>2
<1>2. S \in T
  <2>1. T \in SUBSET (SUBSET S)
    OBVIOUS
  <2>2. \A s \in SUBSET S : (\A x \in s : s \ {x} \in T) => s \in T
    BY <1>1
  <2> HIDE DEF T
  <2>3. QED
    BY <2>1, <2>2, SubsetInduction
<1>3. \A x \in S : none[x] \in Int /\ f[x] \in Int /\ none[x] <= f[x]
  OBVIOUS
<1> HIDE DEF none
<1>4. SumFunctionOnSet(none, S) <= SumFunctionOnSet(f, S)
  BY <1>3, SumMonotone
<1>5. SumFunctionOnSet(f, S) \in Int
  BY <1>3, SumInt
<1>6. QED
  BY <1>2, <1>4, <1>5

\* One number of a sum changes.
LEMMA SumChange ==
    ASSUME NEW S, IsFiniteSet(S), NEW f, NEW g, NEW x \in S,
           \A y \in S : f[y] \in Int /\ g[y] \in Int,
           \A y \in S \ {x} : g[y] = f[y]
    PROVE  SumFunctionOnSet(g, S) = SumFunctionOnSet(f, S) - f[x] + g[x]
<1> DEFINE rest == S \ {x}
<1>1. /\ SumFunctionOnSet(f, S) = f[x] + SumFunctionOnSet(f, rest)
      /\ SumFunctionOnSet(g, S) = g[x] + SumFunctionOnSet(g, rest)
  BY SumSplit
<1>2. IsFiniteSet(rest) /\ \A y \in rest : f[y] \in Int /\ g[y] = f[y]
  BY FS_Subset
<1> HIDE DEF rest
<1>3. SumFunctionOnSet(f, rest) = SumFunctionOnSet(g, rest) /\ SumFunctionOnSet(f, rest) \in Int
  BY <1>2, SumSame, SumInt
<1>4. f[x] \in Int /\ g[x] \in Int
  OBVIOUS
<1>5. QED
  BY <1>1, <1>3, <1>4

-----------------------------------------------------------------------------
(***************************************************************************)
(* What the client gets out of a hold, whichever operations are called.    *)
(***************************************************************************)

LEMMA ClientType ==
    ASSUME IInv, NEW b \in Bookings
    PROVE  /\ clientBar[b] \in Int
           /\ clientBar[b] + ledger[b]["ARTIST_PAYABLE"] <= hold[b].amount
           /\ clientBar[b] = ledger[b]["REFUNDS_ISSUED"]
                               - (hold[b].fee - ledger[b]["PLATFORM_REVENUE"])
           /\ clientBar'[b] = ledger'[b]["REFUNDS_ISSUED"]
                               - (hold'[b].fee - ledger'[b]["PLATFORM_REVENUE"])
<1>1. /\ hold[b] \in HoldRow
      /\ ledger[b]["REFUNDS_ISSUED"] \in Int
      /\ ledger[b]["PLATFORM_REVENUE"] \in Int
      /\ ledger[b]["ARTIST_PAYABLE"] \in Int
  BY DEF IInv, TypeOK, Accounts
<1>2. FundsAccounted(b)
  BY DEF IInv
<1>3. clientBar[b] = ledger[b]["REFUNDS_ISSUED"] - (hold[b].fee - ledger[b]["PLATFORM_REVENUE"])
  BY DEF clientBar
<1>4. clientBar[b] + ledger[b]["ARTIST_PAYABLE"] <= hold[b].amount
  <2>1. hold[b].fee \in Int /\ hold[b].amount \in Int /\ hold[b].partial \in Int
    BY <1>1 DEF HoldRow
  <2>2. CASE hold[b].state \in {"RELEASED", "REFUNDED"}
    <3>1. ledger[b]["ARTIST_PAYABLE"] + ledger[b]["REFUNDS_ISSUED"] =
            hold[b].amount + (hold[b].fee - ledger[b]["PLATFORM_REVENUE"])
      BY <1>2, <2>2 DEF FundsAccounted, PaidOut
    <3>2. QED
      BY <1>1, <1>3, <2>1, <3>1
  <2>3. CASE hold[b].state \notin {"RELEASED", "REFUNDED"}
    <3>1. /\ ledger[b]["PLATFORM_REVENUE"] = hold[b].fee
          /\ ledger[b]["ARTIST_PAYABLE"] = 0
          /\ ledger[b]["REFUNDS_ISSUED"] = hold[b].partial
          /\ hold[b].partial <= hold[b].amount
      BY <1>2, <2>3 DEF FundsAccounted, NothingPaidOut
    <3>2. QED
      BY <1>1, <1>3, <2>1, <3>1
  <2>4. QED
    BY <2>2, <2>3
<1>5. QED
  BY <1>1, <1>3, <1>4 DEF clientBar, HoldRow

LEMMA ClientBarNext ==
    ASSUME IInv', NEW b \in Bookings
    PROVE  clientBar'[b] \in Int
<1>1. /\ hold'[b].fee \in Int
      /\ ledger'[b]["REFUNDS_ISSUED"] \in Int
      /\ ledger'[b]["PLATFORM_REVENUE"] \in Int
  BY DEF IInv, TypeOK, HoldRow, Accounts
<1>2. QED
  BY <1>1 DEF clientBar

\* An event posted to a booking whose fee stays gives the client what it takes from
\* revenue and issues as refunds.
LEMMA ClientPosted ==
    ASSUME IInv, NEW b \in Bookings, NEW entries \in [Accounts -> Int],
           WriteLedger(b, entries), hold'[b].fee = hold[b].fee
    PROVE  clientBar'[b] = clientBar[b] + entries["REFUNDS_ISSUED"] + entries["PLATFORM_REVENUE"]
<1>1. /\ ledger'[b]["REFUNDS_ISSUED"] = ledger[b]["REFUNDS_ISSUED"] + entries["REFUNDS_ISSUED"]
      /\ ledger'[b]["PLATFORM_REVENUE"] = ledger[b]["PLATFORM_REVENUE"] + entries["PLATFORM_REVENUE"]
  BY LedgerStep DEF IInv, Accounts
<1>2. /\ ledger[b]["REFUNDS_ISSUED"] \in Int /\ entries["REFUNDS_ISSUED"] \in Int
      /\ ledger[b]["PLATFORM_REVENUE"] \in Int /\ entries["PLATFORM_REVENUE"] \in Int
      /\ hold[b].fee \in Int
  BY DEF IInv, TypeOK, Accounts, HoldRow
<1>3. QED
  BY <1>1, <1>2, ClientType

LEMMA RefundPaysClient ==
    ASSUME IInv, NEW b \in Bookings, NEW fault \in FaultParties, Refund(b, fault)
    PROVE  clientBar'[b] = clientBar[b] + hold[b].amount
<1> DEFINE e == RefundEntries(hold[b].fee, hold[b].amount, fault, TRUE)
<1>1. hold[b].fee \in Int /\ hold[b].amount \in Int
  BY DEF IInv, TypeOK, HoldRow
<1>2. hold'[b].fee = hold[b].fee
  BY MoveEvolves DEF Refund, Evolves, EscrowActions
<1>3. /\ e \in [Accounts -> Int]
      /\ e["REFUNDS_ISSUED"] \in Int /\ e["PLATFORM_REVENUE"] \in Int
      /\ e["REFUNDS_ISSUED"] + e["PLATFORM_REVENUE"] = hold[b].amount
  BY <1>1, RefundEntriesOf
<1>4. WriteLedger(b, e)
  BY DEF Refund
<1> HIDE DEF e
<1>5. QED
  BY <1>1, <1>2, <1>3, <1>4, ClientPosted, ClientType

LEMMA PartialRefundPaysClient ==
    ASSUME IInv, NEW b \in Bookings, NEW cents \in Int, NEW fault \in FaultParties,
           PartialRefund(b, cents, fault)
    PROVE  clientBar'[b] = clientBar[b] + cents
<1> DEFINE e == RefundEntries(hold[b].fee, cents, fault, FALSE)
<1>1. hold[b].fee \in Int
  BY DEF IInv, TypeOK, HoldRow
<1>2. hold'[b].fee = hold[b].fee
  BY PartialRefundEvolves DEF Evolves
<1>3. /\ e \in [Accounts -> Int]
      /\ e["REFUNDS_ISSUED"] \in Int /\ e["PLATFORM_REVENUE"] \in Int
      /\ e["REFUNDS_ISSUED"] + e["PLATFORM_REVENUE"] = cents
  BY <1>1, RefundEntriesOf
<1>4. WriteLedger(b, e)
  BY DEF PartialRefund
<1> HIDE DEF e
<1>5. QED
  BY <1>2, <1>3, <1>4, ClientPosted, ClientType

\* Every operation leaves one row in the audit trail, and gives the client the cents of
\* that row if it is a refund, or nothing.
Recorded(b, type, cents) ==
    /\ type \in EventTypes
    /\ cents \in Nat
    /\ Record(b, type, cents)
    /\ clientBar'[b] = clientBar[b] + (IF type \in RefundTypes THEN cents ELSE 0)

LEMMA OperationRecords ==
    ASSUME IInv, NEW b \in Bookings, Operation(b)
    PROVE  \E type, cents : Recorded(b, type, cents)
<1>1. /\ hold[b] \in HoldRow
      /\ hold[b].amount \in Nat
      /\ hold[b].fee \in Int
      /\ clientBar[b] \in Int
      /\ Remaining(hold[b]) \in Nat
  <2>1. hold[b] \in HoldRow
    BY DEF IInv, TypeOK
  <2>2. QED
    BY <2>1, ClientType, RemainingNat DEF HoldRow
<1>2. ASSUME NEW act \in EscrowActions, MoveHold(b, act), NEW entries \in [Accounts -> Int],
             WriteLedger(b, entries)
      PROVE  clientBar'[b] =
                clientBar[b] + (entries["REFUNDS_ISSUED"] + entries["PLATFORM_REVENUE"])
  <2>1. hold'[b].fee = hold[b].fee
    BY <1>2, MoveEvolves DEF Evolves
  <2>2. entries["REFUNDS_ISSUED"] \in Int /\ entries["PLATFORM_REVENUE"] \in Int
    BY DEF Accounts
  <2>3. QED
    BY <1>1, <1>2, <2>1, <2>2, ClientPosted
<1>3. CASE \E c \in [amount : Nat, fee : Nat] : Capture(b, c)
  <2>1. PICK c \in [amount : Nat, fee : Nat] : Capture(b, c)
    BY <1>3
  <2>2. /\ hold[b] = NoHold
        /\ hold'[b].fee = c.fee
        /\ WriteLedger(b, CaptureEntries(c.amount, c.fee))
        /\ Record(b, "HELD", c.amount)
    BY <2>1 DEF Capture, IInv, TypeOK
  <2>3. /\ ledger'[b]["REFUNDS_ISSUED"] = ledger[b]["REFUNDS_ISSUED"]
        /\ ledger'[b]["PLATFORM_REVENUE"] = ledger[b]["PLATFORM_REVENUE"] + c.fee
    <3>1. CaptureEntries(c.amount, c.fee) \in [Accounts -> Int]
      BY CaptureEntriesOf
    <3>2. /\ ledger[b]["REFUNDS_ISSUED"] \in Int
          /\ "REFUNDS_ISSUED" \in Accounts /\ "PLATFORM_REVENUE" \in Accounts
      BY DEF IInv, TypeOK, Accounts
    <3>3. \A acc \in Accounts :
            ledger'[b][acc] = ledger[b][acc] + CaptureEntries(c.amount, c.fee)[acc]
      BY <2>2, <3>1, LedgerStep DEF IInv
    <3>4. /\ CaptureEntries(c.amount, c.fee)["REFUNDS_ISSUED"] = 0
          /\ CaptureEntries(c.amount, c.fee)["PLATFORM_REVENUE"] = c.fee
      BY CaptureEntriesOf
    <3>5. QED
      BY <3>2, <3>3, <3>4
  <2>4. ledger[b]["REFUNDS_ISSUED"] \in Int /\ ledger[b]["PLATFORM_REVENUE"] \in Int
    BY DEF IInv, TypeOK, Accounts
  <2>5. clientBar'[b] = clientBar[b]
    BY <1>1, <2>2, <2>3, <2>4, ClientType DEF NoHold
  <2>6. Recorded(b, "HELD", c.amount)
    BY <1>1, <2>2, <2>5 DEF Recorded, RefundTypes, EventTypes
  <2>7. QED
    BY <2>6
<1>4. CASE Release(b) \/ ResolveRelease(b)
  <2> DEFINE held == Remaining(hold[b])
             e == ReleaseEntries(held)
  <2>1. /\ e \in [Accounts -> Int]
        /\ e["REFUNDS_ISSUED"] + e["PLATFORM_REVENUE"] = 0
    BY <1>1, ReleaseEntriesOf
  <2>2. /\ WriteLedger(b, e) /\ \E act \in EscrowActions : MoveHold(b, act)
        /\ Record(b, "RELEASED", held) \/ Record(b, "RESOLVED_RELEASE", held)
    BY <1>4 DEF Release, ResolveRelease, EscrowActions
  <2> HIDE DEF e
  <2>3. clientBar'[b] = clientBar[b]
    BY <1>1, <1>2, <2>1, <2>2
  <2>4. Recorded(b, "RELEASED", held) \/ Recorded(b, "RESOLVED_RELEASE", held)
    BY <1>1, <2>2, <2>3 DEF Recorded, RefundTypes, EventTypes
  <2>5. QED
    BY <2>4
<1>5. CASE \E fault \in FaultParties : Refund(b, fault)
  <2>1. Record(b, "REFUNDED", hold[b].amount)
    BY <1>5 DEF Refund
  <2>2. clientBar'[b] = clientBar[b] + hold[b].amount
    BY <1>5, RefundPaysClient
  <2>3. Recorded(b, "REFUNDED", hold[b].amount)
    BY <1>1, <2>1, <2>2 DEF Recorded, RefundTypes, EventTypes
  <2>4. QED
    BY <2>3
<1>6. CASE \E cents \in Int, fault \in FaultParties : PartialRefund(b, cents, fault)
  <2>1. PICK cents \in Int, fault \in FaultParties : PartialRefund(b, cents, fault)
    BY <1>6
  <2>2. cents \in Nat /\ Record(b, "PARTIALLY_REFUNDED", cents)
    BY <2>1 DEF PartialRefund
  <2>3. clientBar'[b] = clientBar[b] + cents
    BY <2>1, PartialRefundPaysClient
  <2>4. Recorded(b, "PARTIALLY_REFUNDED", cents)
    BY <2>2, <2>3 DEF Recorded, RefundTypes, EventTypes
  <2>5. QED
    BY <2>4
<1>7. CASE Freeze(b)
  <2>1. hold'[b].fee = hold[b].fee
    BY <1>7, MoveEvolves DEF Freeze, Evolves, EscrowActions
  <2>2. clientBar'[b] = clientBar[b]
    BY <1>1, <1>7, <2>1, ClientType DEF Freeze
  <2>3. Record(b, "FROZEN", Remaining(hold[b]))
    BY <1>7 DEF Freeze
  <2>4. Recorded(b, "FROZEN", Remaining(hold[b]))
    BY <1>1, <2>2, <2>3 DEF Recorded, RefundTypes, EventTypes
  <2>5. QED
    BY <2>4
<1>8. CASE ResolveRefund(b)
  <2> DEFINE held == Remaining(hold[b])
             e == RefundEntries(hold[b].fee, held, "ARTIST", TRUE)
  <2>1. /\ e \in [Accounts -> Int]
        /\ e["REFUNDS_ISSUED"] + e["PLATFORM_REVENUE"] = held
    <3>1. held \in Int
      BY <1>1
    <3> HIDE DEF held
    <3>2. QED
      BY <1>1, <3>1, RefundEntriesOf
  <2>2. /\ WriteLedger(b, e) /\ MoveHold(b, "RESOLVE_REFUND") /\ "RESOLVE_REFUND" \in EscrowActions
        /\ Record(b, "RESOLVED_REFUND", held)
    BY <1>8 DEF ResolveRefund, EscrowActions
  <2> HIDE DEF e
  <2>3. clientBar'[b] = clientBar[b] + held
    BY <1>1, <1>2, <2>1, <2>2
  <2>4. Recorded(b, "RESOLVED_REFUND", held)
    BY <1>1, <2>2, <2>3 DEF Recorded, RefundTypes, EventTypes
  <2>5. QED
    BY <2>4
<1>9. CASE \E artist, client \in Int : ResolveSplit(b, artist, client)
  <2>1. PICK artist \in Int, client \in Int : ResolveSplit(b, artist, client)
    BY <1>9
  <2> DEFINE e == SplitEntries(artist, client)
  <2>2. /\ e \in [Accounts -> Int]
        /\ e["REFUNDS_ISSUED"] = client
        /\ e["PLATFORM_REVENUE"] = 0
    BY SplitEntriesOf
  <2>3. /\ WriteLedger(b, e) /\ MoveHold(b, "RESOLVE_SPLIT") /\ "RESOLVE_SPLIT" \in EscrowActions
        /\ Record(b, "RESOLVED_REFUND", client)
        /\ client \in Nat
    BY <2>1 DEF ResolveSplit, EscrowActions
  <2> HIDE DEF e
  <2>4. clientBar'[b] = clientBar[b] + client
    BY <1>1, <1>2, <2>2, <2>3
  <2>5. Recorded(b, "RESOLVED_REFUND", client)
    BY <2>3, <2>4 DEF Recorded, RefundTypes, EventTypes
  <2>6. QED
    BY <2>5
<1>10. QED
  BY <1>3, <1>4, <1>5, <1>6, <1>7, <1>8, <1>9, CapturesAssumption, RequestCentsAssumption
  DEF Operation, EscrowStep

\* No operation takes anything back from the client.
LEMMA ClientKeeps ==
    ASSUME IInv, NEW b \in Bookings, Operation(b), NEW x \in Bookings
    PROVE  clientBar'[x] >= clientBar[x]
<1>1. CASE x # b
  BY <1>1, OperationFrame, ClientType DEF IInv
<1>2. CASE x = b
  BY <1>2, OperationRecords, ClientType DEF Recorded
<1>3. QED
  BY <1>1, <1>2

-----------------------------------------------------------------------------
(***************************************************************************)
(* The audit trail explains the refunds.                                   *)
(***************************************************************************)

TrailRows == [type : EventTypes, cents : Nat]

\* One more row in a trail.
LEMMA RefundedAppend ==
    ASSUME NEW rows \in Seq(TrailRows), NEW row \in TrailRows
    PROVE  /\ Refunded(rows) \in Int
           /\ Refunded(Append(rows, row)) =
                Refunded(rows) + (IF row.type \in RefundTypes THEN row.cents ELSE 0)
<1> DEFINE n == Len(rows)
           more == Append(rows, row)
           Cents(s) == [i \in DOMAIN s |-> s[i].cents]
           At(s) == {i \in DOMAIN s : s[i].type \in RefundTypes}
<1>1. /\ n \in Nat
      /\ DOMAIN rows = 1 .. n
      /\ DOMAIN more = 1 .. (n + 1)
      /\ more[n + 1] = row
      /\ \A i \in 1 .. n : more[i] = rows[i] /\ rows[i] \in TrailRows
  OBVIOUS
<1> HIDE DEF n, more
<1>2. /\ \A i \in 1 .. n : Cents(more)[i] = Cents(rows)[i] /\ Cents(rows)[i] \in Int
      /\ Cents(more)[n + 1] = row.cents
      /\ row.cents \in Int
  BY <1>1 DEF TrailRows
<1>3. /\ At(rows) \in SUBSET (1 .. n)
      /\ n + 1 \notin At(rows)
      /\ At(more) = IF row.type \in RefundTypes THEN At(rows) \cup {n + 1} ELSE At(rows)
  BY <1>1
<1>4. IsFiniteSet(At(rows)) /\ IsFiniteSet(At(rows) \cup {n + 1})
  <2>1. IsFiniteSet(1 .. n)
    BY <1>1, FS_Interval
  <2> HIDE DEF At
  <2>2. QED
    BY <1>3, <2>1, FS_Subset, FS_AddElement
<1> DEFINE f == Cents(rows)
           g == Cents(more)
           S == At(rows)
<1>5. Refunded(rows) = SumFunctionOnSet(f, S) /\ Refunded(more) = SumFunctionOnSet(g, At(more))
  BY DEF Refunded
<1>6. \A i \in S : f[i] \in Int /\ g[i] = f[i]
  BY <1>2, <1>3
<1>7. \A i \in S \cup {n + 1} : g[i] \in Int
  BY <1>2, <1>6
<1>8. At(more) = IF row.type \in RefundTypes THEN S \cup {n + 1} ELSE S
  BY <1>3
<1>9. g[n + 1] = row.cents /\ n + 1 \notin S /\ IsFiniteSet(S) /\ IsFiniteSet(S \cup {n + 1})
  BY <1>2, <1>3, <1>4
<1> HIDE DEF f, g, S, At
<1>10. SumFunctionOnSet(f, S) = SumFunctionOnSet(g, S) /\ SumFunctionOnSet(f, S) \in Int
  BY <1>6, <1>9, SumSame, SumInt
<1>11. CASE row.type \notin RefundTypes
  BY <1>5, <1>8, <1>10, <1>11 DEF more
<1>12. CASE row.type \in RefundTypes
  <2>1. (S \cup {n + 1}) \ {n + 1} = S
    BY <1>9
  <2>2. SumFunctionOnSet(g, S \cup {n + 1}) = g[n + 1] + SumFunctionOnSet(g, S)
    BY <1>7, <1>9, <2>1, SumSplit
  <2>3. QED
    BY <1>2, <1>5, <1>8, <1>9, <1>10, <1>12, <2>2 DEF more
<1>13. QED
  BY <1>11, <1>12

Explained(b) == clientBar[b] = Refunded(trail[b])

LEMMA ExplainedStep ==
    ASSUME IInv, NEW b \in Bookings, Operation(b), \A x \in Bookings : Explained(x)
    PROVE  \A x \in Bookings : Explained(x)'
<1>1. PICK type, cents : Recorded(b, type, cents)
  BY OperationRecords
<1> DEFINE row == [type |-> type, cents |-> cents]
<1>2. row \in TrailRows /\ row.type = type /\ row.cents = cents
  BY <1>1 DEF Recorded, TrailRows
<1>3. trail[b] \in Seq(TrailRows) /\ trail'[b] = Append(trail[b], row)
  BY <1>1 DEF Recorded, Record, IInv, TypeOK, TrailRows
<1> HIDE DEF row
<1>4. Refunded(trail'[b]) = Refunded(trail[b]) + (IF type \in RefundTypes THEN cents ELSE 0)
  BY <1>2, <1>3, RefundedAppend
<1>5. Explained(b)'
  BY <1>1, <1>4 DEF Explained, Recorded
<1>6. ASSUME NEW x \in Bookings, x # b
      PROVE  Explained(x)'
  <2>1. hold'[x] = hold[x] /\ ledger'[x] = ledger[x] /\ trail'[x] = trail[x]
    BY <1>6, OperationFrame DEF IInv
  <2>2. clientBar'[x] = clientBar[x]
    BY <2>1, ClientType
  <2>3. QED
    BY <2>1, <2>2 DEF Explained
<1>7. QED
  BY <1>5, <1>6

LEMMA TrailAlwaysExplains == OperationsSpec => []TrailExplainsRefunds
<1> DEFINE TrailInv == IInv /\ \A b \in Bookings : Explained(b)
<1>1. ASSUME Init PROVE TrailInv
  <2>1. ASSUME NEW b \in Bookings
        PROVE  Explained(b)
    <3>1. clientBar[b] = 0
      BY <1>1 DEF clientBar, Init, NoHold, NoEntries, Accounts
    <3>2. {i \in DOMAIN trail[b] : trail[b][i].type \in RefundTypes} = {}
      BY <1>1 DEF Init
    <3>3. QED
      BY <3>1, <3>2, SumEmpty DEF Explained, Refunded
  <2>2. QED
    BY <1>1, <2>1, InitInv
<1>2. ASSUME TrailInv, [OperationsNext]_escrowVars PROVE TrailInv'
  <2>1. CASE OperationsNext
    <3>1. CASE \E b \in Bookings : Operation(b)
      BY <1>2, <3>1, OperationInv, ExplainedStep
    <3>2. CASE \E b \in Bookings : Announcement(b)
      BY <1>2, <3>2, AnnouncementInv DEF Announcement, Explained, clientBar
    <3>3. QED
      BY <2>1, <3>1, <3>2 DEF OperationsNext
  <2>2. CASE UNCHANGED escrowVars
    BY <1>2, <2>2, StutterInv DEF escrowVars, Explained, clientBar
  <2>3. QED
    BY <1>2, <2>1, <2>2
<1>3. ASSUME TrailInv PROVE TrailExplainsRefunds
  <2> SUFFICES ASSUME NEW b \in Bookings
               PROVE  ledger[b]["REFUNDS_ISSUED"] =
                        Refunded(trail[b]) + (hold[b].fee - ledger[b]["PLATFORM_REVENUE"])
    BY DEF TrailExplainsRefunds
  <2>1. /\ ledger[b]["REFUNDS_ISSUED"] \in Int
        /\ ledger[b]["PLATFORM_REVENUE"] \in Int
        /\ hold[b].fee \in Int
    BY <1>3 DEF IInv, TypeOK, Accounts, HoldRow
  <2>2. clientBar[b] = Refunded(trail[b])
    BY <1>3 DEF Explained
  <2>3. QED
    BY <1>3, <2>1, <2>2, ClientType
<1>4. QED
  BY <1>1, <1>2, <1>3, PTL DEF OperationsSpec

\* What the ledger issued as refunds is what the refund events of the audit trail say, and
\* the fee where it was given back, whichever operations have settled the hold.
THEOREM TrailCorrect == Spec => []TrailExplainsRefunds
<1>1. QED
  BY OwnCalls, TrailAlwaysExplains, PTL

-----------------------------------------------------------------------------
(***************************************************************************)
(* What the component promises, whoever calls it.  The components that     *)
(* extend Escrow are shown to change its tables by its operations only, so *)
(* all of this holds in each of them.                                      *)
(***************************************************************************)

EscrowPromises ==
    /\ []IInv
    /\ []LiabilityBacksHolds
    /\ []FeeReturnedOnlyWithWhole
    /\ []PayoutBacked
    /\ []OutcomeAnnouncedOnce
    /\ []TrailExplainsRefunds
    /\ SettledForever
    /\ AnyFunds!Spec

LEMMA PromisesKept == OperationsSpec => EscrowPromises
<1>1. OperationsSpec => []IInv
  BY AlwaysAccounted
<1>2. QED
  BY <1>1, Accounted, OutcomesAlwaysAnnounced, TrailAlwaysExplains, SettledAlwaysStays,
     CallersImplement, PTL DEF EscrowPromises
=============================================================================
