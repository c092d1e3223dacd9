---------------------------- MODULE EscrowRules ----------------------------
(***************************************************************************)
(* The pure rules of the escrow component: the transition table of         *)
(* escrow-state.machine.ts and the ledger-entry builders of                *)
(* ledger.service.ts.  A ledger event is a function from accounts to       *)
(* signed cents, a CREDIT counting as positive and a DEBIT as negative.    *)
(***************************************************************************)
EXTENDS Integers

HoldStates == {"HELD", "PARTIALLY_REFUNDED", "DISPUTED", "RELEASED", "REFUNDED"}

\* The states in which the platform still owes the money to somebody.
OpenStates == {"HELD", "PARTIALLY_REFUNDED", "DISPUTED"}

EscrowActions == {"RELEASE", "REFUND", "PARTIAL_REFUND", "FREEZE",
                  "RESOLVE_RELEASE", "RESOLVE_REFUND", "RESOLVE_SPLIT"}

\* Mutant: a released hold can still be refunded.
TransitionsRefundAfterRelease ==
    [HELD               |-> [RELEASE |-> "RELEASED", REFUND |-> "REFUNDED"],
     PARTIALLY_REFUNDED |-> [RELEASE |-> "RELEASED"],
     DISPUTED           |-> [RESOLVE_RELEASE |-> "RELEASED"],
     RELEASED           |-> [REFUND |-> "REFUNDED"],
     REFUNDED           |-> <<>>]

\* From a state, the legal actions and where they lead; <<>> is a terminal state.
Transitions ==
    [HELD |->
        [RELEASE        |-> "RELEASED",
         REFUND         |-> "REFUNDED",
         PARTIAL_REFUND |-> "PARTIALLY_REFUNDED",
         FREEZE         |-> "DISPUTED"],
     PARTIALLY_REFUNDED |->
        [RELEASE        |-> "RELEASED",
         PARTIAL_REFUND |-> "PARTIALLY_REFUNDED",
         FREEZE         |-> "DISPUTED"],
     DISPUTED |->
        [RESOLVE_RELEASE |-> "RELEASED",
         RESOLVE_REFUND  |-> "REFUNDED",
         RESOLVE_SPLIT   |-> "REFUNDED"],
     RELEASED |-> <<>>,
     REFUNDED |-> <<>>]

FrozenBypassActions == {"RESOLVE_RELEASE", "RESOLVE_REFUND", "RESOLVE_SPLIT"}

CanTransition(from, act) == from \in HoldStates /\ act \in DOMAIN Transitions[from]

\* Mutants: a split leaves the hold open; a dispute won by the artist re-opens it; a
\* partial refund leaves no mark on the state.
NextStateSplitLeavesOpen(from, act) ==
    IF act = "RESOLVE_SPLIT" THEN "PARTIALLY_REFUNDED" ELSE Transitions[from][act]
NextStateReleaseReopens(from, act) ==
    IF act = "RESOLVE_RELEASE" THEN "HELD" ELSE Transitions[from][act]
NextStatePartialStaysHeld(from, act) ==
    IF act = "PARTIAL_REFUND" THEN "HELD" ELSE Transitions[from][act]

NextState(from, act) == Transitions[from][act]

-----------------------------------------------------------------------------

Accounts == {"PAYFAST_SETTLEMENT", "ESCROW_LIABILITY", "PLATFORM_REVENUE",
             "ARTIST_PAYABLE", "REFUNDS_ISSUED"}

FaultParties == {"ARTIST", "CLIENT"}

NoEntries == [acc \in Accounts |-> 0]

\* Mutant: the platform's fee is held in trust with the rest.
CaptureEntriesAllInTrust(cents, fee) ==
    [NoEntries EXCEPT !["PAYFAST_SETTLEMENT"] = -(cents + fee),
                      !["ESCROW_LIABILITY"]   = cents + fee]

\* What the ITN books when a payment of hold + fee cents settles.
CaptureEntries(cents, fee) ==
    [NoEntries EXCEPT !["PAYFAST_SETTLEMENT"] = -(cents + fee),
                      !["ESCROW_LIABILITY"]   = cents,
                      !["PLATFORM_REVENUE"]   = fee]

ReleaseEntries(cents) ==
    [NoEntries EXCEPT !["ESCROW_LIABILITY"] = -cents,
                      !["ARTIST_PAYABLE"]   = cents]

\* Mutant: every refund at the artist's fault gives the fee back.
ReversedFeeOnPartials(fee, faultParty, refundIsFull) ==
    IF faultParty = "ARTIST" THEN fee ELSE 0

ReversedFee(fee, faultParty, refundIsFull) ==
    IF faultParty = "ARTIST" /\ refundIsFull THEN fee ELSE 0

RefundEntries(fee, cents, faultParty, refundIsFull) ==
    LET reversed == ReversedFee(fee, faultParty, refundIsFull) IN
    [NoEntries EXCEPT !["ESCROW_LIABILITY"] = -cents,
                      !["PLATFORM_REVENUE"] = -reversed,
                      !["REFUNDS_ISSUED"]   = cents + reversed]

\* Mutant: the two shares change places.
SplitEntriesSwapped(artistCents, clientCents) ==
    [NoEntries EXCEPT !["ESCROW_LIABILITY"] = -(artistCents + clientCents),
                      !["ARTIST_PAYABLE"]   = clientCents,
                      !["REFUNDS_ISSUED"]   = artistCents]

SplitEntries(artistCents, clientCents) ==
    [NoEntries EXCEPT !["ESCROW_LIABILITY"] = -(artistCents + clientCents),
                      !["ARTIST_PAYABLE"]   = artistCents,
                      !["REFUNDS_ISSUED"]   = clientCents]

\* Debits equal credits: the signed amounts cancel.
Balanced(entries) ==
    entries["PAYFAST_SETTLEMENT"] + entries["ESCROW_LIABILITY"]
      + entries["PLATFORM_REVENUE"] + entries["ARTIST_PAYABLE"]
      + entries["REFUNDS_ISSUED"] = 0

Post(balances, entries) == [acc \in Accounts |-> balances[acc] + entries[acc]]
=============================================================================
