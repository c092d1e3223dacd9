---------------------------- MODULE RefundedFunds ----------------------------
(***************************************************************************)
(* What a refund call promises, on top of what HeldFunds says of the money *)
(* of a booking and with no program counter, no stale read and no answer   *)
(* of PayFast: somebody asks for an amount that was paid for a booking; it *)
(* is sent a bounded number of times, until the call is booked or given    *)
(* up; it leaves the pot in one step, which is the step that books it;     *)
(* and the platform is told the outcome at the end, once.  A call may stop *)
(* for good after any of this.                                             *)
(***************************************************************************)
EXTENDS HeldFunds, Sequences

CONSTANTS
    Calls,      \* refund calls
    SendLimit   \* how often the amount of a call may be sent

VARIABLES
    ask,     \* call -> the booking it is about and the cents to give back
    sent,    \* call -> cents that have left for the client's card
    booked,  \* call -> cents by which the call has moved the pot
    told     \* call -> what the platform was told of its outcome

callVars == <<ask, sent, booked, told>>

NothingAsked == [cents |-> 0]

RefundedInit ==
    /\ Init
    /\ ask    = [c \in Calls |-> NothingAsked]
    /\ sent   = [c \in Calls |-> 0]
    /\ booked = [c \in Calls |-> 0]
    /\ told   = [c \in Calls |-> <<>>]

\* At most what was ever paid for the booking; what is left in the pot is not known yet.
Ask(c) ==
    /\ ask[c] = NothingAsked
    /\ \E b \in Bookings : \E cents \in 1 .. pot[b] + artist[b] + client[b] :
          ask' = [ask EXCEPT ![c] = [booking |-> b, cents |-> cents]]
    /\ UNCHANGED <<vars, sent, booked, told>>

Underway(c) == ask[c] # NothingAsked /\ booked[c] = 0 /\ told[c] = <<>>

Send(c) ==
    /\ Underway(c)
    /\ sent[c] + ask[c].cents <= SendLimit * ask[c].cents
    /\ sent' = [sent EXCEPT ![c] = @ + ask[c].cents]
    /\ UNCHANGED <<vars, ask, booked, told>>

\* The pot moves by what was asked for and has been sent, towards the client only.
Book(c) ==
    LET b == ask[c].booking IN
    /\ Underway(c)
    /\ sent[c] >= ask[c].cents
    /\ phase[b] = "open"
    /\ GiveBack(b) \/ Settle(b)
    /\ client' = [client EXCEPT ![b] = @ + ask[c].cents]
    /\ booked' = [booked EXCEPT ![c] = ask[c].cents]
    /\ UNCHANGED <<artist, ask, sent, told>>

Confirm(c) ==
    /\ booked[c] # 0
    /\ told[c] = <<>>
    /\ told' = [told EXCEPT ![c] = <<"payments.refund.succeeded">>]
    /\ UNCHANGED <<vars, ask, sent, booked>>

GiveUp(c) ==
    /\ Underway(c)
    /\ told' = [told EXCEPT ![c] = <<"payments.refund.failed">>]
    /\ UNCHANGED <<vars, ask, sent, booked>>

CallStep(c) == Ask(c) \/ Send(c) \/ Book(c) \/ Confirm(c) \/ GiveUp(c)

\* Or the money of a booking moves for another reason.
RefundedNext ==
    \/ \E c \in Calls : CallStep(c)
    \/ Next /\ UNCHANGED callVars

RefundedSpec == RefundedInit /\ [][RefundedNext]_<<vars, callVars>>
=============================================================================
