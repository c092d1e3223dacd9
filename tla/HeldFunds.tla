------------------------------ MODULE HeldFunds ------------------------------
(***************************************************************************)
(* What the escrow component promises about the money of a booking, with   *)
(* no ledger, no state machine and no events: a payment is split into a    *)
(* pot held in trust and a platform fee; money leaves the pot only towards *)
(* the artist or the client; a frozen pot does not move until the dispute  *)
(* is settled; settling empties the pot once and for all; and the platform *)
(* gives its fee back only when the client gets everything that was left.  *)
(***************************************************************************)
EXTENDS Integers

CONSTANTS
    Bookings,   \* booking ids
    Payments    \* [amount, fee]: the cents held in trust and the platform's fee

VARIABLES
    phase,   \* booking -> "none", "open", "frozen" or "settled"
    pot,     \* booking -> cents held in trust
    artist,  \* booking -> cents owed to the artist
    client,  \* booking -> cents of the pot given back to the client
    fee      \* booking -> cents the platform keeps

vars == <<phase, pot, artist, client, fee>>

Init ==
    /\ phase  = [b \in Bookings |-> "none"]
    /\ pot    = [b \in Bookings |-> 0]
    /\ artist = [b \in Bookings |-> 0]
    /\ client = [b \in Bookings |-> 0]
    /\ fee    = [b \in Bookings |-> 0]

Pay(b) ==
    /\ phase[b] = "none"
    /\ phase' = [phase EXCEPT ![b] = "open"]
    /\ \E p \in Payments :
          /\ pot' = [pot EXCEPT ![b] = p.amount]
          /\ fee' = [fee EXCEPT ![b] = p.fee]
    /\ UNCHANGED <<artist, client>>

GiveBack(b) ==
    /\ phase[b] = "open"
    /\ \E cents \in 1 .. pot[b] :
          /\ pot' = [pot EXCEPT ![b] = @ - cents]
          /\ client' = [client EXCEPT ![b] = @ + cents]
    /\ UNCHANGED <<phase, artist, fee>>

Dispute(b) ==
    /\ phase[b] = "open"
    /\ phase' = [phase EXCEPT ![b] = "frozen"]
    /\ UNCHANGED <<pot, artist, client, fee>>

\* Only a dispute may be settled by giving something to both sides.
Settle(b) ==
    /\ phase[b] \in {"open", "frozen"}
    /\ phase' = [phase EXCEPT ![b] = "settled"]
    /\ pot' = [pot EXCEPT ![b] = 0]
    /\ \E share \in 0 .. pot[b] :
          /\ phase[b] = "open" => share \in {0, pot[b]}
          /\ artist' = [artist EXCEPT ![b] = @ + share]
          /\ client' = [client EXCEPT ![b] = @ + (pot[b] - share)]
          /\ \/ UNCHANGED fee
             \/ share = 0 /\ fee' = [fee EXCEPT ![b] = 0]

Next == \E b \in Bookings : Pay(b) \/ GiveBack(b) \/ Dispute(b) \/ Settle(b)

Spec == Init /\ [][Next]_vars
=============================================================================
