--------------------------- MODULE CollectedFunds ---------------------------
(***************************************************************************)
(* What a checkout promises, on top of what HeldFunds says of the money of *)
(* a booking and with no intents, ITNs and webhook: a client is offered a  *)
(* booking for a total, may accept any offer ever made, and a pot is       *)
(* opened once, of the whole of one accepted total, less a fee that was    *)
(* quoted.  A payment that opens no pot stays known as collected.          *)
(***************************************************************************)
EXTENDS HeldFunds

CONSTANTS
    PaymentIds,
    Totals,      \* what a booking may cost the client
    Fees         \* what the platform may ask of it

VARIABLES
    offers,      \* the offers made: [booking, total]
    collected,   \* payment -> the offer the client has paid
    backing      \* booking -> the payments its pot was opened with

checkoutVars == <<offers, collected, backing>>

NotCollected == [total |-> 0]

CollectedInit ==
    /\ Init
    /\ offers = {}
    /\ collected = [p \in PaymentIds |-> NotCollected]
    /\ backing = [b \in Bookings |-> {}]

Offer(b, total) ==
    /\ offers' = offers \cup {[booking |-> b, total |-> total]}
    /\ UNCHANGED <<vars, collected, backing>>

Collect(p, offer) ==
    /\ collected[p] = NotCollected
    /\ collected' = [collected EXCEPT ![p] = offer]
    /\ UNCHANGED <<vars, offers, backing>>

\* Nothing of what the client has paid is left out of the pot and the fee.
Open(b, p, cents) ==
    /\ collected[p] # NotCollected /\ collected[p].booking = b
    /\ phase[b] = "none" /\ backing[b] = {}
    /\ phase' = [phase EXCEPT ![b] = "open"]
    /\ collected[p].total >= cents
    /\ pot' = [pot EXCEPT ![b] = collected[p].total - cents]
    /\ fee' = [fee EXCEPT ![b] = cents]
    /\ backing' = [backing EXCEPT ![b] = {p}]
    /\ UNCHANGED <<artist, client, offers, collected>>

\* What becomes of a pot afterwards needs no further payment and takes none.
Later(b) ==
    /\ GiveBack(b) \/ Dispute(b) \/ Settle(b)
    /\ UNCHANGED checkoutVars

CollectedNext ==
    \/ \E b \in Bookings, total \in Totals : Offer(b, total)
    \/ \E p \in PaymentIds, offer \in offers : Collect(p, offer)
    \/ \E b \in Bookings, p \in PaymentIds, cents \in Fees : Open(b, p, cents)
    \/ \E b \in Bookings : Later(b)

CollectedSpec == CollectedInit /\ [][CollectedNext]_<<vars, checkoutVars>>
=============================================================================
