------------------------------ MODULE MCEscrow ------------------------------
(***************************************************************************)
(* Escrow on a small instance: two bookings and payments whose cents allow *)
(* no refund, one or several partial refunds and an uneven split, and a    *)
(* client that lists the holds one by one.                                 *)
(***************************************************************************)
EXTENDS HoldListing, SequencesExt

\* A payment of several cents with a fee, and one of a single cent without.
MCCaptures == {[amount |-> 3, fee |-> 2], [amount |-> 1, fee |-> 0]}

\* From a negative request to one beyond the largest hold.
MCRequestCents == -1 .. 4

\* The order of the holds' ids.
MCIdOf(b) == CHOOSE i \in 1 .. Cardinality(Bookings) :
                SetToSeq(Bookings)[i] = b
=============================================================================
