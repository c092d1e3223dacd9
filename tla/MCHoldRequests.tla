--------------------------- MODULE MCHoldRequests ---------------------------
(***************************************************************************)
(* Requests on one small hold, with one key and bodies that differ.        *)
(***************************************************************************)
EXTENDS HoldRequests, TLC

CONSTANTS Header

MCCaptures == {[amount |-> 2, fee |-> 1]}

MCRequestCents == 0 .. 1

\* A partial refund is asked with and without a key; it and the release have two bodies
\* for one key, and the other requests one.
MCAsks ==
    {Ask("partial-refund", b, body, header) :
        b \in Bookings, body \in [amountCents : {1}, faultParty : {"none", "ARTIST"}],
        header \in {Header, NoKey}}
    \cup {Ask("release", b, [note |-> text], Header) : b \in Bookings, text \in Texts}
    \cup {Ask("refund", b, [faultParty |-> "none"], Header) : b \in Bookings}
    \cup {Ask("resolve-split", b, [artistCents |-> 1, clientCents |-> 1], Header) : b \in Bookings}
    \cup {Ask(endpoint, b, [note |-> "note"], Header) :
             b \in Bookings, endpoint \in {"freeze", "resolve-release", "resolve-refund"}}

\* Requests are interchangeable.
RequestSymmetry == Permutations(Requests)
=============================================================================
