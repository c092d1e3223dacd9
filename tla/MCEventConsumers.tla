-------------------------- MODULE MCEventConsumers --------------------------
(***************************************************************************)
(* Messages about one booking, of every kind, delivered in any order.      *)
(***************************************************************************)
EXTENDS EventConsumers, TLC

CONSTANT b1

MCCaptures == {[amount |-> 2, fee |-> 1], [amount |-> 0, fee |-> 0]}
MCRequestCents == {1}

Say(kind, fault, artist, client) ==
    [kind |-> kind, booking |-> b1, faultParty |-> fault, artist |-> artist, client |-> client]

MCContents ==
    {Say("completed", "CLIENT", 0, 0),
     Say("cancelled_full", "ARTIST", 0, 0),
     Say("cancelled_full", "CLIENT", 0, 0),
     Say("cancelled_partial", "CLIENT", 0, 1),
     Say("cancelled_partial", "CLIENT", 0, 3),
     Say("cancelled_none", "CLIENT", 0, 0),
     Say("disputed", "CLIENT", 0, 0),
     Say("resolved_release", "CLIENT", 0, 0),
     Say("resolved_refund", "CLIENT", 0, 0),
     Say("resolved_split", "CLIENT", 1, 1),
     Say("invalid", "CLIENT", 0, 0)}

\* Messages are interchangeable.
MessageSymmetry == Permutations(Messages)
=============================================================================
