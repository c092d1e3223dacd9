----------------------------- MODULE MCPayouts -----------------------------
(***************************************************************************)
(* Payouts of one artist on a small instance.                              *)
(***************************************************************************)
EXTENDS Payouts, TLC

CONSTANT a1

MCArtistOf == [p \in Payouts |-> a1]

\* Runners are interchangeable, and so are payouts of the same artist.
Interchangeable == Permutations(Runners) \cup Permutations(Payouts)
=============================================================================
