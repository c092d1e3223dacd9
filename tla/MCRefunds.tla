----------------------------- MODULE MCRefunds -----------------------------
(***************************************************************************)
(* Refunds on a small instance: one hold of a few cents with a fee, and    *)
(* calls that race on it.                                                  *)
(***************************************************************************)
EXTENDS Refunds, TLC

MCCaptures == {[amount |-> 2, fee |-> 1]}

\* Nothing, a part, and more than there is.
MCRequestCents == {0, 1, 3}

\* Calls are interchangeable.
CallSymmetry == Permutations(Calls)
=============================================================================
