-------------------------- MODULE MCReconciliation --------------------------
(***************************************************************************)
(* Reconciliation on a small instance: one booking that may be paid twice, *)
(* one refund call whose answers may be lost, and one run that starts at   *)
(* any moment.                                                             *)
(***************************************************************************)
EXTENDS Reconciliation, TLC

MCCaptures == {[amount |-> 2, fee |-> 1]}

MCRequestCents == 0 .. 1

\* Payments are interchangeable.
PaymentSymmetry == Permutations(Payments)
=============================================================================
