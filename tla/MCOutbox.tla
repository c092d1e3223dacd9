------------------------------ MODULE MCOutbox ------------------------------
(***************************************************************************)
(* The outbox on a small instance: two aggregates, one with two rows, two  *)
(* rows with the same created_at, one row without a topic, and two         *)
(* instances of the dispatcher.                                            *)
(***************************************************************************)
EXTENDS Outbox

MCSubjectOf == [e \in Rows |-> e % 2]
MCCreatedAt == [e \in Rows |-> IF e = 1 THEN 1 ELSE 2]
=============================================================================
