-------------------------- MODULE MCPaymentIntents --------------------------
(***************************************************************************)
(* Checkouts of one booking: locks at different rates, payments of the     *)
(* forms they hand out, late, repeated and concurrent ITNs.                *)
(***************************************************************************)
EXTENDS PaymentIntents, TLC

\* Two rates so far apart that the fee at one exceeds the total at the other.
MCTotalAt == <<3, 12>>
MCFeeAt   == <<1, 4>>

\* Holds are opened by the webhook alone.
MCCaptures == {}

\* Invocations are interchangeable, and so are payments.
Interchangeable == Permutations(Locks) \cup Permutations(Itns) \cup Permutations(PfPayments)
=============================================================================
