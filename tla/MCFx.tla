-------------------------------- MODULE MCFx --------------------------------
(***************************************************************************)
(* Two currencies, a provider that publishes twice and may leave one of    *)
(* them out, two replicas that refresh, and one lock.  Rates are in        *)
(* tenths, so that products fall on, above and below half a cent.          *)
(***************************************************************************)
EXTENDS Fx, TLC

MCSupported == <<"ZAR", "USD">>

MCPublications == {[ZAR |-> 10, USD |-> 4], [ZAR |-> 10, USD |-> 3], [ZAR |-> 10, USD |-> 0]}

MCPinnedPairs == {<<"USD", "ZAR">>, <<"ZAR", "USD">>}

MCAmounts == {[currency |-> "USD", total |-> 3, fee |-> 1]}

\* Replicas are interchangeable.
RefresherSymmetry == Permutations(Refreshers)
=============================================================================
