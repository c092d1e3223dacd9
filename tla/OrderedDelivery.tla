--------------------------- MODULE OrderedDelivery ---------------------------
(***************************************************************************)
(* What the outbox promises to whoever subscribes to its topics, with no   *)
(* rows, batches, instances and messages: an event is committed once,      *)
(* delivered at least once before it is settled, first delivered after the *)
(* earlier events it follows unless those have failed, and delivered again *)
(* only for one of finitely many workers, a counted failure or an          *)
(* interruption.                                                           *)
(***************************************************************************)
EXTENDS Naturals

CONSTANTS
    Events,
    Addressed,     \* the events that have somebody to be delivered to
    Preceding,     \* event -> the events about the same subject from before it
    Workers,       \* how many may deliver one event without knowing of each other
    FailureLimit   \* how often the delivery of one event may fail

VARIABLES
    committed,      \* the events whose change is committed
    follows,        \* event -> the earlier events that were committed before it
    deliveries,     \* event -> how often it was delivered
    failures,       \* event -> deliveries that were counted as failed
    settled,        \* the events that need no further delivery
    interruptions   \* workers that stopped in the middle

deliveryVars == <<committed, follows, deliveries, failures, settled, interruptions>>

DeliveryInit ==
    /\ committed = {} /\ settled = {}
    /\ follows = [e \in Events |-> {}]
    /\ deliveries = [e \in Events |-> 0]
    /\ failures = [e \in Events |-> 0]
    /\ interruptions = 0

\* In any order, and the order is kept.
Commit(e) ==
    /\ e \notin committed
    /\ committed' = committed \cup {e}
    /\ follows' = [follows EXCEPT ![e] = Preceding[e] \cap committed]
    /\ UNCHANGED <<deliveries, failures, settled, interruptions>>

\* Every repetition has its cause.
Arrive(e) ==
    /\ e \in committed \cap Addressed
    /\ \A f \in follows[e] \cap Addressed : deliveries[f] > 0 \/ failures[f] > 0
    /\ deliveries' = [deliveries EXCEPT ![e] = @ + 1]
    /\ deliveries'[e] <= Workers + failures'[e] + interruptions

Deliver(e) ==
    /\ Arrive(e)
    /\ UNCHANGED <<committed, follows, failures, settled, interruptions>>

\* A failure is counted, of a delivery that may have arrived all the same.
Fail(e) ==
    /\ e \in committed
    /\ failures[e] < FailureLimit
    /\ failures' = [failures EXCEPT ![e] = @ + 1]
    /\ Arrive(e) \/ UNCHANGED deliveries
    /\ UNCHANGED <<committed, follows, settled, interruptions>>

Settle(e) ==
    /\ e \in committed
    /\ e \in Addressed => deliveries[e] > 0
    /\ settled' = settled \cup {e}
    /\ UNCHANGED <<committed, follows, deliveries, failures, interruptions>>

Interrupt ==
    /\ interruptions' = interruptions + 1
    /\ UNCHANGED <<committed, follows, deliveries, failures, settled>>

DeliveryNext ==
    \/ \E e \in Events : Commit(e) \/ Deliver(e) \/ Fail(e) \/ Settle(e)
    \/ Interrupt

DeliverySpec == DeliveryInit /\ [][DeliveryNext]_deliveryVars
=============================================================================
