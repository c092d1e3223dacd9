--------------------------- MODULE EventConsumers ---------------------------
(***************************************************************************)
(* The Pub/Sub subscriber and its handlers over the escrow component and   *)
(* the refunds service: PubSubSubscriber, ProcessedEventsService,          *)
(* BookingEventsHandler and DisputeEventsHandler.                          *)
(*                                                                         *)
(* Pub/Sub delivers at least once, in any order.  A delivery first inserts *)
(* the processed_events row, in a transaction of its own, and then runs    *)
(* the handler; a message whose row exists is acknowledged at once.  So a  *)
(* message has at most one run of its handler, identified by the message,  *)
(* and a handler that issues a refund makes the call of that name.         *)
(***************************************************************************)
EXTENDS Refunds

CONSTANT Contents   \* what a message may say

Kinds == {"completed", "cancelled_full", "cancelled_partial", "cancelled_none", "disputed",
          "resolved_release", "resolved_refund", "resolved_split", "invalid"}

\* artist and client are the cents of a split; client is also that of a partial refund.
ASSUME ContentsAssumption ==
    Contents \subseteq [kind : Kinds, booking : Bookings, faultParty : FaultParties,
                        artist : Nat, client : Nat]

Messages == Calls

VARIABLES
    content,    \* message -> what it says
    topic,      \* message -> "unsent", "outstanding" or "acked"
    processed,  \* processed_events: the messages marked as seen
    handler     \* message -> where its handler is, or how it ended

consumerVars == <<content, topic, processed, handler>>
allVars == <<refundsVars, consumerVars>>

HandlerPoints == {"none", "marked", "acting", "refunding", "no_hold", "done", "threw", "died"}

HandlerAt(m, point) == handler' = [handler EXCEPT ![m] = point]

Kind(m) == content[m].kind
HoldOf(m) == hold[content[m].booking]

Terminal == {"RELEASED", "REFUNDED"}

-----------------------------------------------------------------------------

Publish(m) ==
    /\ topic[m] = "unsent"
    /\ topic' = [topic EXCEPT ![m] = "outstanding"]
    /\ UNCHANGED <<refundsVars, content, processed, handler>>

\* Mutant: the row is looked for, but not inserted before the handler runs.
DeliverUnmarked(m) ==
    /\ topic[m] = "outstanding"
    /\ m \notin processed
    /\ HandlerAt(m, "marked")
    /\ UNCHANGED <<refundsVars, content, topic, processed>>

\* onMessage: markIfFirst says first.
Deliver(m) ==
    /\ topic[m] = "outstanding"
    /\ m \notin processed
    /\ processed' = processed \cup {m}
    /\ HandlerAt(m, "marked")
    /\ UNCHANGED <<refundsVars, content, topic>>

\* onMessage on a redelivery: skipped and acknowledged, however the first one went.
DeliverAgain(m) ==
    /\ topic[m] = "outstanding"
    /\ m \in processed
    /\ topic' = [topic EXCEPT ![m] = "acked"]
    /\ UNCHANGED <<refundsVars, content, processed, handler>>

\* Mutant: a completed booking is released only from HELD.
BookingNothingToDoUnlessHeld(kind) ==
    IF kind = "completed" THEN Terminal \cup {"DISPUTED", "PARTIALLY_REFUNDED"}
    ELSE IF kind = "disputed" THEN Terminal \cup {"DISPUTED"} ELSE {}

\* The states in which a handler, having read the hold, has nothing to do: that of the
\* bookings ...
BookingNothingToDo(kind) ==
    IF kind \in {"completed", "disputed"} THEN Terminal \cup {"DISPUTED"} ELSE {}

\* ... and that of the disputes.
DisputeNothingToDo(kind) ==
    IF kind \in {"resolved_release", "resolved_refund", "resolved_split"} THEN Terminal ELSE {}

\* The payload is validated, the hold looked up and its state checked.
ReadHold(m) ==
    /\ handler[m] = "marked"
    /\ HandlerAt(m,
         IF Kind(m) = "invalid" THEN "threw"
         ELSE IF HoldOf(m).state = "ABSENT" THEN "no_hold"
         ELSE IF HoldOf(m).state \in BookingNothingToDo(Kind(m)) \cup DisputeNothingToDo(Kind(m))
              THEN "done"
         ELSE "acting")
    /\ UNCHANGED <<refundsVars, content, topic, processed>>

\* The escrow operation of a message that moves no money at the gateway.
EscrowActionOf(kind) ==
    CASE kind \in {"completed", "cancelled_none"} -> "RELEASE"
      [] kind = "disputed"         -> "FREEZE"
      [] kind = "resolved_release" -> "RESOLVE_RELEASE"
      [] kind = "resolved_split"   -> "RESOLVE_SPLIT"

DirectKinds == {"completed", "cancelled_none", "disputed", "resolved_release", "resolved_split"}
RefundKinds == {"cancelled_full", "cancelled_partial", "resolved_refund"}

BookingOperation(m) ==
    \/ Kind(m) \in {"completed", "cancelled_none"} /\ Release(content[m].booking)
    \/ Kind(m) = "disputed" /\ Freeze(content[m].booking)

DisputeOperation(m) ==
    \/ Kind(m) = "resolved_release" /\ ResolveRelease(content[m].booking)
    \/ /\ Kind(m) = "resolved_split"
       /\ ResolveSplit(content[m].booking, content[m].artist, content[m].client)

\* The operation commits.
Act(m) ==
    /\ handler[m] = "acting"
    /\ BookingOperation(m) \/ DisputeOperation(m)
    /\ HandlerAt(m, "done")
    /\ UNCHANGED <<refundVars, content, topic, processed>>

\* It throws: an illegal transition is taken for done, a split that does not add up
\* is not.
ActRefused(m) ==
    /\ handler[m] = "acting"
    /\ Kind(m) \in DirectKinds
    /\ \/ /\ ~CanTransition(HoldOf(m).state, EscrowActionOf(Kind(m)))
          /\ HandlerAt(m, "done")
       \/ /\ CanTransition(HoldOf(m).state, EscrowActionOf(Kind(m)))
          /\ Kind(m) = "resolved_split"
          /\ content[m].artist + content[m].client # Remaining(HoldOf(m))
          /\ HandlerAt(m, "threw")
    /\ UNCHANGED <<refundsVars, content, topic, processed>>

RefundCents(m) ==
    IF Kind(m) = "cancelled_partial" THEN content[m].client ELSE Remaining(HoldOf(m))

FaultOf(m) ==
    CASE Kind(m) = "resolved_refund"   -> "ARTIST"
      [] Kind(m) = "cancelled_partial" -> "CLIENT"
      [] OTHER -> content[m].faultParty

\* issueRefund: its checks, then the call runs.
CallRefund(m) ==
    /\ handler[m] = "acting"
    /\ Kind(m) \in RefundKinds
    /\ Check(m, content[m].booking, RefundCents(m), FaultOf(m))
    /\ HandlerAt(m, "refunding")
    /\ UNCHANGED <<content, topic, processed>>

\* issueRefund refuses: a settled hold is taken for done, an excessive amount throws.
CallRefused(m) ==
    /\ handler[m] = "acting"
    /\ Kind(m) \in RefundKinds
    /\ ~Refundable(HoldOf(m), RefundCents(m))
    /\ HandlerAt(m, IF HoldOf(m).state \in Terminal \/ Remaining(HoldOf(m)) = 0
                    THEN "done" ELSE "threw")
    /\ UNCHANGED <<refundsVars, content, topic, processed>>

\* issueRefund returns, or throws: 502 and a broken transaction reach the subscriber,
\* an illegal transition is taken for done.
RefundReturns(m) ==
    /\ handler[m] = "refunding"
    /\ \/ call[m].pc = "done" /\ refunds[m].state = "SUCCEEDED" /\ HandlerAt(m, "done")
       \/ call[m].pc = "done" /\ refunds[m].state = "FAILED" /\ HandlerAt(m, "threw")
       \/ call[m].pc = "lost" /\ HandlerAt(m, "threw")
    /\ UNCHANGED <<refundsVars, content, topic, processed>>

\* The inner transaction of the refund throws, and the handler hears of it.
RefundRefused(m) ==
    /\ handler[m] = "refunding"
    /\ RefuseRefund(m)
    /\ HandlerAt(m, IF CanTransition(HoldOf(m).state,
                                     IF call[m].refundIsFull THEN "REFUND" ELSE "PARTIAL_REFUND")
                    THEN "threw" ELSE "done")
    /\ UNCHANGED <<content, topic, processed>>

\* message.ack().  A nack leaves the message outstanding: it will be delivered again,
\* and then acknowledged, so it never gets to the dead-letter topic.
Ack(m) ==
    /\ topic[m] = "outstanding"
    /\ handler[m] \in {"no_hold", "done"}
    /\ topic' = [topic EXCEPT ![m] = "acked"]
    /\ UNCHANGED <<refundsVars, content, processed, handler>>

\* The process dies while the handler runs, and the refund call with it.
Die(m) ==
    /\ Crashes
    /\ \/ handler[m] \in {"marked", "acting"} /\ UNCHANGED refundsVars
       \/ handler[m] = "refunding" /\ Lose(m)
    /\ HandlerAt(m, "died")
    /\ UNCHANGED <<content, topic, processed>>

-----------------------------------------------------------------------------

ConsumersInit ==
    /\ RefundsInit
    /\ content \in [Messages -> Contents]
    /\ topic     = [m \in Messages |-> "unsent"]
    /\ processed = {}
    /\ handler   = [m \in Messages |-> "none"]

\* What the subscriber, Pub/Sub and a running refund do by themselves.
Progress(m) ==
    \/ Deliver(m)
    \/ DeliverAgain(m)
    \/ ReadHold(m)
    \/ Act(m)
    \/ ActRefused(m)
    \/ CallRefund(m)
    \/ CallRefused(m)
    \/ RefundReturns(m)
    \/ RefundRefused(m)
    \/ Ack(m)
    \/ Continue(m) /\ call[m].pc # "accepted" /\ UNCHANGED consumerVars
    \/ BookRefund(m) /\ UNCHANGED consumerVars

ConsumersNext ==
    \/ \E m \in Messages : Publish(m) \/ Progress(m) \/ Die(m)
    \/ OtherStep /\ UNCHANGED consumerVars

ConsumersSpec == ConsumersInit /\ [][ConsumersNext]_allVars

-----------------------------------------------------------------------------
(***************************************************************************)
(* Properties.                                                             *)
(***************************************************************************)

\* Well-formed messages and handlers; only a marked message has a handler.
ConsumersTypeOK ==
    /\ RefundsTypeOK
    /\ content \in [Messages -> Contents]
    /\ topic \in [Messages -> {"unsent", "outstanding", "acked"}]
    /\ handler \in [Messages -> HandlerPoints]
    /\ processed = {m \in Messages : handler[m] # "none"}

\* A handler acts on a state it read before, and takes an illegal transition for done.
\* Still, one that ends without an error has not been overtaken for nothing: the money
\* of a completed booking is not left waiting, a disputed booking is not left open, a
\* cancelled one not left as it was, unless there was no money in it.
HandledTakesEffect ==
    \A m \in Messages :
        handler[m] = "done" =>
            /\ Kind(m) \in {"completed", "cancelled_none", "disputed"} =>
                  HoldOf(m).state \in Terminal \cup {"DISPUTED"}
            /\ Kind(m) \in {"cancelled_full", "cancelled_partial"} =>
                  HoldOf(m).state # "HELD" \/ HoldOf(m).amount = 0

-----------------------------------------------------------------------------
(***************************************************************************)
(* The inductive invariant behind it: what the hold of a message is by     *)
(* then, at each point of its handler and of the refund it has called.     *)
(***************************************************************************)

\* A refund that is booked has moved its hold on, and nothing moves it back.
BookedLeavesHeld(c) ==
    (call[c].pc = "booked" \/ (call[c].pc = "done" /\ refunds[c].state = "SUCCEEDED"))
        => HoldOf(c).state \in HoldStates \ {"HELD"}

\* The refund of a message is one of its booking, and the handler has seen the hold.
HandlerAccounted(m) ==
    /\ handler[m] \in {"acting", "refunding", "done"} => HoldOf(m).state # "ABSENT"
    /\ handler[m] = "refunding" => call[m].pc # "idle" /\ Kind(m) \in RefundKinds
    /\ call[m].pc # "idle" => call[m].booking = content[m].booking

ConsumersInv ==
    /\ CallsInv
    /\ ConsumersTypeOK
    /\ HandledTakesEffect
    /\ \A m \in Messages : BookedLeavesHeld(m) /\ HandlerAccounted(m)

-----------------------------------------------------------------------------
(***************************************************************************)
(* What a comment says, which the code does not do.                        *)
(***************************************************************************)

\* "REFUND_TO_CLIENT -> RefundsService.issueRefund(full, faultParty=ARTIST), the fee
\* reversal happens here, exactly like an admin-initiated artist-fault refund": once
\* PayFast has refunded the client and the handler is done, the hold is REFUNDED.
RefundToClientBooked ==
    \A m \in Messages :
        handler[m] = "done" /\ Kind(m) = "resolved_refund" /\ sent[m] # 0 =>
            HoldOf(m).state = "REFUNDED"
=============================================================================
