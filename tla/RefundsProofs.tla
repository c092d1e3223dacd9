--------------------------- MODULE RefundsProofs ---------------------------
(***************************************************************************)
(* Proofs about Refunds, for any bookings, payments, amounts and number of *)
(* calls, with or without answers that hide a refund and calls that are    *)
(* lost; and about EventConsumers, for any messages that make such calls.  *)
(***************************************************************************)
EXTENDS EventConsumers, EscrowProofs

Announcements == Seq({"payments.refund.succeeded", "payments.refund.failed"})

\* How often PayFast can have sent the money of a call.
SendLimit == IF LostAnswers THEN MaxAttempts ELSE 1

LEMMA EvolvesReflexive ==
    ASSUME IInv, hold' = hold
    PROVE  \A b \in Bookings : Evolves(hold[b], hold'[b])
  BY DEF IInv, TypeOK, HoldRow, Evolves

\* A call that has begun has all its local variables.
LEMMA CallType ==
    ASSUME CallsInv, NEW c \in Calls
    PROVE  /\ refunds[c] \in RefundRow
           /\ booked[c] \in Nat
           /\ announced[c] \in Announcements
           /\ sent[c] \in Nat
           /\ sent[c] <= SendLimit * refunds[c].cents
           /\ CallAccounted(c)
           /\ AttemptsAccounted(c)
           /\ call[c].pc \in CallPoints
           /\ call[c].pc # "idle" => call[c] \in CallRow
           /\ call[c].pc = "idle" => call[c] = NoCall
  BY DEF CallsInv, RefundsTypeOK, SendsBounded, SendLimit, Announcements, CallRow, NoCall,
         CallPoints

\* The rows of a call are as they were and its hold has only moved on.
LEMMA CallStays ==
    ASSUME CallsInv, NEW d \in Calls,
           \A b \in Bookings : Evolves(hold[b], hold'[b]),
           call'[d] = call[d], refunds'[d] = refunds[d], booked'[d] = booked[d],
           announced'[d] = announced[d], sent'[d] = sent[d]
    PROVE  CallAccounted(d)' /\ AttemptsAccounted(d)'
<1>1. CallAccounted(d) /\ AttemptsAccounted(d)
  BY DEF CallsInv
<1>2. ASSUME call[d].pc \in {"checked", "calling", "accepted"}, WholeOrMovedOn(d)
      PROVE  WholeOrMovedOn(d)'
  <2>1. call[d].booking \in Bookings
    BY <1>2, CallType DEF CallRow
  <2>2. Evolves(hold[call[d].booking], hold'[call[d].booking])
    BY <2>1
  <2>3. QED
    BY <1>2, <2>2 DEF WholeOrMovedOn, Evolves
<1>3. QED
  BY <1>1, <1>2 DEF CallAccounted, AttemptsAccounted, Untouched, Processing, Booked

\* Only the point of a call moves.
Moved(c, point) ==
    /\ call' \in [Calls -> CallRow \cup {NoCall}]
    /\ call'[c].pc = point
    /\ call'[c].booking = call[c].booking
    /\ call'[c].cents = call[c].cents
    /\ call'[c].refundIsFull = call[c].refundIsFull
    /\ call'[c].attempts = call[c].attempts
    /\ \A d \in Calls \ {c} : call'[d] = call[d]

LEMMA GotoMoves ==
    ASSUME CallsInv, NEW c \in Calls, NEW point \in CallPoints \ {"idle"},
           call[c].pc # "idle", Goto(c, point)
    PROVE  Moved(c, point)
<1>1. RefundsTypeOK /\ call[c] \in CallRow
  BY CallType DEF CallsInv
<1> DEFINE state == [call[c] EXCEPT !.pc = point]
<1>2. call' = [call EXCEPT ![c] = state]
  BY DEF Goto
<1>3. state \in CallRow
  BY <1>1 DEF CallRow
<1>4. /\ call' \in [Calls -> CallRow \cup {NoCall}]
      /\ call'[c] = state
      /\ \A d \in Calls \ {c} : call'[d] = call[d]
  <2> HIDE DEF state
  <2>1. QED
    BY <1>1, <1>2, <1>3 DEF RefundsTypeOK
<1>5. /\ state.pc = point
      /\ state.booking = call[c].booking
      /\ state.cents = call[c].cents
      /\ state.refundIsFull = call[c].refundIsFull
      /\ state.attempts = call[c].attempts
  BY <1>1 DEF CallRow
<1>6. QED
  BY <1>4, <1>5 DEF Moved

\* What CloseRow does to a call in progress.
Closed(c, state, event) ==
    /\ refunds' \in [Calls -> RefundRow]
    /\ announced' \in [Calls -> Announcements]
    /\ refunds'[c].state = state
    /\ refunds'[c].cents = call[c].cents
    /\ announced'[c] = <<event>>
    /\ \A d \in Calls \ {c} : refunds'[d] = refunds[d] /\ announced'[d] = announced[d]

LEMMA CloseRowCloses ==
    ASSUME CallsInv, NEW c \in Calls, NEW state \in {"SUCCEEDED", "FAILED"},
           NEW event \in {"payments.refund.succeeded", "payments.refund.failed"},
           Processing(c), CloseRow(c, state, event)
    PROVE  Closed(c, state, event)
<1> DEFINE row == [state |-> state, cents |-> call[c].cents]
           said == <<event>>
<1>1. /\ refunds \in [Calls -> RefundRow]
      /\ announced \in [Calls -> Announcements]
  BY DEF CallsInv, RefundsTypeOK, Announcements
<1>2. refunds' = [refunds EXCEPT ![c] = row]
  <2>1. [refunds[c] EXCEPT !.state = state] = row
    BY <1>1 DEF Processing
  <2>2. QED
    BY <2>1 DEF CloseRow
<1>3. announced' = [announced EXCEPT ![c] = said]
  <2>1. Append(announced[c], event) = said
    BY DEF Processing
  <2>2. QED
    BY <2>1 DEF CloseRow
<1>4. row \in RefundRow
  BY <1>1 DEF Processing, RefundRow
<1>5. said \in Announcements
  BY DEF Announcements
<1>6. row.state = state /\ row.cents = call[c].cents
  OBVIOUS
<1> HIDE DEF row, said
<1>7. /\ refunds' \in [Calls -> RefundRow]
      /\ announced' \in [Calls -> Announcements]
      /\ refunds'[c] = row
      /\ announced'[c] = said
      /\ \A d \in Calls \ {c} : refunds'[d] = refunds[d] /\ announced'[d] = announced[d]
  BY <1>1, <1>2, <1>3, <1>4, <1>5
<1>8. QED
  BY <1>6, <1>7 DEF Closed, said

\* A step of one call: it is enough to look at its own rows.
LEMMA CallStep ==
    ASSUME CallsInv, IInv', RefundsTypeOK', NEW c \in Calls,
           \A b \in Bookings : Evolves(hold[b], hold'[b]),
           \A d \in Calls \ {c} :
              /\ call'[d] = call[d]
              /\ refunds'[d] = refunds[d]
              /\ booked'[d] = booked[d]
              /\ announced'[d] = announced[d]
              /\ sent'[d] = sent[d],
           sent'[c] <= SendLimit * refunds'[c].cents,
           CallAccounted(c)', AttemptsAccounted(c)'
    PROVE  CallsInv'
<1>1. ASSUME NEW d \in Calls
      PROVE  /\ CallAccounted(d)'
             /\ AttemptsAccounted(d)'
             /\ sent'[d] <= SendLimit * refunds'[d].cents
  <2>1. CASE d = c
    BY <2>1
  <2>2. CASE d # c
    <3>1. /\ call'[d] = call[d]
          /\ refunds'[d] = refunds[d]
          /\ booked'[d] = booked[d]
          /\ announced'[d] = announced[d]
          /\ sent'[d] = sent[d]
      BY <2>2
    <3>2. QED
      BY <3>1, CallStays, CallType
  <2>3. QED
    BY <2>1, <2>2
<1>2. SendsBounded'
  BY <1>1 DEF SendsBounded, SendLimit
<1>3. QED
  BY <1>1, <1>2 DEF CallsInv

-----------------------------------------------------------------------------
(***************************************************************************)
(* The steps of a call, one by one.                                        *)
(***************************************************************************)

LEMMA CheckInv ==
    ASSUME CallsInv, NEW c \in Calls, NEW b \in Bookings, NEW cents \in Int,
           NEW fault \in FaultParties, Check(c, b, cents, fault)
    PROVE  CallsInv'
<1> DEFINE state == [pc |-> "checked", booking |-> b, cents |-> cents, faultParty |-> fault,
                     refundIsFull |-> cents = Remaining(hold[b]), attempts |-> 0]
<1>1. /\ call[c] = NoCall
      /\ hold[b].state \in OpenStates
      /\ cents \in 1 .. Remaining(hold[b])
      /\ call' = [call EXCEPT ![c] = state]
      /\ hold' = hold
      /\ UNCHANGED <<ledger, trail, payouts, outbox, refunds, booked, announced, sent>>
  BY DEF Check, Refundable, escrowVars
<1>2. IInv /\ IInv' /\ \A x \in Bookings : Evolves(hold[x], hold'[x])
  BY <1>1, StutterInv, EvolvesReflexive DEF CallsInv, escrowVars
<1>3. RefundsTypeOK
  BY DEF CallsInv
<1>4. state \in CallRow
  <2>1. cents \in Nat \ {0}
    BY <1>1, <1>2, RemainingNat
  <2>2. 0 \in 0 .. MaxAttempts
    BY RefundsAssumption
  <2>3. QED
    BY <2>1, <2>2 DEF CallRow, CallPoints
<1>5. RefundsTypeOK'
  <2>1. call' \in [Calls -> CallRow \cup {NoCall}]
    <3> HIDE DEF state
    <3>1. QED
      BY <1>1, <1>3, <1>4 DEF RefundsTypeOK
  <2>2. QED
    BY <1>1, <1>2, <1>3, <2>1 DEF RefundsTypeOK, IInv
<1>6. Untouched(c) /\ call'[c] = state
  <2>1. Untouched(c)
    BY <1>1, CallType DEF CallAccounted, NoCall
  <2>2. call'[c] = state
    <3> HIDE DEF state
    <3>1. QED
      BY <1>1, <1>3 DEF RefundsTypeOK
  <2>3. QED
    BY <2>1, <2>2
<1>7. ASSUME call'[c].refundIsFull
      PROVE  WholeOrMovedOn(c)'
  <2>1. hold[b] # NoHold
    BY <1>1 DEF OpenStates, NoHold
  <2>2. hold[b].state = "HELD" => Remaining(hold[b]) = hold[b].amount
    BY <1>2, RemainingNat
  <2>3. call'[c].refundIsFull = (cents = Remaining(hold[b]))
    BY <1>6
  <2>4. call'[c].booking = b /\ call'[c].cents = cents
    BY <1>6
  <2>5. cents = Remaining(hold[b])
    BY <1>7, <2>3
  <2>6. QED
    BY <1>1, <2>1, <2>2, <2>4, <2>5 DEF WholeOrMovedOn
<1>8. CallAccounted(c)' /\ AttemptsAccounted(c)'
  <2>1. Untouched(c)'
    BY <1>1, <1>6 DEF Untouched
  <2>2. call'[c].pc = "checked" /\ call'[c].attempts = 0
    BY <1>6
  <2>3. QED
    BY <1>7, <2>1, <2>2 DEF CallAccounted, AttemptsAccounted
<1>9. \A d \in Calls \ {c} : call'[d] = call[d]
  <2> HIDE DEF state
  <2>1. QED
    BY <1>1, <1>3 DEF RefundsTypeOK
<1>10. sent'[c] <= SendLimit * refunds'[c].cents
  BY <1>1, CallType
<1>11. QED
  BY <1>1, <1>2, <1>5, <1>8, <1>9, <1>10, CallStep

LEMMA InsertRowInv ==
    ASSUME CallsInv, NEW c \in Calls, InsertRow(c)
    PROVE  CallsInv'
<1> DEFINE row == [state |-> "PROCESSING", cents |-> call[c].cents]
<1>1. /\ call[c].pc = "checked"
      /\ Goto(c, "calling")
      /\ refunds' = [refunds EXCEPT ![c] = row]
      /\ hold' = hold
      /\ UNCHANGED <<ledger, trail, payouts, outbox, booked, announced, sent>>
  BY DEF InsertRow, escrowVars
<1>2. IInv /\ IInv' /\ \A x \in Bookings : Evolves(hold[x], hold'[x])
  BY <1>1, StutterInv, EvolvesReflexive DEF CallsInv, escrowVars
<1>3. Moved(c, "calling")
  BY <1>1, GotoMoves DEF CallPoints
<1>4. /\ RefundsTypeOK
      /\ call[c] \in CallRow
      /\ row \in RefundRow
  BY <1>1, CallType DEF CallRow, RefundRow, CallsInv
<1>5. /\ RefundsTypeOK'
      /\ refunds'[c] = row
      /\ \A d \in Calls \ {c} : refunds'[d] = refunds[d]
  BY <1>1, <1>2, <1>3, <1>4 DEF RefundsTypeOK, IInv, Moved
<1>6. /\ Untouched(c)
      /\ call[c].attempts = 0
      /\ call[c].refundIsFull => WholeOrMovedOn(c)
  BY <1>1, CallType DEF CallAccounted, AttemptsAccounted
<1>7. CallAccounted(c)'
  BY <1>1, <1>3, <1>5, <1>6
     DEF Moved, CallAccounted, Untouched, Processing, WholeOrMovedOn
<1>8. AttemptsAccounted(c)'
  <2>1. /\ call'[c].pc = "calling"
        /\ call'[c].attempts = 0
        /\ call'[c].cents \in Nat
        /\ sent'[c] = 0
    BY <1>1, <1>3, <1>4, <1>6 DEF CallRow, Untouched, Moved
  <2>2. QED
    BY <2>1, RefundsAssumption DEF AttemptsAccounted
<1>9. sent'[c] <= SendLimit * refunds'[c].cents
  BY <1>1, <1>4, <1>5, <1>6, RefundsAssumption DEF SendLimit, RefundRow, Untouched
<1>10. QED
  BY <1>1, <1>2, <1>3, <1>5, <1>7, <1>8, <1>9, CallStep DEF Moved

\* One more attempt still fits in the limit.
LEMMA OneMore ==
    ASSUME NEW n \in Nat, NEW m \in Nat, n < m, NEW k \in Nat
    PROVE  /\ n * k + k = (n + 1) * k
           /\ (n + 1) * k <= m * k
<1>1. n * k + k = (n + 1) * k
  OBVIOUS
<1>2. PICK rest \in Nat : m = (n + 1) + rest
  <2>1. m - (n + 1) \in Nat /\ m = (n + 1) + (m - (n + 1))
    OBVIOUS
  <2>2. QED
    BY <2>1
<1>3. m * k = (n + 1) * k + rest * k
  BY <1>2
<1>4. rest * k >= 0
  OBVIOUS
<1>5. (n + 1) * k \in Nat /\ rest * k \in Nat
  OBVIOUS
<1>6. QED
  BY <1>1, <1>3, <1>4, <1>5

LEMMA SendFits ==
    ASSUME CallsInv, NEW c \in Calls, call[c].pc = "calling"
    PROVE  /\ call[c] \in CallRow
           /\ refunds[c].cents = call[c].cents
           /\ sent[c] \in Nat
           /\ sent[c] <= SendLimit * call[c].cents
           /\ sent[c] + call[c].cents <= SendLimit * call[c].cents
           /\ LostAnswers => sent[c] + call[c].cents <= (call[c].attempts + 1) * call[c].cents
<1> DEFINE n == call[c].attempts
           k == call[c].cents
<1>1. /\ call[c] \in CallRow
      /\ refunds[c].cents = k
      /\ sent[c] \in Nat
      /\ sent[c] <= SendLimit * k
      /\ n < MaxAttempts
      /\ sent[c] <= (IF LostAnswers THEN n ELSE 0) * k
  <2>1. /\ call[c] \in CallRow
        /\ sent[c] \in Nat
        /\ sent[c] <= SendLimit * refunds[c].cents
        /\ CallAccounted(c) /\ AttemptsAccounted(c)
    BY CallType
  <2>2. refunds[c].cents = k
    BY <2>1 DEF CallAccounted, Processing
  <2>3. QED
    BY <2>1, <2>2 DEF AttemptsAccounted
<1>2. n \in Nat /\ k \in Nat /\ MaxAttempts \in Nat
  BY <1>1, RefundsAssumption DEF CallRow
<1>3. CASE LostAnswers
  <2>1. /\ sent[c] <= n * k
        /\ n * k + k = (n + 1) * k
        /\ (n + 1) * k <= MaxAttempts * k
    BY <1>1, <1>2, <1>3, OneMore
  <2>2. n * k \in Nat /\ (n + 1) * k \in Nat /\ MaxAttempts * k \in Nat
    BY <1>2
  <2>3. sent[c] + k <= (n + 1) * k /\ sent[c] + k <= MaxAttempts * k
    <3> HIDE DEF n, k
    <3>1. QED
      BY <1>1, <1>2, <2>1, <2>2
  <2>4. QED
    BY <1>1, <1>3, <2>3 DEF SendLimit
<1>4. CASE ~LostAnswers
  <2>1. sent[c] <= 0 /\ SendLimit * k = k
    BY <1>1, <1>2, <1>4 DEF SendLimit
  <2>2. QED
    BY <1>1, <1>2, <1>4, <2>1
<1>5. QED
  BY <1>3, <1>4

\* PayFast has the last word on a call: it has sent the money once more, or not.
LEMMA AnswerInv ==
    ASSUME CallsInv, NEW c \in Calls, NEW point \in {"accepted", "failed"},
           call[c].pc = "calling", Goto(c, point),
           \/ sent' = sent /\ point = "failed"
           \/ sent' = [sent EXCEPT ![c] = @ + call[c].cents],
           UNCHANGED <<escrowVars, refunds, booked, announced>>
    PROVE  CallsInv'
<1>1. /\ hold' = hold
      /\ UNCHANGED <<refunds, booked, announced>>
  BY DEF escrowVars
<1>2. IInv /\ IInv' /\ \A x \in Bookings : Evolves(hold[x], hold'[x])
  BY <1>1, StutterInv, EvolvesReflexive DEF CallsInv
<1>3. Moved(c, point)
  BY GotoMoves DEF CallPoints
<1>4. /\ RefundsTypeOK
      /\ call[c] \in CallRow
      /\ call[c].cents \in Nat
      /\ sent[c] \in Nat
      /\ sent[c] + call[c].cents \in Nat
  BY CallType DEF CallRow, CallsInv
<1>5. /\ sent' \in [Calls -> Nat]
      /\ \A d \in Calls \ {c} : sent'[d] = sent[d]
      /\ \/ sent'[c] = sent[c] /\ point = "failed"
         \/ sent'[c] = sent[c] + call[c].cents
  BY <1>4 DEF RefundsTypeOK
<1>6. RefundsTypeOK'
  BY <1>1, <1>2, <1>3, <1>4, <1>5 DEF RefundsTypeOK, IInv, Moved
<1>7. sent'[c] <= SendLimit * refunds'[c].cents
  BY <1>1, <1>5, SendFits
<1>8. /\ Processing(c) /\ booked[c] = 0
      /\ call[c].refundIsFull => WholeOrMovedOn(c)
  BY CallType DEF CallAccounted
<1>9. CallAccounted(c)' /\ AttemptsAccounted(c)'
  <2>1. Processing(c)' /\ booked'[c] = 0
    BY <1>1, <1>3, <1>8 DEF Processing, Moved
  <2>2. call'[c].refundIsFull => WholeOrMovedOn(c)'
    BY <1>1, <1>3, <1>8 DEF WholeOrMovedOn, Moved
  <2>3. point = "accepted" => sent'[c] >= call'[c].cents
    BY <1>3, <1>4, <1>5 DEF Moved
  <2>4. QED
    BY <1>3, <2>1, <2>2, <2>3 DEF CallAccounted, AttemptsAccounted, Moved
<1>10. QED
  BY <1>1, <1>2, <1>3, <1>5, <1>6, <1>7, <1>9, CallStep DEF Moved

LEMMA GatewayAnswersInv ==
    ASSUME CallsInv, NEW c \in Calls, GatewayAccepts(c) \/ GatewayRejects(c)
    PROVE  CallsInv'
  BY AnswerInv DEF GatewayAccepts, GatewayRejects, UnconfirmedSend

\* A 5xx or a timeout: the next attempt, unless it was the last one.
LEMMA GatewayFailsInv ==
    ASSUME CallsInv, NEW c \in Calls, GatewayFails(c)
    PROVE  CallsInv'
<1> DEFINE more == call[c].attempts + 1 < MaxAttempts
           state == [call[c] EXCEPT !.attempts = call[c].attempts + 1,
                                    !.pc = IF more THEN "calling" ELSE "failed"]
<1>1. /\ call[c].pc = "calling"
      /\ hold' = hold
      /\ UNCHANGED <<escrowVars, refunds, booked, announced>>
      /\ UnconfirmedSend(c)
  BY DEF GatewayFails, escrowVars
<1>2. IInv /\ IInv' /\ \A x \in Bookings : Evolves(hold[x], hold'[x])
  BY <1>1, StutterInv, EvolvesReflexive DEF CallsInv
<1>3. /\ RefundsTypeOK
      /\ call[c] \in CallRow
      /\ call[c].cents \in Nat
      /\ call[c].attempts \in Nat
      /\ call[c].attempts < MaxAttempts
      /\ sent[c] \in Nat
      /\ sent[c] + call[c].cents \in Nat
      /\ Processing(c) /\ booked[c] = 0
      /\ call[c].refundIsFull => WholeOrMovedOn(c)
      /\ sent[c] <= (IF LostAnswers THEN call[c].attempts ELSE 0) * call[c].cents
  BY <1>1, CallType DEF CallRow, CallsInv, CallAccounted, AttemptsAccounted
<1>4. state \in CallRow
  <2>1. call[c].attempts + 1 \in 0 .. MaxAttempts
    BY <1>3, RefundsAssumption
  <2>2. (IF more THEN "calling" ELSE "failed") \in CallPoints \ {"idle"}
    BY DEF CallPoints
  <2>3. QED
    BY <1>3, <2>1, <2>2 DEF CallRow
<1>5. call' = [call EXCEPT ![c] = state]
  BY <1>1 DEF GatewayFails
<1>6. /\ call' \in [Calls -> CallRow \cup {NoCall}]
      /\ call'[c] = state
      /\ \A d \in Calls \ {c} : call'[d] = call[d]
  <2> HIDE DEF state
  <2>1. QED
    BY <1>3, <1>4, <1>5 DEF RefundsTypeOK
<1>7. /\ call'[c].pc = IF more THEN "calling" ELSE "failed"
      /\ call'[c].booking = call[c].booking
      /\ call'[c].cents = call[c].cents
      /\ call'[c].refundIsFull = call[c].refundIsFull
      /\ call'[c].attempts = call[c].attempts + 1
  BY <1>3, <1>6 DEF CallRow
<1>8. /\ sent' \in [Calls -> Nat]
      /\ \A d \in Calls \ {c} : sent'[d] = sent[d]
      /\ \/ sent'[c] = sent[c]
         \/ LostAnswers /\ sent'[c] = sent[c] + call[c].cents
  BY <1>1, <1>3 DEF RefundsTypeOK, UnconfirmedSend
<1>9. RefundsTypeOK'
  BY <1>1, <1>2, <1>3, <1>6, <1>8 DEF RefundsTypeOK, IInv
<1>10. sent'[c] <= SendLimit * refunds'[c].cents
  BY <1>1, <1>8, SendFits
<1>11. CallAccounted(c)'
  <2>1. Processing(c)' /\ booked'[c] = 0
    BY <1>1, <1>3, <1>7 DEF Processing
  <2>2. call'[c].refundIsFull => WholeOrMovedOn(c)'
    BY <1>1, <1>3, <1>7 DEF WholeOrMovedOn
  <2>3. call'[c].pc \in {"calling", "failed"}
    BY <1>7
  <2>4. QED
    BY <2>1, <2>2, <2>3 DEF CallAccounted
<1>12. AttemptsAccounted(c)'
  <2>1. LostAnswers => sent'[c] <= (call[c].attempts + 1) * call[c].cents
    <3>1. /\ call[c].attempts * call[c].cents + call[c].cents
                = (call[c].attempts + 1) * call[c].cents
          /\ call[c].attempts * call[c].cents \in Nat
      BY <1>3, OneMore, RefundsAssumption
    <3>2. LostAnswers => sent[c] <= call[c].attempts * call[c].cents
      BY <1>3
    <3>3. QED
      BY <1>3, <1>8, <3>1, <3>2
  <2>2. ~LostAnswers => sent'[c] <= 0 * call[c].cents
    BY <1>3, <1>8
  <2>3. call'[c].pc = "calling" => call'[c].attempts < MaxAttempts
    BY <1>7
  <2>4. call'[c].pc # "checked"
    BY <1>7
  <2>5. sent'[c] <= (IF LostAnswers THEN call'[c].attempts ELSE 0) * call'[c].cents
    BY <1>7, <2>1, <2>2
  <2>6. QED
    BY <2>3, <2>4, <2>5 DEF AttemptsAccounted
<1>13. QED
  BY <1>1, <1>2, <1>6, <1>8, <1>9, <1>10, <1>11, <1>12, CallStep

LEMMA HandleFailureInv ==
    ASSUME CallsInv, NEW c \in Calls, HandleFailure(c)
    PROVE  CallsInv'
<1>1. /\ call[c].pc = "failed"
      /\ Goto(c, "done")
      /\ CloseRow(c, "FAILED", "payments.refund.failed")
      /\ hold' = hold
      /\ UNCHANGED <<escrowVars, booked, sent>>
  BY DEF HandleFailure, escrowVars
<1>2. IInv /\ IInv' /\ \A x \in Bookings : Evolves(hold[x], hold'[x])
  BY <1>1, StutterInv, EvolvesReflexive DEF CallsInv
<1>3. Moved(c, "done")
  BY <1>1, GotoMoves DEF CallPoints
<1>4. Processing(c) /\ booked[c] = 0
  BY <1>1, CallType DEF CallAccounted
<1>5. Closed(c, "FAILED", "payments.refund.failed")
  BY <1>1, <1>4, CloseRowCloses
<1>6. RefundsTypeOK'
  BY <1>1, <1>2, <1>3, <1>5
     DEF RefundsTypeOK, CallsInv, IInv, Moved, Closed, Announcements
<1>7. CallAccounted(c)' /\ AttemptsAccounted(c)'
  BY <1>1, <1>3, <1>4, <1>5 DEF CallAccounted, AttemptsAccounted, Moved, Closed
<1>8. sent'[c] <= SendLimit * refunds'[c].cents
  <2>1. refunds'[c].cents = refunds[c].cents
    BY <1>4, <1>5 DEF Closed, Processing
  <2>2. QED
    BY <1>1, <2>1, CallType
<1>9. QED
  BY <1>1, <1>2, <1>3, <1>5, <1>6, <1>7, <1>8, CallStep DEF Moved, Closed

LEMMA FinaliseRowInv ==
    ASSUME CallsInv, NEW c \in Calls, FinaliseRow(c)
    PROVE  CallsInv'
<1>1. /\ call[c].pc = "booked"
      /\ Goto(c, "done")
      /\ CloseRow(c, "SUCCEEDED", "payments.refund.succeeded")
      /\ hold' = hold
      /\ UNCHANGED <<escrowVars, booked, sent>>
  BY DEF FinaliseRow, escrowVars
<1>2. IInv /\ IInv' /\ \A x \in Bookings : Evolves(hold[x], hold'[x])
  BY <1>1, StutterInv, EvolvesReflexive DEF CallsInv
<1>3. Moved(c, "done")
  BY <1>1, GotoMoves DEF CallPoints
<1>4. Processing(c) /\ Booked(c)
  BY <1>1, CallType DEF CallAccounted
<1>5. Closed(c, "SUCCEEDED", "payments.refund.succeeded")
  BY <1>1, <1>4, CloseRowCloses
<1>6. RefundsTypeOK'
  BY <1>1, <1>2, <1>3, <1>5
     DEF RefundsTypeOK, CallsInv, IInv, Moved, Closed, Announcements
<1>7. CallAccounted(c)' /\ AttemptsAccounted(c)'
  BY <1>1, <1>3, <1>4, <1>5 DEF CallAccounted, AttemptsAccounted, Moved, Closed, Booked
<1>8. sent'[c] <= SendLimit * refunds'[c].cents
  <2>1. refunds'[c].cents = refunds[c].cents
    BY <1>4, <1>5 DEF Closed, Processing
  <2>2. QED
    BY <1>1, <2>1, CallType
<1>9. QED
  BY <1>1, <1>2, <1>3, <1>5, <1>6, <1>7, <1>8, CallStep DEF Moved, Closed

\* Steps that leave every table alone.
LEMMA PointOnlyInv ==
    ASSUME CallsInv, NEW c \in Calls, NEW point \in {"refused", "lost"},
           point = "refused" => call[c].pc = "accepted",
           call[c].pc \in {"checked", "calling", "accepted", "failed", "booked"},
           Goto(c, point), UNCHANGED <<escrowVars, refunds, booked, announced, sent>>
    PROVE  CallsInv'
<1>1. /\ hold' = hold
      /\ UNCHANGED <<refunds, booked, announced, sent>>
  BY DEF escrowVars
<1>2. IInv /\ IInv' /\ \A x \in Bookings : Evolves(hold[x], hold'[x])
  BY <1>1, StutterInv, EvolvesReflexive DEF CallsInv
<1>3. Moved(c, point)
  BY GotoMoves DEF CallPoints
<1>4. RefundsTypeOK'
  BY <1>1, <1>2, <1>3 DEF RefundsTypeOK, CallsInv, IInv, Moved
<1>5. CallAccounted(c)
  BY CallType
<1>6. CallAccounted(c)'
  <2>1. CASE point = "refused"
    BY <1>1, <1>3, <1>5, <2>1 DEF CallAccounted, Processing, Moved
  <2>2. CASE point = "lost"
    BY <1>1, <1>3, <1>5, <2>2 DEF CallAccounted, Processing, Untouched, NoRow, Booked, Moved
  <2>3. QED
    BY <2>1, <2>2
<1>7. AttemptsAccounted(c)'
  BY <1>3 DEF AttemptsAccounted, Moved
<1>8. sent'[c] <= SendLimit * refunds'[c].cents
  BY <1>1, CallType
<1>9. QED
  BY <1>1, <1>2, <1>3, <1>4, <1>6, <1>7, <1>8, CallStep DEF Moved

\* What Record wrote is the last row of the trail.
LEMMA LastRecorded ==
    ASSUME TypeOK, NEW b \in Bookings, NEW type, NEW cents, Record(b, type, cents)
    PROVE  trail'[b][Len(trail'[b])].cents = cents
<1> DEFINE row == [type |-> type, cents |-> cents]
           Rows == [type : EventTypes, cents : Nat]
<1>1. trail \in [Bookings -> Seq(Rows)] /\ trail' = [trail EXCEPT ![b] = Append(trail[b], row)]
  BY DEF TypeOK, Record
<1>2. row.cents = cents
  OBVIOUS
<1> HIDE DEF row, Rows
<1>3. trail'[b] = Append(trail[b], row) /\ trail[b] \in Seq(Rows)
  BY <1>1
<1>4. trail'[b][Len(trail'[b])] = row
  BY <1>3
<1>5. QED
  BY <1>2, <1>4

\* The escrow component books the amount the call has sent, full refund or not.
LEMMA FlipBooks ==
    ASSUME CallsInv, NEW c \in Calls, call[c].pc = "accepted", Flip(c)
    PROVE  /\ Operation(call[c].booking)
           /\ trail'[call[c].booking][Len(trail'[call[c].booking])].cents = call[c].cents
<1> DEFINE b == call[c].booking
           cents == call[c].cents
           fault == call[c].faultParty
<1>1. /\ TypeOK
      /\ b \in Bookings
      /\ cents \in Int
      /\ fault \in FaultParties
      /\ call[c].refundIsFull \in BOOLEAN
      /\ call[c].refundIsFull => WholeOrMovedOn(c)
  BY CallType DEF CallRow, CallAccounted, CallsInv, RefundsTypeOK
<1>2. CASE call[c].refundIsFull
  <2>1. Refund(b, fault)
    BY <1>2 DEF Flip
  <2>2. MoveHold(b, "REFUND") /\ Record(b, "REFUNDED", hold[b].amount)
    BY <2>1 DEF Refund
  <2>3. hold[b].state = "HELD"
    <3>1. hold[b].state \in HoldStates \cup {"ABSENT"}
      BY <1>1 DEF TypeOK, HoldRow
    <3>2. QED
      BY <1>1, <2>2, <3>1, HoldStep, TransitionTable DEF EscrowActions
  <2>4. cents = hold[b].amount
    BY <1>1, <1>2, <2>3 DEF WholeOrMovedOn
  <2>5. Operation(b)
    BY <1>1, <2>1 DEF Operation, EscrowStep
  <2>6. QED
    BY <1>1, <2>2, <2>4, <2>5, LastRecorded
<1>3. CASE ~call[c].refundIsFull
  <2>1. PartialRefund(b, cents, fault)
    BY <1>3 DEF Flip
  <2>2. Record(b, "PARTIALLY_REFUNDED", cents)
    BY <2>1 DEF PartialRefund
  <2>3. Operation(b)
    BY <1>1, <2>1 DEF Operation
  <2>4. QED
    BY <1>1, <2>2, <2>3, LastRecorded
<1>4. QED
  BY <1>2, <1>3

LEMMA BookRefundInv ==
    ASSUME CallsInv, NEW c \in Calls, BookRefund(c)
    PROVE  CallsInv'
<1> DEFINE b == call[c].booking
           cents == call[c].cents
<1>1. /\ call[c].pc = "accepted"
      /\ Flip(c)
      /\ booked' = [booked EXCEPT ![c] = trail'[b][Len(trail'[b])].cents]
      /\ Goto(c, "booked")
      /\ UNCHANGED <<refunds, announced, sent>>
  BY DEF BookRefund
<1>2. Operation(b) /\ trail'[b][Len(trail'[b])].cents = cents
  BY <1>1, FlipBooks
<1>3. /\ RefundsTypeOK
      /\ IInv
      /\ b \in Bookings
      /\ cents \in Nat
      /\ CallAccounted(c)
  BY <1>1, CallType DEF CallRow, CallsInv
<1>4. IInv' /\ \A x \in Bookings : Evolves(hold[x], hold'[x])
  BY <1>2, <1>3, OperationInv, OperationEvolves
<1>5. Moved(c, "booked")
  BY <1>1, GotoMoves DEF CallPoints
<1>6. booked' = [booked EXCEPT ![c] = cents]
  BY <1>1, <1>2
<1>7. /\ booked' \in [Calls -> Nat]
      /\ booked'[c] = cents
      /\ \A d \in Calls \ {c} : booked'[d] = booked[d]
  BY <1>3, <1>6 DEF RefundsTypeOK
<1>8. RefundsTypeOK'
  BY <1>1, <1>3, <1>4, <1>5, <1>7 DEF RefundsTypeOK, IInv, Moved
<1>9. CallAccounted(c)' /\ AttemptsAccounted(c)'
  <2>1. Processing(c) /\ sent[c] >= cents
    BY <1>1, <1>3 DEF CallAccounted
  <2>2. Processing(c)'
    BY <1>1, <1>5, <2>1 DEF Processing, Moved
  <2>3. Booked(c)'
    BY <1>1, <1>5, <1>7, <2>1 DEF Booked, Moved
  <2>4. QED
    BY <1>5, <2>2, <2>3 DEF CallAccounted, AttemptsAccounted, Moved
<1>10. sent'[c] <= SendLimit * refunds'[c].cents
  BY <1>1, CallType
<1>11. QED
  BY <1>1, <1>4, <1>5, <1>7, <1>8, <1>9, <1>10, CallStep DEF Moved

\* Whatever else happens to the holds, the calls stay accounted for.
LEMMA OtherStepInv ==
    ASSUME CallsInv, IInv', \A b \in Bookings : Evolves(hold[b], hold'[b]),
           UNCHANGED refundVars
    PROVE  CallsInv'
<1>1. UNCHANGED <<call, refunds, booked, announced, sent>>
  BY DEF refundVars
<1>2. RefundsTypeOK' /\ SendsBounded'
  BY <1>1 DEF CallsInv, RefundsTypeOK, SendsBounded, IInv
<1>3. ASSUME NEW d \in Calls
      PROVE  CallAccounted(d)' /\ AttemptsAccounted(d)'
  BY <1>1, CallStays
<1>4. QED
  BY <1>2, <1>3 DEF CallsInv

-----------------------------------------------------------------------------

LEMMA CallsInitInv == RefundsInit => CallsInv
<1> SUFFICES ASSUME RefundsInit PROVE CallsInv
  OBVIOUS
<1>1. IInv
  BY InitInv DEF RefundsInit
<1>2. \A c \in Calls : /\ call[c] = NoCall
                       /\ refunds[c] = NoRow
                       /\ booked[c] = 0
                       /\ announced[c] = <<>>
                       /\ sent[c] = 0
  BY DEF RefundsInit
<1>3. RefundsTypeOK
  <2>1. NoRow \in RefundRow /\ <<>> \in Announcements
    BY DEF NoRow, RefundRow, Announcements
  <2>2. QED
    BY <1>1, <2>1 DEF RefundsInit, RefundsTypeOK, IInv, Announcements
<1>4. SendsBounded
  BY <1>2, RefundsAssumption DEF SendsBounded, NoRow
<1>5. \A c \in Calls : call[c].pc = "idle"
  BY <1>2 DEF NoCall
<1>6. \A c \in Calls : CallAccounted(c) /\ AttemptsAccounted(c)
  BY <1>2, <1>5 DEF CallAccounted, AttemptsAccounted, Untouched
<1>7. QED
  BY <1>1, <1>3, <1>4, <1>6 DEF CallsInv

LEMMA RefundStepInv ==
    ASSUME CallsInv, NEW c \in Calls, RefundStep(c)
    PROVE  CallsInv'
<1>1. CASE \E b \in Bookings, fault \in FaultParties :
              \E cents \in RequestCents \cup {Remaining(hold[b])} : Check(c, b, cents, fault)
  <2>1. PICK b \in Bookings, fault \in FaultParties :
              \E cents \in RequestCents \cup {Remaining(hold[b])} : Check(c, b, cents, fault)
    BY <1>1
  <2>2. PICK cents \in RequestCents \cup {Remaining(hold[b])} : Check(c, b, cents, fault)
    BY <2>1
  <2>3. cents \in Int
    BY RequestCentsAssumption, RemainingNat DEF CallsInv
  <2>4. QED
    BY <2>2, <2>3, CheckInv
<1>2. CASE Continue(c)
  <2>1. CASE InsertRow(c)
    BY <2>1, InsertRowInv
  <2>2. CASE GatewayAccepts(c) \/ GatewayRejects(c)
    BY <2>2, GatewayAnswersInv
  <2>3. CASE GatewayFails(c)
    BY <2>3, GatewayFailsInv
  <2>4. CASE HandleFailure(c)
    BY <2>4, HandleFailureInv
  <2>5. CASE BookRefund(c)
    BY <2>5, BookRefundInv
  <2>6. CASE RefuseRefund(c)
    BY <2>6, PointOnlyInv DEF RefuseRefund
  <2>7. CASE FinaliseRow(c)
    BY <2>7, FinaliseRowInv
  <2>8. QED
    BY <1>2, <2>1, <2>2, <2>3, <2>4, <2>5, <2>6, <2>7 DEF Continue
<1>3. CASE Lose(c)
  <2>1. call[c].pc \in {"checked", "calling", "accepted", "failed", "booked"}
    BY <1>3, CallType DEF Lose, CallPoints
  <2>2. QED
    BY <1>3, <2>1, PointOnlyInv DEF Lose
<1>4. QED
  BY <1>1, <1>2, <1>3 DEF RefundStep

LEMMA CallsNextInv ==
    ASSUME CallsInv, [RefundsNext]_refundsVars
    PROVE  CallsInv'
<1>1. IInv
  BY DEF CallsInv
<1>2. CASE OtherStep
  <2>1. PICK b \in Bookings : Operation(b)
    BY <1>2 DEF OtherStep, Next, Operation
  <2>2. IInv' /\ \A x \in Bookings : Evolves(hold[x], hold'[x])
    BY <1>1, <2>1, OperationInv, OperationEvolves
  <2>3. QED
    BY <1>2, <2>2, OtherStepInv DEF OtherStep
<1>3. CASE \E c \in Calls : RefundStep(c)
  BY <1>3, RefundStepInv
<1>4. CASE UNCHANGED refundsVars
  <2>1. UNCHANGED <<escrowVars, refundVars>> /\ hold' = hold
    BY <1>4 DEF refundsVars, escrowVars
  <2>2. IInv' /\ \A x \in Bookings : Evolves(hold[x], hold'[x])
    BY <1>1, <2>1, StutterInv, EvolvesReflexive
  <2>3. QED
    BY <2>1, <2>2, OtherStepInv
<1>5. QED
  BY <1>2, <1>3, <1>4 DEF RefundsNext

LEMMA CallsAccounted == RefundsSpec => []CallsInv
  BY CallsInitInv, CallsNextInv, PTL DEF RefundsSpec

-----------------------------------------------------------------------------
(***************************************************************************)
(* What a call asks for, however old the hold is that it has read.         *)
(***************************************************************************)

\* What a call is about is fixed when it begins.
LEMMA CallsKeepSubject ==
    ASSUME CallsInv, NEW c \in Calls, Continue(c) \/ Lose(c)
    PROVE  /\ \A d \in Calls : call[d].pc # "idle" =>
                 /\ call'[d].pc # "idle"
                 /\ call'[d].booking = call[d].booking
                 /\ call'[d].cents = call[d].cents
           /\ call[c].pc # "idle"
           /\ \A d \in Calls \ {c} : call'[d] = call[d]
<1>1. call[c].pc \in CallPoints \ {"idle"} /\ call[c] \in CallRow
  BY CallType DEF Continue, InsertRow, GatewayAccepts, GatewayRejects, GatewayFails,
        HandleFailure, BookRefund, RefuseRefund, FinaliseRow, Lose
<1>2. CASE \E point \in CallPoints \ {"idle"} : Goto(c, point)
  <2>1. PICK point \in CallPoints \ {"idle"} : Goto(c, point)
    BY <1>2
  <2>2. Moved(c, point)
    BY <1>1, <2>1, GotoMoves
  <2>3. QED
    BY <1>1, <2>2 DEF Moved
<1>3. CASE GatewayFails(c)
  <2>1. call' = [call EXCEPT ![c] = [call[c] EXCEPT
                !.attempts = call[c].attempts + 1,
                !.pc = IF call[c].attempts + 1 < MaxAttempts THEN call[c].pc ELSE "failed"]]
    BY <1>3 DEF GatewayFails
  <2>2. /\ call'[c].pc # "idle"
        /\ call'[c].booking = call[c].booking
        /\ call'[c].cents = call[c].cents
        /\ \A d \in Calls \ {c} : call'[d] = call[d]
    BY <1>1, <2>1 DEF CallsInv, RefundsTypeOK, CallRow
  <2>3. QED
    BY <1>1, <2>2
<1>4. QED
  BY <1>2, <1>3 DEF Continue, InsertRow, GatewayAccepts, GatewayRejects, HandleFailure,
        BookRefund, RefuseRefund, FinaliseRow, Lose, CallPoints

LEMMA CheckBegins ==
    ASSUME CallsInv, NEW c \in Calls, NEW b \in Bookings, NEW cents \in Int,
           NEW fault, Check(c, b, cents, fault)
    PROVE  /\ call[c].pc = "idle" /\ refunds[c] = NoRow
           /\ call'[c].pc = "checked" /\ call'[c].booking = b /\ call'[c].cents = cents
           /\ \A d \in Calls \ {c} : call'[d] = call[d]
           /\ hold[b] # NoHold
           /\ cents <= hold[b].amount
           /\ UNCHANGED <<escrowVars, refunds, booked, announced, sent>>
<1> DEFINE row == [pc |-> "checked", booking |-> b, cents |-> cents, faultParty |-> fault,
                   refundIsFull |-> cents = Remaining(hold[b]), attempts |-> 0]
<1>1. /\ call[c] = NoCall
      /\ Refundable(hold[b], cents)
      /\ call' = [call EXCEPT ![c] = row]
      /\ UNCHANGED <<escrowVars, refunds, booked, announced, sent>>
  BY DEF Check
<1>2. row.pc = "checked" /\ row.booking = b /\ row.cents = cents
  OBVIOUS
<1> HIDE DEF row
<1>3. call'[c] = row /\ \A d \in Calls \ {c} : call'[d] = call[d]
  BY <1>1 DEF CallsInv, RefundsTypeOK
<1>4. hold[b] # NoHold /\ cents <= hold[b].amount
  <2>1. hold[b] \in HoldRow /\ hold[b] # NoHold
    BY <1>1 DEF Refundable, CallsInv, IInv, TypeOK, OpenStates, NoHold
  <2>2. cents <= hold[b].amount - hold[b].partial
    BY <1>1, RemainingNat DEF Refundable, CallsInv, Remaining
  <2>3. QED
    BY <2>1, <2>2 DEF HoldRow
<1>5. call[c].pc = "idle" /\ refunds[c] = NoRow
  BY <1>1, CallType DEF NoCall, CallAccounted, Untouched
<1>6. QED
  BY <1>1, <1>2, <1>3, <1>4, <1>5

\* The steps of refund calls and of whatever else is done to the holds.
CallsMove ==
    \/ \E c \in Calls, b \in Bookings, cents \in Int, fault \in FaultParties :
          Check(c, b, cents, fault)
    \/ \E c \in Calls : Continue(c) \/ Lose(c)
    \/ (\E b \in Bookings : EscrowStep(b) \/ LaterOperation(b)) /\ UNCHANGED refundVars
    \/ UNCHANGED refundsVars

LEMMA RefundsMove ==
    ASSUME CallsInv, [RefundsNext]_refundsVars
    PROVE  CallsMove
<1>1. ASSUME NEW c \in Calls, RefundStep(c), ~(Continue(c) \/ Lose(c)) PROVE CallsMove
  <2>1. PICK b \in Bookings, fault \in FaultParties :
              \E cents \in RequestCents \cup {Remaining(hold[b])} : Check(c, b, cents, fault)
    BY <1>1 DEF RefundStep
  <2>2. PICK cents \in RequestCents \cup {Remaining(hold[b])} : Check(c, b, cents, fault)
    BY <2>1
  <2>3. cents \in Int
    BY RequestCentsAssumption, RemainingNat DEF CallsInv
  <2>4. QED
    BY <2>2, <2>3 DEF CallsMove
<1>2. QED
  BY <1>1, Zenon DEF CallsMove, RefundsNext, OtherStep, Next

LEMMA MovesEvolve ==
    ASSUME CallsInv, CallsMove
    PROVE  IInv' /\ \A b \in Bookings : Evolves(hold[b], hold'[b])
<1>1. IInv
  BY DEF CallsInv
<1>2. (\E b \in Bookings : Operation(b)) \/ UNCHANGED escrowVars
  <2>1. ASSUME NEW c \in Calls, Continue(c) \/ Lose(c), ~BookRefund(c)
        PROVE  UNCHANGED escrowVars
    BY <2>1 DEF Continue, InsertRow, GatewayAccepts, GatewayRejects, GatewayFails,
                HandleFailure, RefuseRefund, FinaliseRow, Lose
  <2>2. ASSUME NEW c \in Calls, BookRefund(c)
        PROVE  \E b \in Bookings : Operation(b)
    BY <2>2, FlipBooks, CallType DEF BookRefund, CallRow
  <2>3. ASSUME NEW b \in Bookings, EscrowStep(b) \/ LaterOperation(b)
        PROVE  Operation(b)
    BY <2>3 DEF Operation, EscrowStep, LaterOperation
  <2>4. QED
    BY <2>1, <2>2, <2>3 DEF CallsMove, Check, refundsVars
<1>3. CASE UNCHANGED escrowVars
  BY <1>1, <1>3, StutterInv, EvolvesReflexive DEF escrowVars
<1>4. QED
  BY <1>1, <1>2, <1>3, OperationInv, OperationEvolves

LEMMA AskedInit == RefundsInit => AskedWithinHold
  BY DEF RefundsInit, AskedWithinHold, NoCall

LEMMA AskedNext ==
    ASSUME CallsInv, AskedWithinHold, CallsMove
    PROVE  AskedWithinHold'
<1> SUFFICES ASSUME NEW d \in Calls, call'[d].pc # "idle"
             PROVE  /\ hold'[call'[d].booking] # NoHold
                    /\ call'[d].cents <= hold'[call'[d].booking].amount
  BY DEF AskedWithinHold
<1>1. \A b \in Bookings : Evolves(hold[b], hold'[b])
  BY MovesEvolve
<1>2. ASSUME call[d].pc # "idle",
             call'[d].booking = call[d].booking, call'[d].cents = call[d].cents
      PROVE  /\ hold'[call'[d].booking] # NoHold
             /\ call'[d].cents <= hold'[call'[d].booking].amount
  <2>1. call[d].booking \in Bookings
    BY <1>2, CallType DEF CallRow
  <2>2. QED
    BY <1>1, <1>2, <2>1 DEF AskedWithinHold, Evolves
<1>3. ASSUME NEW c \in Calls, NEW b \in Bookings, NEW cents \in Int, NEW fault \in FaultParties,
             Check(c, b, cents, fault)
      PROVE  /\ hold'[call'[d].booking] # NoHold
             /\ call'[d].cents <= hold'[call'[d].booking].amount
  <2>1. CASE d = c
    BY <1>3, <2>1, CheckBegins DEF escrowVars
  <2>2. CASE d # c
    BY <1>2, <1>3, <2>2, CheckBegins
  <2>3. QED
    BY <2>1, <2>2
<1>4. ASSUME NEW c \in Calls, Continue(c) \/ Lose(c)
      PROVE  /\ hold'[call'[d].booking] # NoHold
             /\ call'[d].cents <= hold'[call'[d].booking].amount
  BY <1>2, <1>4, CallsKeepSubject
<1>5. CASE UNCHANGED refundVars \/ UNCHANGED refundsVars
  BY <1>2, <1>5 DEF refundVars, refundsVars
<1>6. QED
  BY <1>3, <1>4, <1>5 DEF CallsMove

-----------------------------------------------------------------------------
(***************************************************************************)
(* What the calls on one hold have booked together.                        *)
(***************************************************************************)

LEMMA CallsOnFinite ==
    ASSUME CallsInv, NEW b \in Bookings
    PROVE  /\ IsFiniteSet(CallsOn(b))
           /\ \A c \in CallsOn(b) : booked[c] \in Int
<1>1. CallsOn(b) \in SUBSET Calls
  BY DEF CallsOn
<1>2. QED
  BY <1>1, FS_Subset, RefundsAssumption DEF CallsInv, RefundsTypeOK

\* A step after which every call is about the hold it was about, and which books
\* nothing, leaves the sum alone.
LEMMA BookedStays ==
    ASSUME booked' = booked, NEW b \in Bookings, CallsOn(b)' = CallsOn(b)
    PROVE  BookedOn(b)' = BookedOn(b)
  BY DEF BookedOn

LEMMA SameBooking ==
    ASSUME CallsInv, NEW c \in Calls, NEW row,
           call' = [call EXCEPT ![c] = row],
           row # NoCall, call[c] # NoCall, row.booking = call[c].booking,
           NEW b \in Bookings
    PROVE  CallsOn(b)' = CallsOn(b)
<1>1. DOMAIN call = Calls
  BY DEF CallsInv, RefundsTypeOK
<1>2. \A d \in Calls : (d \in CallsOn(b))' <=> d \in CallsOn(b)
  BY <1>1 DEF CallsOn
<1>3. QED
  BY <1>2 DEF CallsOn

\* A call that only goes on to another point.
LEMMA GotoBooking ==
    ASSUME CallsInv, NEW c \in Calls, call[c].pc # "idle",
           NEW point \in CallPoints \ {"idle"}, Goto(c, point), NEW b \in Bookings
    PROVE  CallsOn(b)' = CallsOn(b)
<1> DEFINE row == [call[c] EXCEPT !.pc = point]
<1>1. call' = [call EXCEPT ![c] = row]
  BY DEF Goto
<1>2. call[c] \in CallRow
  BY CallType
<1>3. row.pc = point /\ row.booking = call[c].booking
  BY <1>2 DEF CallRow
<1>4. row # NoCall /\ call[c] # NoCall
  BY <1>3 DEF NoCall
<1> HIDE DEF row
<1>5. QED
  BY <1>1, <1>3, <1>4, SameBooking

\* A call that begins has booked nothing.
LEMMA CheckBooks ==
    ASSUME CallsInv, NEW c \in Calls, NEW x \in Bookings, NEW cents, NEW fault,
           Check(c, x, cents, fault), NEW b \in Bookings
    PROVE  BookedOn(b)' = BookedOn(b)
<1> DEFINE row == [pc |-> "checked", booking |-> x, cents |-> cents, faultParty |-> fault,
                   refundIsFull |-> cents = Remaining(hold[x]), attempts |-> 0]
<1>1. /\ call[c] = NoCall
      /\ call' = [call EXCEPT ![c] = row]
      /\ booked' = booked
  BY DEF Check
<1>2. row.pc = "checked" /\ row.booking = x
  OBVIOUS
<1> HIDE DEF row
<1>3. DOMAIN call = Calls /\ row # NoCall
  BY <1>2 DEF CallsInv, RefundsTypeOK, NoCall
<1>4. call'[c] = row /\ \A d \in Calls \ {c} : call'[d] = call[d]
  BY <1>1, <1>3
<1>5. CASE b # x
  <2>1. CallsOn(b)' = CallsOn(b)
    BY <1>1, <1>2, <1>4, <1>5 DEF CallsOn
  <2>2. QED
    BY <1>1, <2>1, BookedStays
<1>6. CASE b = x
  <2> DEFINE S == CallsOn(b)
  <2>1. c \notin S /\ CallsOn(b)' = S \cup {c}
    BY <1>1, <1>2, <1>3, <1>4, <1>6 DEF CallsOn
  <2>2. booked[c] = 0
    <3>1. call[c].pc = "idle" /\ CallAccounted(c)
      BY <1>1 DEF NoCall, CallsInv
    <3>2. QED
      BY <3>1 DEF CallAccounted, Untouched
  <2>3. /\ IsFiniteSet(S \cup {c})
        /\ \A d \in S \cup {c} : booked[d] \in Int
        /\ (S \cup {c}) \ {c} = S
    BY <2>1, <2>2, CallsOnFinite, FS_AddElement
  <2>4. BookedOn(b)' = SumFunctionOnSet(booked, S \cup {c})
    BY <1>1, <2>1 DEF BookedOn
  <2> HIDE DEF S
  <2>5. SumFunctionOnSet(booked, S \cup {c}) = booked[c] + SumFunctionOnSet(booked, S)
    BY <2>3, SumSplit
  <2>6. SumFunctionOnSet(booked, S) \in Int
    BY <2>3, SumInt, CallsOnFinite DEF S
  <2>7. QED
    BY <2>2, <2>4, <2>5, <2>6 DEF BookedOn, S
<1>7. QED
  BY <1>5, <1>6

\* Steps that book nothing and change no hold.
LEMMA NothingBooked ==
    ASSUME CallsInv, NEW c \in Calls, RefundStep(c), ~BookRefund(c), NEW b \in Bookings
    PROVE  BookedOn(b)' = BookedOn(b) /\ UNCHANGED escrowVars
<1>1. CASE \E x \in Bookings, fault \in FaultParties :
              \E cents \in RequestCents \cup {Remaining(hold[x])} : Check(c, x, cents, fault)
  BY <1>1, CheckBooks DEF Check
<1>2. CASE GatewayFails(c)
  <2> DEFINE row == [call[c] EXCEPT !.attempts = @ + 1,
                       !.pc = IF call[c].attempts + 1 < MaxAttempts THEN @ ELSE "failed"]
  <2>1. /\ call[c].pc = "calling"
        /\ call' = [call EXCEPT ![c] = row]
        /\ booked' = booked /\ UNCHANGED escrowVars
    BY <1>2 DEF GatewayFails
  <2>2. call[c] \in CallRow
    BY <2>1, CallType
  <2>3. row.pc \in {"calling", "failed"} /\ row.booking = call[c].booking
    BY <2>1, <2>2 DEF CallRow
  <2> HIDE DEF row
  <2>4. row # NoCall /\ call[c] # NoCall
    BY <2>1, <2>3 DEF NoCall
  <2>5. CallsOn(b)' = CallsOn(b)
    BY <2>1, <2>3, <2>4, SameBooking
  <2>6. QED
    BY <2>1, <2>5, BookedStays
<1>3. CASE \/ InsertRow(c) \/ GatewayAccepts(c) \/ GatewayRejects(c) \/ HandleFailure(c)
           \/ RefuseRefund(c) \/ FinaliseRow(c) \/ Lose(c)
  <2>1. /\ call[c].pc # "idle"
        /\ \E point \in CallPoints \ {"idle"} : Goto(c, point)
        /\ booked' = booked /\ UNCHANGED escrowVars
    BY <1>3 DEF InsertRow, GatewayAccepts, GatewayRejects, HandleFailure, RefuseRefund,
                FinaliseRow, Lose, CallPoints
  <2>2. QED
    BY <2>1, GotoBooking, BookedStays
<1>4. QED
  BY <1>1, <1>2, <1>3 DEF RefundStep, Continue

\* The client gets what a call books.
LEMMA FlipPays ==
    ASSUME CallsInv, NEW c \in Calls, call[c].pc = "accepted", Flip(c)
    PROVE  clientBar'[call[c].booking] = clientBar[call[c].booking] + call[c].cents
<1> DEFINE b == call[c].booking
           cents == call[c].cents
           fault == call[c].faultParty
<1>1. /\ IInv
      /\ TypeOK
      /\ b \in Bookings
      /\ cents \in Int
      /\ fault \in FaultParties
      /\ call[c].refundIsFull \in BOOLEAN
      /\ call[c].refundIsFull => WholeOrMovedOn(c)
  BY CallType DEF CallRow, CallAccounted, CallsInv, RefundsTypeOK
<1>2. CASE call[c].refundIsFull
  <2>1. Refund(b, fault)
    BY <1>2 DEF Flip
  <2>2. hold[b].state = "HELD"
    <3>1. hold[b].state \in HoldStates \cup {"ABSENT"} /\ MoveHold(b, "REFUND")
      BY <1>1, <2>1 DEF TypeOK, HoldRow, Refund
    <3>2. QED
      BY <1>1, <3>1, HoldStep, TransitionTable DEF EscrowActions
  <2>3. cents = hold[b].amount
    BY <1>1, <1>2, <2>2 DEF WholeOrMovedOn
  <2> HIDE DEF b, cents, fault
  <2>4. QED
    BY <1>1, <2>1, <2>3, RefundPaysClient DEF b, cents
<1>3. CASE ~call[c].refundIsFull
  <2>1. PartialRefund(b, cents, fault)
    BY <1>3 DEF Flip
  <2>2. QED
    BY <1>1, <2>1, PartialRefundPaysClient
<1>4. QED
  BY <1>2, <1>3

LEMMA BookingPays ==
    ASSUME CallsInv, NEW c \in Calls, BookRefund(c), NEW b \in Bookings, BookedToClient(b)
    PROVE  BookedToClient(b)'
<1> DEFINE x == call[c].booking
           cents == call[c].cents
           S == CallsOn(b)
<1>1. /\ call[c].pc = "accepted"
      /\ Flip(c)
      /\ booked' = [booked EXCEPT ![c] = trail'[x][Len(trail'[x])].cents]
      /\ Goto(c, "booked")
  BY DEF BookRefund
<1>2. Operation(x) /\ trail'[x][Len(trail'[x])].cents = cents
  BY <1>1, FlipBooks
<1>3. IInv /\ x \in Bookings /\ cents \in Int /\ call[c].pc # "idle" /\ booked[c] = 0
  BY <1>1, CallType DEF CallRow, CallsInv, CallAccounted
<1>4. CallsOn(b)' = S
  BY <1>1, <1>3, GotoBooking DEF CallPoints
<1>5. /\ booked'[c] = cents
      /\ \A d \in Calls \ {c} : booked'[d] = booked[d]
  BY <1>1, <1>2 DEF CallsInv, RefundsTypeOK
<1>6. IsFiniteSet(S) /\ \A d \in S : d \in Calls /\ booked[d] \in Int /\ booked'[d] \in Int
  BY <1>3, <1>5, CallsOnFinite DEF CallsOn
<1>7. BookedOn(b) \in Int /\ BookedOn(b) <= clientBar[b] /\ clientBar[b] \in Int
  <2>1. SumFunctionOnSet(booked, S) \in Int
    BY <1>6, SumInt
  <2>2. QED
    BY <1>3, <2>1, ClientType DEF BookedOn, BookedToClient
<1>8. BookedOn(b)' = SumFunctionOnSet(booked', S)
  BY <1>4 DEF BookedOn
<1>9. CASE b = x
  <2>1. c \in S
    BY <1>3, <1>9 DEF CallsOn, NoCall
  <2> HIDE DEF S, x, cents
  <2>2. SumFunctionOnSet(booked', S) = SumFunctionOnSet(booked, S) - booked[c] + booked'[c]
    BY <1>5, <1>6, <2>1, SumChange
  <2>3. SumFunctionOnSet(booked, S) = BookedOn(b)
    BY DEF BookedOn, S
  <2>4. BookedOn(b)' = BookedOn(b) + cents
    BY <1>3, <1>5, <1>7, <1>8, <2>2, <2>3
  <2>5. clientBar'[b] = clientBar[b] + cents
    BY <1>1, <1>9, FlipPays DEF x, cents
  <2>6. QED
    BY <1>3, <1>7, <2>4, <2>5 DEF BookedToClient
<1>10. CASE b # x
  <2>1. \A d \in S : booked'[d] = booked[d]
    BY <1>5, <1>6, <1>10 DEF CallsOn
  <2> HIDE DEF S, x, cents
  <2>2. SumFunctionOnSet(booked, S) = SumFunctionOnSet(booked', S)
    BY <1>6, <2>1, SumSame
  <2>3. BookedOn(b)' = BookedOn(b)
    BY <1>8, <2>2 DEF BookedOn, S
  <2>4. clientBar'[b] >= clientBar[b] /\ clientBar'[b] \in Int
    <3>1. IInv'
      BY <1>2, <1>3, OperationInv
    <3>2. clientBar'[b] \in Int
      BY <3>1, ClientBarNext
    <3>3. QED
      BY <1>2, <1>3, <3>2, ClientKeeps
  <2>5. QED
    BY <1>7, <2>3, <2>4 DEF BookedToClient
<1>11. QED
  BY <1>9, <1>10

LEMMA RefundsInitInv == RefundsInit => RefundsInv
<1> SUFFICES ASSUME RefundsInit, NEW b \in Bookings
             PROVE  BookedToClient(b)
  BY CallsInitInv, AskedInit DEF RefundsInv
<1>1. CallsOn(b) = {}
  BY DEF RefundsInit, CallsOn
<1>2. BookedOn(b) = 0
  BY <1>1, SumEmpty DEF BookedOn
<1>3. clientBar[b] = 0
  BY DEF clientBar, RefundsInit, Init, NoHold, NoEntries, Accounts
<1>4. QED
  BY <1>2, <1>3 DEF BookedToClient

LEMMA RefundsNextInv ==
    ASSUME RefundsInv, [RefundsNext]_refundsVars
    PROVE  RefundsInv'
<1>1. CallsInv /\ CallsInv' /\ IInv /\ IInv'
  BY CallsNextInv DEF RefundsInv, CallsInv
<1> SUFFICES ASSUME NEW b \in Bookings
             PROVE  BookedToClient(b)'
  BY <1>1, RefundsMove, AskedNext DEF RefundsInv
<1>2. BookedToClient(b) /\ BookedOn(b) \in Int
  BY <1>1, CallsOnFinite, SumInt DEF RefundsInv, BookedOn
<1>3. clientBar[b] \in Int /\ clientBar'[b] \in Int
  BY <1>1, ClientType, ClientBarNext
<1>4. CASE OtherStep
  <2>1. PICK x \in Bookings : Operation(x)
    BY <1>4 DEF OtherStep, Next, Operation
  <2>2. BookedOn(b)' = BookedOn(b)
    BY <1>4 DEF OtherStep, refundVars, BookedOn, CallsOn
  <2>3. clientBar'[b] >= clientBar[b]
    BY <1>1, <2>1, ClientKeeps
  <2>4. QED
    BY <1>2, <1>3, <2>2, <2>3 DEF BookedToClient
<1>5. CASE \E c \in Calls : RefundStep(c)
  <2>1. PICK c \in Calls : RefundStep(c)
    BY <1>5
  <2>2. CASE BookRefund(c)
    BY <1>1, <1>2, <2>2, BookingPays
  <2>3. CASE ~BookRefund(c)
    <3>1. BookedOn(b)' = BookedOn(b) /\ UNCHANGED escrowVars
      BY <1>1, <2>1, <2>3, NothingBooked
    <3>2. clientBar' = clientBar
      BY <3>1 DEF escrowVars, clientBar
    <3>3. QED
      BY <1>2, <3>1, <3>2 DEF BookedToClient
  <2>4. QED
    BY <2>2, <2>3
<1>6. CASE UNCHANGED refundsVars
  <2>1. BookedOn(b)' = BookedOn(b) /\ clientBar' = clientBar
    BY <1>6 DEF refundsVars, refundVars, escrowVars, BookedOn, CallsOn, clientBar
  <2>2. QED
    BY <1>2, <2>1 DEF BookedToClient
<1>7. QED
  BY <1>4, <1>5, <1>6 DEF RefundsNext

\* A step of a refund call is an operation on its hold, or none at all.
LEMMA RefundsStepOperates ==
    ASSUME CallsInv, RefundsNext
    PROVE  (\E b \in Bookings : Operation(b)) \/ UNCHANGED escrowVars
<1>1. CASE OtherStep
  BY <1>1 DEF OtherStep, Next, Operation
<1>2. CASE \E c \in Calls : RefundStep(c)
  <2>1. PICK c \in Calls : RefundStep(c)
    BY <1>2
  <2>2. CASE BookRefund(c)
    <3>1. call[c].pc = "accepted" /\ Flip(c)
      BY <2>2 DEF BookRefund
    <3>2. call[c].booking \in Bookings
      BY <3>1, CallType DEF CallRow
    <3>3. QED
      BY <3>1, <3>2, FlipBooks
  <2>3. CASE ~BookRefund(c)
    <3>1. CASE Bookings = {}
      BY <2>1, <2>3, <3>1 DEF RefundStep, Continue, InsertRow, GatewayAccepts, GatewayRejects,
            GatewayFails, HandleFailure, RefuseRefund, FinaliseRow, Lose
    <3>2. CASE Bookings # {}
      BY <2>1, <2>3, <3>2, NothingBooked
    <3>3. QED
      BY <3>1, <3>2
  <2>4. QED
    BY <2>2, <2>3
<1>3. QED
  BY <1>1, <1>2 DEF RefundsNext

\* Calls and other routes alike change the tables of the escrow component by its operations.
LEMMA RefundsOperate ==
    ASSUME CallsInv, [RefundsNext]_refundsVars
    PROVE  [OperationsNext]_escrowVars
  BY RefundsStepOperates DEF OperationsNext, refundsVars

\* What the escrow component promises of its holds, however many refund calls race on them,
\* are repeated at PayFast or die between two steps.
THEOREM PromisesInRefunds == RefundsSpec => EscrowPromises
<1>1. RefundsInit => Init
  BY DEF RefundsInit
<1>2. QED
  BY <1>1, CallsAccounted, RefundsOperate, PromisesKept, PTL DEF RefundsSpec, OperationsSpec

\* The tables say of every call what its point says: which of the refunds row, the
\* booking and the announcement are there, and how often PayFast can have sent the money;
\* and the bookings of all the calls on a hold add up to no more than the client got.
THEOREM RefundsAccounted == RefundsSpec => []RefundsInv
<1>1. QED
  BY RefundsInitInv, RefundsNextInv, PTL DEF RefundsSpec

\* However many calls race on a hold, and whatever settles it between their steps, what
\* they have booked and what the artist is owed fit into what was held.
THEOREM BookingsFit == RefundsSpec => []BookedWithinHold
<1>1. ASSUME RefundsInv PROVE BookedWithinHold
  <2> SUFFICES ASSUME NEW b \in Bookings
               PROVE  BookedOn(b) + ledger[b]["ARTIST_PAYABLE"] <= hold[b].amount
    BY DEF BookedWithinHold
  <2>1. CallsInv /\ IInv /\ BookedToClient(b)
    BY <1>1 DEF RefundsInv, CallsInv
  <2>2. BookedOn(b) \in Int
    BY <2>1, CallsOnFinite, SumInt DEF BookedOn
  <2>3. ledger[b]["ARTIST_PAYABLE"] \in Int /\ hold[b].amount \in Int
    BY <2>1 DEF IInv, TypeOK, Accounts, HoldRow
  <2>4. clientBar[b] \in Int /\ clientBar[b] + ledger[b]["ARTIST_PAYABLE"] <= hold[b].amount
    BY <2>1, ClientType
  <2>5. QED
    BY <2>1, <2>2, <2>3, <2>4 DEF BookedToClient
<1>2. QED
  BY <1>1, RefundsAccounted, PTL

\* The escrow component books the amount of the refunds row, however stale the read on
\* which issueRefund chose between refund and partialRefund, and PayFast has sent it.
THEOREM BookedAmountSent == RefundsSpec => []BookedAsSent
<1>1. ASSUME CallsInv PROVE BookedAsSent
  <2> SUFFICES ASSUME NEW c \in Calls, booked[c] # 0
               PROVE  booked[c] = refunds[c].cents /\ sent[c] >= booked[c]
    BY DEF BookedAsSent
  <2>1. call[c].pc \in {"booked", "done", "lost"}
    BY <1>1, CallType DEF CallAccounted, CallPoints, Untouched
  <2>2. refunds[c].cents = call[c].cents /\ Booked(c)
    <3>1. CallAccounted(c)
      BY <1>1, CallType
    <3>2. CASE call[c].pc = "booked"
      BY <3>1, <3>2 DEF CallAccounted, Processing
    <3>3. CASE call[c].pc \in {"done", "lost"}
      BY <3>1, <3>3 DEF CallAccounted, Booked
    <3>4. QED
      BY <2>1, <3>2, <3>3
  <2>3. QED
    BY <2>2 DEF Booked
<1>2. QED
  BY <1>1, CallsAccounted, PTL

\* The payments.refund events tell the truth: succeeded after the booking, with its
\* amount, failed for a refund that is not booked, and one of them at most.
THEOREM RefundEventsTrue == RefundsSpec => []AnnouncedTruth
<1>1. ASSUME CallsInv PROVE AnnouncedTruth
  <2> SUFFICES ASSUME NEW c \in Calls
               PROVE  \/ announced[c] = <<>>
                      \/ /\ announced[c] = <<"payments.refund.succeeded">>
                         /\ booked[c] = refunds[c].cents
                      \/ announced[c] = <<"payments.refund.failed">> /\ booked[c] = 0
    BY DEF AnnouncedTruth
  <2>1. CASE call[c].pc = "done"
    BY <1>1, <2>1, CallType DEF CallAccounted, Booked
  <2>2. CASE call[c].pc # "done"
    BY <1>1, <2>2, CallType DEF CallAccounted, CallPoints, Untouched, Processing
  <2>3. QED
    BY <2>1, <2>2
<1>2. QED
  BY <1>1, CallsAccounted, PTL

\* The retry policy of the PayFast client bounds how often the money can go back.
THEOREM SendsLimited == RefundsSpec => []SendsBounded
<1>1. CallsInv => SendsBounded
  BY DEF CallsInv
<1>2. QED
  BY <1>1, CallsAccounted, PTL

-----------------------------------------------------------------------------
(***************************************************************************)
(* Why a refund is refused after PayFast has sent it.                      *)
(***************************************************************************)

\* Why a call that asked for some cents, or for all there was, may be refused.
Cause(row, full, cents) ==
    \/ row.state \in {"DISPUTED", "RELEASED", "REFUNDED"}
    \/ row.state = "PARTIALLY_REFUNDED" /\ (full \/ cents > Remaining(row))

\* What was a cause stays one, whatever becomes of the hold.
LEMMA CauseStays ==
    ASSUME NEW row \in HoldRow, NEW next \in HoldRow, Evolves(row, next), row # NoHold,
           next.state # "ABSENT", NEW full, NEW cents \in Nat, Cause(row, full, cents)
    PROVE  Cause(next, full, cents)
  BY DEF Cause, Evolves, HoldRow, HoldStates, Remaining

\* The state machine and the cap on the running total refuse nothing else.
LEMMA RefusedForCause ==
    ASSUME CallsInv, AskedWithinHold, NEW c \in Calls, RefuseRefund(c)
    PROVE  Cause(hold[call[c].booking], call[c].refundIsFull, call[c].cents)
<1> DEFINE row == hold[call[c].booking]
<1>1. call[c].pc = "accepted" /\ call[c] \in CallRow /\ call[c].booking \in Bookings
  BY CallType DEF RefuseRefund, CallRow
<1>2. /\ row \in HoldRow /\ row # NoHold /\ FundsAccounted(call[c].booking)
      /\ call[c].cents \in Nat /\ call[c].cents <= row.amount
  BY <1>1 DEF CallsInv, IInv, TypeOK, AskedWithinHold, CallRow
<1>3. row.state \in HoldStates /\ (row.state = "HELD" => row.partial = 0)
  BY <1>2 DEF FundsAccounted, HoldRow
<1>4. CASE call[c].refundIsFull
  <2>1. ~CanTransition(row.state, "REFUND")
    BY <1>4 DEF RefuseRefund, FlipRefused
  <2>2. row.state # "HELD"
    BY <2>1 DEF CanTransition, Transitions, HoldStates
  <2>3. QED
    BY <1>3, <1>4, <2>2 DEF Cause, HoldStates
<1>5. CASE ~call[c].refundIsFull
  <2>1. \/ ~CanTransition(row.state, "PARTIAL_REFUND")
        \/ row.partial + call[c].cents > row.amount
    BY <1>5 DEF RefuseRefund, FlipRefused
  <2>2. CASE ~CanTransition(row.state, "PARTIAL_REFUND")
    <3>1. row.state \notin {"HELD", "PARTIALLY_REFUNDED"}
      BY <2>2 DEF CanTransition, Transitions, HoldStates
    <3>2. QED
      BY <1>3, <3>1 DEF Cause, HoldStates
  <2>3. CASE row.partial + call[c].cents > row.amount
    <3>1. row.state # "HELD" /\ call[c].cents > Remaining(row)
      BY <1>2, <1>3, <2>3 DEF HoldRow, Remaining
    <3>2. QED
      BY <1>3, <3>1 DEF Cause, HoldStates
  <2>4. QED
    BY <2>1, <2>2, <2>3
<1>6. QED
  BY <1>4, <1>5

LEMMA RefusalNext ==
    ASSUME CallsInv, AskedWithinHold, CallsMove, RefusalHasCause
    PROVE  RefusalHasCause'
<1> SUFFICES ASSUME NEW d \in Calls, call'[d].pc = "refused"
             PROVE  Cause(hold'[call'[d].booking], call'[d].refundIsFull, call'[d].cents)
  BY DEF RefusalHasCause, Cause
<1>1. IInv' /\ \A b \in Bookings : Evolves(hold[b], hold'[b])
  BY MovesEvolve
<1>2. ASSUME call'[d] = call[d]
      PROVE  Cause(hold'[call'[d].booking], call'[d].refundIsFull, call'[d].cents)
  <2>1. call[d] \in CallRow /\ call[d].booking \in Bookings /\ call[d].cents \in Nat
    BY <1>2, CallType DEF CallRow
  <2> DEFINE row  == hold[call[d].booking]
             next == hold'[call[d].booking]
  <2>2. row \in HoldRow /\ row # NoHold /\ next \in HoldRow
    BY <1>1, <1>2, <2>1 DEF CallsInv, IInv, TypeOK, AskedWithinHold
  <2>3. Evolves(row, next) /\ next # NoHold
    BY <1>1, <2>1, <2>2 DEF Evolves
  <2>4. next.state # "ABSENT"
    BY <1>1, <2>1, <2>3 DEF IInv, FundsAccounted
  <2>5. Cause(row, call[d].refundIsFull, call[d].cents)
    BY <1>2 DEF RefusalHasCause, Cause
  <2> HIDE DEF row, next
  <2>6. Cause(next, call[d].refundIsFull, call[d].cents)
    BY <2>1, <2>2, <2>3, <2>4, <2>5, CauseStays
  <2>7. QED
    BY <1>2, <2>6 DEF next
<1>3. ASSUME NEW c \in Calls, Continue(c) \/ Lose(c)
      PROVE  Cause(hold'[call'[d].booking], call'[d].refundIsFull, call'[d].cents)
  <2>1. CASE d # c
    BY <1>2, <1>3, <2>1, CallsKeepSubject
  <2>2. CASE d = c
    <3>1. CASE RefuseRefund(c)
      <4>1. Moved(c, "refused") /\ hold' = hold
        BY <3>1, GotoMoves DEF RefuseRefund, CallPoints, escrowVars
      <4>2. QED
        BY <2>2, <3>1, <4>1, RefusedForCause DEF Moved
    <3>2. CASE ~RefuseRefund(c)
      <4>1. call[c] \in CallRow /\ call \in [Calls -> CallRow \cup {NoCall}]
        BY <1>3, CallType, CallsKeepSubject DEF CallsInv, RefundsTypeOK
      <4>2. CASE GatewayFails(c)
        BY <2>2, <4>1, <4>2 DEF GatewayFails, CallRow
      <4>3. CASE ~GatewayFails(c)
        <5>1. \E point \in CallPoints \ {"refused"} : Goto(c, point)
          BY <1>3, <3>2, <4>3 DEF Continue, InsertRow, GatewayAccepts, GatewayRejects,
                HandleFailure, BookRefund, FinaliseRow, Lose, CallPoints
        <5>2. QED
          BY <2>2, <4>1, <5>1 DEF Goto, CallRow
      <4>4. QED
        BY <4>2, <4>3
    <3>3. QED
      BY <3>1, <3>2
  <2>3. QED
    BY <2>1, <2>2
<1>4. ASSUME NEW c \in Calls, NEW b \in Bookings, NEW cents \in Int, NEW fault \in FaultParties,
             Check(c, b, cents, fault)
      PROVE  Cause(hold'[call'[d].booking], call'[d].refundIsFull, call'[d].cents)
  BY <1>2, <1>4, CheckBegins
<1>5. CASE UNCHANGED refundVars \/ UNCHANGED refundsVars
  BY <1>2, <1>5 DEF refundVars, refundsVars
<1>6. QED
  BY <1>3, <1>4, <1>5 DEF CallsMove

\* Money that PayFast has sent is refused a booking only where the hold is frozen or
\* settled, or refunds booked before leave no room for it, however old the hold was that
\* the call had read.
THEOREM RefusalsHaveCause == RefundsSpec => []RefusalHasCause
<1>1. RefundsInit => RefusalHasCause
  BY DEF RefundsInit, RefusalHasCause, NoCall
<1>2. RefundsInv /\ RefusalHasCause /\ [RefundsNext]_refundsVars => RefusalHasCause'
  BY RefusalNext, RefundsMove DEF RefundsInv
<1>3. QED
  BY <1>1, <1>2, RefundsAccounted, PTL DEF RefundsSpec
-----------------------------------------------------------------------------
(***************************************************************************)
(* issueRefund implements RefundedFunds.                                   *)
(***************************************************************************)

\* What RefundedFunds sees of a step that leaves the escrow component alone.
LEMMA FundsStay ==
    ASSUME UNCHANGED escrowVars
    PROVE  UNCHANGED Promised!vars
  BY BarStutter DEF escrowVars, Promised!vars

\* A refunds row belongs to a call that has begun; what it asks for stays.
LEMMA AskStays ==
    ASSUME CallsInv,
           \A d \in Calls :
              /\ refunds'[d] = NoRow <=> refunds[d] = NoRow
              /\ refunds'[d].cents = refunds[d].cents
              /\ call[d].pc # "idle" => call'[d].booking = call[d].booking
    PROVE  askBar' = askBar
<1>1. ASSUME NEW d \in Calls, refunds[d] # NoRow
      PROVE  call'[d].booking = call[d].booking
  BY <1>1, CallType DEF CallAccounted, Untouched
<1>2. QED
  BY <1>1 DEF askBar

\* What RefundedFunds sees of a call whose row is being processed.
LEMMA AskOf ==
    ASSUME CallsInv, NEW c \in Calls, Processing(c), call[c].pc # "idle"
    PROVE  /\ askBar[c] = [booking |-> call[c].booking, cents |-> call[c].cents]
           /\ askBar[c].booking = call[c].booking
           /\ askBar[c].cents = call[c].cents
           /\ askBar[c] # Promised!NothingAsked
           /\ booked[c] = 0 => Promised!Underway(c)
<1>1. refunds[c] # NoRow /\ refunds[c].cents = call[c].cents /\ announced[c] = <<>>
  BY DEF Processing, NoRow
<1>2. askBar[c] = [booking |-> call[c].booking, cents |-> call[c].cents]
  BY <1>1 DEF askBar
<1>3. askBar[c].cents = call[c].cents /\ call[c].cents # 0
  BY <1>2, CallType DEF CallRow
<1>4. askBar[c] # Promised!NothingAsked
  BY <1>3 DEF Promised!NothingAsked
<1>5. QED
  BY <1>1, <1>2, <1>3, <1>4 DEF Promised!Underway

LEMMA InsertRowAsks ==
    ASSUME CallsInv, AskedWithinHold, NEW c \in Calls, InsertRow(c)
    PROVE  Promised!Ask(c)
<1> DEFINE b == call[c].booking
           row == [state |-> "PROCESSING", cents |-> call[c].cents]
<1>1. /\ call[c].pc = "checked"
      /\ Goto(c, "calling")
      /\ refunds' = [refunds EXCEPT ![c] = row]
      /\ UNCHANGED <<escrowVars, booked, announced, sent>>
  BY DEF InsertRow
<1>2. /\ call[c] \in CallRow
      /\ refunds[c] = NoRow
      /\ hold[b] # NoHold
      /\ call[c].cents <= hold[b].amount
  BY <1>1, CallType DEF CallAccounted, Untouched, AskedWithinHold
<1>3. b \in Bookings /\ call[c].cents \in Nat \ {0}
  BY <1>2 DEF CallRow
<1>4. call[c].cents \in 1 .. potBar[b] + artistBar[b] + clientBar[b]
  <2>1. IInv
    BY DEF CallsInv
  <2>2. potBar[b] + artistBar[b] + clientBar[b] = hold[b].amount
    BY <1>3, <2>1, PotsAddUp
  <2>3. QED
    BY <1>2, <1>3, <2>1, <2>2 DEF IInv, TypeOK, HoldRow
<1>5. Moved(c, "calling")
  BY <1>1, GotoMoves DEF CallPoints
<1>6. /\ refunds'[c] = row
      /\ \A d \in Calls \ {c} : refunds'[d] = refunds[d]
  BY <1>1 DEF CallsInv, RefundsTypeOK
<1>7. /\ askBar[c] = Promised!NothingAsked
      /\ askBar'[c] = [booking |-> b, cents |-> call[c].cents]
      /\ \A d \in Calls \ {c} : askBar'[d] = askBar[d]
  BY <1>2, <1>5, <1>6 DEF askBar, Promised!NothingAsked, NoRow, Moved
<1>8. askBar' = [askBar EXCEPT ![c] = [booking |-> b, cents |-> call[c].cents]]
  BY <1>7 DEF askBar
<1>9. QED
  BY <1>1, <1>3, <1>4, <1>7, <1>8, FundsStay DEF Promised!Ask

\* PayFast has sent the money once more, or not.
LEMMA AnswerSends ==
    ASSUME CallsInv, NEW c \in Calls, GatewayAccepts(c) \/ GatewayRejects(c) \/ GatewayFails(c)
    PROVE  Promised!Send(c) \/ UNCHANGED <<Promised!vars, Promised!callVars>>
<1>1. /\ call[c].pc = "calling"
      /\ Continue(c)
      /\ UNCHANGED <<escrowVars, refunds, booked, announced>>
      /\ sent' = sent \/ sent' = [sent EXCEPT ![c] = @ + call[c].cents]
  BY DEF GatewayAccepts, GatewayRejects, GatewayFails, UnconfirmedSend, Continue
<1>2. askBar' = askBar
  BY <1>1, AskStays, CallsKeepSubject
<1>3. Processing(c) /\ booked[c] = 0
  BY <1>1, CallType DEF CallAccounted
<1>4. Promised!Underway(c) /\ askBar[c].cents = call[c].cents
  BY <1>1, <1>3, AskOf
<1>5. sent[c] + call[c].cents <= SendLimit * call[c].cents
  BY <1>1, SendFits
<1>6. CASE sent' = sent
  BY <1>1, <1>2, <1>6, FundsStay DEF Promised!callVars
<1>7. CASE sent' = [sent EXCEPT ![c] = @ + call[c].cents]
  BY <1>1, <1>2, <1>4, <1>5, <1>7, FundsStay DEF Promised!Send, SendLimit
<1>8. QED
  BY <1>1, <1>6, <1>7

\* The transaction that closes the row tells the outcome.
LEMMA ClosingTells ==
    ASSUME CallsInv, NEW c \in Calls, HandleFailure(c) \/ FinaliseRow(c)
    PROVE  Promised!GiveUp(c) \/ Promised!Confirm(c)
<1>1. /\ call[c].pc \in {"failed", "booked"}
      /\ Continue(c)
      /\ UNCHANGED <<escrowVars, booked, sent>>
      /\ \/ call[c].pc = "failed" /\ CloseRow(c, "FAILED", "payments.refund.failed")
         \/ call[c].pc = "booked" /\ CloseRow(c, "SUCCEEDED", "payments.refund.succeeded")
  BY DEF HandleFailure, FinaliseRow, Continue
<1>2. /\ Processing(c)
      /\ call[c].pc = "failed" => booked[c] = 0
      /\ call[c].pc = "booked" => booked[c] # 0
  BY <1>1, CallType DEF CallAccounted, Booked, CallRow
<1>3. PICK state \in {"SUCCEEDED", "FAILED"} : Closed(c, state,
         IF call[c].pc = "booked" THEN "payments.refund.succeeded" ELSE "payments.refund.failed")
  BY <1>1, <1>2, CloseRowCloses
<1>4. askBar' = askBar
  <2>1. refunds[c] # NoRow /\ refunds'[c] # NoRow /\ refunds'[c].cents = refunds[c].cents
    BY <1>2, <1>3 DEF Processing, Closed, NoRow
  <2>2. \A d \in Calls :
           /\ refunds'[d] = NoRow <=> refunds[d] = NoRow
           /\ refunds'[d].cents = refunds[d].cents
    BY <1>3, <2>1 DEF Closed
  <2>3. QED
    BY <1>1, <2>2, AskStays, CallsKeepSubject
<1>5. announced[c] = <<>>
  BY <1>2 DEF Processing
<1>6. CASE call[c].pc = "failed"
  <2>1. announced' = [announced EXCEPT ![c] = <<"payments.refund.failed">>]
    BY <1>3, <1>6 DEF Closed, CallsInv, RefundsTypeOK
  <2>2. QED
    BY <1>1, <1>2, <1>4, <1>6, <2>1, AskOf, FundsStay DEF Promised!GiveUp
<1>7. CASE call[c].pc = "booked"
  <2>1. announced' = [announced EXCEPT ![c] = <<"payments.refund.succeeded">>]
    BY <1>3, <1>7 DEF Closed, CallsInv, RefundsTypeOK
  <2>2. QED
    BY <1>1, <1>2, <1>4, <1>5, <1>7, <2>1, FundsStay DEF Promised!Confirm
<1>8. QED
  BY <1>1, <1>6, <1>7


\* The transaction that books a call is one that gives money back, and to the client only.
LEMMA FlipRefines ==
    ASSUME CallsInv, IInv', NEW c \in Calls, call[c].pc = "accepted", Flip(c)
    PROVE  /\ Funds!GiveBack(call[c].booking) \/ Funds!Settle(call[c].booking)
           /\ phaseBar[call[c].booking] = "open"
           /\ artistBar' = artistBar
<1> DEFINE b == call[c].booking
           fault == call[c].faultParty
<1>1. /\ IInv
      /\ b \in Bookings
      /\ call[c].cents \in Int
      /\ fault \in FaultParties
      /\ call[c].refundIsFull \in BOOLEAN
  BY CallType DEF CallRow, CallsInv
<1>2. Operation(b)
  BY FlipBooks
<1>3. CASE call[c].refundIsFull
  <2>1. Refund(b, fault)
    BY <1>3 DEF Flip
  <2>2. /\ MoveHold(b, "REFUND")
        /\ WriteLedger(b, RefundEntries(hold[b].fee, hold[b].amount, fault, TRUE))
    BY <2>1 DEF Refund
  <2>3. hold[b].state = "HELD"
    <3>1. TypeOK /\ hold[b].state \in HoldStates \cup {"ABSENT"}
      BY <1>1 DEF IInv, TypeOK, HoldRow
    <3>2. QED
      BY <1>1, <2>2, <3>1, HoldStep, TransitionTable DEF EscrowActions
  <2>4. "REFUND" \in EscrowActions \ {"PARTIAL_REFUND", "FREEZE"}
    BY DEF EscrowActions
  <2>5. Funds!Settle(b)
    BY <1>1, <1>2, <2>2, <2>4, SettlingStepRefines, Zenon
  <2>6. artistBar[b] = 0 /\ artistBar'[b] = 0
    BY <1>1, <2>2, <2>3, OpenBar, RefundPaysNothing DEF OpenStates, artistBar
  <2>7. artistBar' = [artistBar EXCEPT ![b] = artistBar'[b]]
    BY <1>1, <1>2, BarUpdate DEF IInv
  <2>8. artistBar' = artistBar
    BY <2>6, <2>7 DEF artistBar
  <2>9. phaseBar[b] = "open"
    BY <1>1, <2>3 DEF phaseBar, PhaseOf
  <2>10. QED
    BY <2>5, <2>8, <2>9
<1>4. CASE ~call[c].refundIsFull
  <2>1. PartialRefund(b, call[c].cents, fault)
    BY <1>4 DEF Flip
  <2>2. Funds!GiveBack(b)
    BY <1>1, <1>2, <2>1, PartialRefundRefines
  <2>3. phaseBar[b] = "open" /\ artistBar' = artistBar
    BY <2>2, Zenon DEF Funds!GiveBack
  <2>4. QED
    BY <2>2, <2>3
<1>5. QED
  BY <1>1, <1>3, <1>4

LEMMA BookRefundBooks ==
    ASSUME CallsInv, NEW c \in Calls, BookRefund(c)
    PROVE  Promised!Book(c)
<1> DEFINE b == call[c].booking
           cents == call[c].cents
<1>1. /\ call[c].pc = "accepted"
      /\ Flip(c)
      /\ booked' = [booked EXCEPT ![c] = trail'[b][Len(trail'[b])].cents]
      /\ Continue(c)
      /\ UNCHANGED <<refunds, announced, sent>>
  BY DEF BookRefund, Continue
<1>2. /\ IInv /\ IInv'
      /\ b \in Bookings
      /\ Processing(c) /\ booked[c] = 0
      /\ sent[c] >= cents
  BY <1>1, CallType, BookRefundInv DEF CallsInv, CallRow, CallAccounted
<1>3. Operation(b) /\ booked' = [booked EXCEPT ![c] = cents]
  BY <1>1, FlipBooks
<1>4. /\ askBar[c].booking = b
      /\ askBar[c].cents = cents
      /\ Promised!Underway(c)
      /\ askBar' = askBar
  BY <1>1, <1>2, AskOf, AskStays, CallsKeepSubject
<1>5. /\ Funds!GiveBack(b) \/ Funds!Settle(b)
      /\ phaseBar[b] = "open"
      /\ artistBar' = artistBar
  BY <1>1, <1>2, FlipRefines
<1>6. Promised!GiveBack(b) \/ Promised!Settle(b)
  BY <1>5, Zenon DEF Funds!GiveBack, Funds!Settle, Promised!GiveBack, Promised!Settle
<1>7. clientBar' = [clientBar EXCEPT ![b] = clientBar[b] + cents]
  <2>1. clientBar'[b] = clientBar[b] + cents
    BY <1>1, FlipPays
  <2>2. clientBar' = [clientBar EXCEPT ![b] = clientBar'[b]]
    BY <1>2, <1>3, BarUpdate DEF IInv
  <2>3. QED
    BY <2>1, <2>2
<1> HIDE DEF b, cents
<1>8. QED
  BY <1>1, <1>2, <1>3, <1>4, <1>5, <1>6, <1>7 DEF Promised!Book

LEMMA MovesKeepPromise ==
    ASSUME CallsInv, AskedWithinHold, CallsMove
    PROVE  [Promised!RefundedNext]_<<Promised!vars, Promised!callVars>>
<1>1. ASSUME NEW c \in Calls, NEW b \in Bookings, NEW cents \in Int, NEW fault \in FaultParties,
             Check(c, b, cents, fault)
      PROVE  UNCHANGED <<Promised!vars, Promised!callVars>>
  <2>1. /\ UNCHANGED <<escrowVars, refunds, booked, announced, sent>>
        /\ \A d \in Calls : call[d].pc # "idle" => call'[d].booking = call[d].booking
    BY <1>1, CheckBegins
  <2>2. askBar' = askBar
    BY <2>1, AskStays
  <2>3. QED
    BY <2>1, <2>2, FundsStay DEF Promised!callVars
<1>2. ASSUME NEW c \in Calls, RefuseRefund(c) \/ Lose(c)
      PROVE  UNCHANGED <<Promised!vars, Promised!callVars>>
  <2>1. UNCHANGED <<escrowVars, refunds, booked, announced, sent>>
    BY <1>2 DEF RefuseRefund, Lose
  <2>2. askBar' = askBar
    BY <1>2, <2>1, AskStays, CallsKeepSubject DEF Continue
  <2>3. QED
    BY <2>1, <2>2, FundsStay DEF Promised!callVars
<1>3. ASSUME NEW c \in Calls, Continue(c), ~RefuseRefund(c)
      PROVE  Promised!CallStep(c) \/ UNCHANGED <<Promised!vars, Promised!callVars>>
  <2>1. CASE InsertRow(c)
    BY <2>1, InsertRowAsks DEF Promised!CallStep
  <2>2. CASE GatewayAccepts(c) \/ GatewayRejects(c) \/ GatewayFails(c)
    BY <2>2, AnswerSends DEF Promised!CallStep
  <2>3. CASE HandleFailure(c) \/ FinaliseRow(c)
    BY <2>3, ClosingTells DEF Promised!CallStep
  <2>4. CASE BookRefund(c)
    BY <2>4, BookRefundBooks DEF Promised!CallStep
  <2>5. QED
    BY <1>3, <2>1, <2>2, <2>3, <2>4 DEF Continue
<1>4. ASSUME NEW b \in Bookings, EscrowStep(b) \/ LaterOperation(b), UNCHANGED refundVars
      PROVE  Promised!Next /\ UNCHANGED Promised!callVars
  <2>1. IInv /\ IInv'
    BY <1>4, MovesEvolve DEF CallsInv
  <2>2. Funds!Next
    BY <1>4, <2>1, StepRefines
  <2>3. Promised!Next
    BY <2>2, Zenon DEF Funds!Next, Funds!Pay, Funds!GiveBack, Funds!Dispute, Funds!Settle,
          Promised!Next, Promised!Pay, Promised!GiveBack, Promised!Dispute, Promised!Settle
  <2>4. UNCHANGED Promised!callVars
    BY <1>4 DEF refundVars, askBar, Promised!callVars
  <2>5. QED
    BY <2>3, <2>4
<1>5. CASE UNCHANGED refundsVars
  BY <1>5, FundsStay DEF refundsVars, refundVars, askBar, Promised!callVars
<1>6. QED
  BY <1>1, <1>2, <1>3, <1>4, <1>5 DEF CallsMove, Promised!RefundedNext

LEMMA RefundedStarts == RefundsInit => Promised!RefundedInit
<1> SUFFICES ASSUME RefundsInit PROVE Promised!RefundedInit
  OBVIOUS
<1>1. Funds!Init
  BY InitRefines DEF RefundsInit
<1>2. Promised!Init
  BY <1>1, Zenon DEF Funds!Init, Promised!Init
<1>3. askBar = [c \in Calls |-> Promised!NothingAsked]
  BY DEF askBar, RefundsInit, Promised!NothingAsked
<1>4. QED
  BY <1>2, <1>3 DEF RefundsInit, Promised!RefundedInit

\* issueRefund implements RefundedFunds: the refunds row, the outbox, what PayFast has
\* sent and the money in the ledger take part in one history, although four parties write
\* them at different moments, and calls die, race and act on stale reads.
THEOREM RefundsImplement == RefundsSpec => ImplementsRefundedFunds
<1>1. RefundsInit => Promised!RefundedInit
  BY RefundedStarts
<1>2. RefundsInv /\ [RefundsNext]_refundsVars =>
        [Promised!RefundedNext]_<<Promised!vars, Promised!callVars>>
  BY RefundsMove, MovesKeepPromise DEF RefundsInv
<1>3. QED
  BY <1>1, <1>2, RefundsAccounted, PTL
     DEF RefundsSpec, ImplementsRefundedFunds, Promised!RefundedSpec

-----------------------------------------------------------------------------
(***************************************************************************)
(* EventConsumers: a handler that ended well has had its effect.           *)
(***************************************************************************)

\* The effect of one message.
TakesEffect(m) ==
    handler[m] = "done" =>
        /\ Kind(m) \in {"completed", "cancelled_none", "disputed"} =>
              HoldOf(m).state \in Terminal \cup {"DISPUTED"}
        /\ Kind(m) \in {"cancelled_full", "cancelled_partial"} =>
              HoldOf(m).state # "HELD" \/ HoldOf(m).amount = 0

MessageAccounted(m) == BookedLeavesHeld(m) /\ HandlerAccounted(m) /\ TakesEffect(m)

LEMMA MessageType ==
    ASSUME ConsumersInv, NEW m \in Messages
    PROVE  /\ CallsInv /\ IInv /\ TypeOK
           /\ MessageAccounted(m)
           /\ content[m] \in Contents
           /\ content[m].booking \in Bookings
           /\ Kind(m) \in Kinds
           /\ FaultOf(m) \in FaultParties
           /\ content[m].artist \in Nat
           /\ content[m].client \in Nat
           /\ HoldOf(m) \in HoldRow
           /\ FundsAccounted(content[m].booking)
           /\ handler[m] \in HandlerPoints
<1>1. /\ CallsInv /\ IInv /\ TypeOK /\ ConsumersTypeOK
      /\ MessageAccounted(m)
  BY DEF ConsumersInv, CallsInv, IInv, HandledTakesEffect, TakesEffect, MessageAccounted
<1>2. content[m] \in Contents /\ handler[m] \in HandlerPoints
  BY <1>1 DEF ConsumersTypeOK
<1>3. /\ content[m].booking \in Bookings
      /\ content[m].kind \in Kinds
      /\ content[m].faultParty \in FaultParties
      /\ content[m].artist \in Nat
      /\ content[m].client \in Nat
  BY <1>2, ContentsAssumption
<1>4. FaultOf(m) \in FaultParties
  BY <1>3 DEF FaultOf, FaultParties
<1>5. HoldOf(m) \in HoldRow /\ FundsAccounted(content[m].booking)
  BY <1>1, <1>3 DEF TypeOK, HoldOf, IInv
<1>6. QED
  BY <1>1, <1>2, <1>3, <1>4, <1>5 DEF Kind

\* A hold that is there stays there, and only moves on.
LEMMA HoldMovesOn ==
    ASSUME ConsumersInv, \A b \in Bookings : Evolves(hold[b], hold'[b]), IInv',
           content' = content, NEW m \in Messages
    PROVE  /\ HoldOf(m)' \in HoldRow
           /\ HoldOf(m).state # "ABSENT" =>
                /\ HoldOf(m)'.state # "ABSENT"
                /\ HoldOf(m)'.amount = HoldOf(m).amount
                /\ HoldOf(m)'.state = "HELD" => HoldOf(m).state = "HELD"
                /\ HoldOf(m).state \in Terminal \cup {"DISPUTED"}
                      => HoldOf(m)'.state \in Terminal \cup {"DISPUTED"}
<1> DEFINE b == content[m].booking
<1>1. b \in Bookings /\ hold[b] \in HoldRow
  BY MessageType DEF HoldOf
<1>2. Evolves(hold[b], hold'[b])
  BY <1>1
<1>3. hold'[b] \in HoldRow /\ (hold'[b].state = "ABSENT" => hold'[b] = NoHold)
  BY <1>1 DEF IInv, TypeOK, FundsAccounted
<1>4. hold[b].state # "ABSENT" => hold[b] # NoHold
  BY DEF NoHold
<1>5. HoldOf(m) = hold[b] /\ HoldOf(m)' = hold'[b]
  BY DEF HoldOf
<1> HIDE DEF b
<1>6. QED
  BY <1>1, <1>2, <1>3, <1>4, <1>5 DEF Evolves, Terminal

\* A message whose handler and call do nothing keeps what it has.
LEMMA MessageStays ==
    ASSUME ConsumersInv, \A b \in Bookings : Evolves(hold[b], hold'[b]), IInv',
           content' = content, NEW m \in Messages,
           handler'[m] = handler[m], call'[m] = call[m], refunds'[m] = refunds[m]
    PROVE  MessageAccounted(m)'
<1>1. MessageAccounted(m) /\ Kind(m)' = Kind(m) /\ HoldOf(m) \in HoldRow
  BY MessageType DEF Kind
<1>2. BookedLeavesHeld(m)'
  BY <1>1, HoldMovesOn DEF MessageAccounted, BookedLeavesHeld, HoldStates, HoldRow
<1>3. HandlerAccounted(m)'
  BY <1>1, HoldMovesOn DEF MessageAccounted, HandlerAccounted
<1>4. TakesEffect(m)'
  <2> SUFFICES ASSUME handler[m] = "done"
               PROVE  TakesEffect(m)'
    BY DEF TakesEffect
  <2>1. CASE Kind(m) \in {"completed", "cancelled_none", "disputed"}
    BY <1>1, <2>1, HoldMovesOn DEF MessageAccounted, TakesEffect, Terminal, HandlerAccounted
  <2>2. CASE Kind(m) \in {"cancelled_full", "cancelled_partial"}
    BY <1>1, <2>2, HoldMovesOn DEF MessageAccounted, TakesEffect, Terminal, HandlerAccounted
  <2>3. QED
    BY <1>1, <2>1, <2>2 DEF TakesEffect
<1>5. QED
  BY <1>2, <1>3, <1>4 DEF MessageAccounted

\* A step of one message: it is enough to look at its own handler and call.
LEMMA MessageStep ==
    ASSUME ConsumersInv, CallsInv', \A b \in Bookings : Evolves(hold[b], hold'[b]),
           NEW m \in Messages,
           UNCHANGED content,
           topic' \in [Messages -> {"unsent", "outstanding", "acked"}],
           handler' \in [Messages -> HandlerPoints],
           processed' = {d \in Messages : handler'[d] # "none"},
           \A d \in Messages \ {m} :
              handler'[d] = handler[d] /\ call'[d] = call[d] /\ refunds'[d] = refunds[d],
           MessageAccounted(m)'
    PROVE  ConsumersInv'
<1>1. IInv' /\ RefundsTypeOK'
  BY DEF CallsInv
<1>2. ConsumersTypeOK'
  BY <1>1 DEF ConsumersInv, ConsumersTypeOK
<1>3. \A d \in Messages : MessageAccounted(d)'
  BY <1>1, MessageStays
<1>4. HandledTakesEffect'
  BY <1>3 DEF HandledTakesEffect, TakesEffect, MessageAccounted
<1>5. QED
  BY <1>2, <1>3, <1>4 DEF ConsumersInv, MessageAccounted

\* A handler that is on its way gets to its next point.
LEMMA HandlerGoesOn ==
    ASSUME ConsumersInv, NEW m \in Messages, NEW point \in HandlerPoints \ {"none"},
           handler[m] # "none", HandlerAt(m, point), UNCHANGED processed
    PROVE  /\ handler' \in [Messages -> HandlerPoints]
           /\ handler'[m] = point
           /\ processed' = {d \in Messages : handler'[d] # "none"}
           /\ \A d \in Messages \ {m} : handler'[d] = handler[d]
<1>1. ConsumersTypeOK
  BY DEF ConsumersInv
<1>2. QED
  BY <1>1 DEF ConsumersTypeOK, HandlerAt

\* The handler moves and nothing else does.
LEMMA HandlerOnlyInv ==
    ASSUME ConsumersInv, NEW m \in Messages, NEW point \in HandlerPoints \ {"none"},
           handler[m] # "none", HandlerAt(m, point),
           UNCHANGED <<refundsVars, content, topic, processed>>,
           point \in {"acting", "done"} => HoldOf(m).state # "ABSENT",
           point # "refunding",
           point = "done" => TakesEffect(m)'
    PROVE  ConsumersInv'
<1>1. /\ UNCHANGED <<escrowVars, refundVars, content, topic>>
      /\ hold' = hold
      /\ UNCHANGED <<call, refunds>>
  BY DEF refundsVars, refundVars, escrowVars
<1>2. IInv' /\ \A b \in Bookings : Evolves(hold[b], hold'[b])
  BY <1>1, MessageType, StutterInv, EvolvesReflexive
<1>3. CallsInv'
  BY <1>1, <1>2, MessageType, OtherStepInv
<1>4. /\ handler' \in [Messages -> HandlerPoints]
      /\ handler'[m] = point
      /\ processed' = {d \in Messages : handler'[d] # "none"}
      /\ \A d \in Messages \ {m} : handler'[d] = handler[d]
  BY HandlerGoesOn
<1>5. MessageAccounted(m)'
  <2>1. BookedLeavesHeld(m) /\ HandlerAccounted(m)
    BY MessageType DEF MessageAccounted
  <2>2. BookedLeavesHeld(m)' /\ HandlerAccounted(m)'
    BY <1>1, <1>4, <2>1 DEF BookedLeavesHeld, HandlerAccounted, HoldOf
  <2>3. TakesEffect(m)'
    BY <1>4 DEF TakesEffect
  <2>4. QED
    BY <2>2, <2>3 DEF MessageAccounted
<1>6. topic' \in [Messages -> {"unsent", "outstanding", "acked"}]
  BY <1>1 DEF ConsumersInv, ConsumersTypeOK
<1>7. QED
  BY <1>1, <1>2, <1>3, <1>4, <1>5, <1>6, MessageStep

\* Pub/Sub's side: only the message's delivery moves.
LEMMA TopicOnlyInv ==
    ASSUME ConsumersInv, NEW m \in Messages, NEW where \in {"outstanding", "acked"},
           topic' = [topic EXCEPT ![m] = where],
           UNCHANGED <<refundsVars, content, processed, handler>>
    PROVE  ConsumersInv'
<1>1. /\ UNCHANGED <<escrowVars, refundVars, content, processed, handler>>
      /\ hold' = hold
      /\ UNCHANGED <<call, refunds>>
  BY DEF refundsVars, refundVars, escrowVars
<1>2. IInv' /\ \A b \in Bookings : Evolves(hold[b], hold'[b])
  BY <1>1, MessageType, StutterInv, EvolvesReflexive
<1>3. CallsInv'
  BY <1>1, <1>2, MessageType, OtherStepInv
<1>4. ConsumersTypeOK
  BY DEF ConsumersInv
<1>5. MessageAccounted(m)'
  BY <1>1, <1>2, MessageStays
<1>6. QED
  BY <1>1, <1>2, <1>3, <1>4, <1>5, MessageStep DEF ConsumersTypeOK

LEMMA DeliverInv ==
    ASSUME ConsumersInv, NEW m \in Messages, Deliver(m)
    PROVE  ConsumersInv'
<1>1. /\ m \notin processed
      /\ processed' = processed \cup {m}
      /\ HandlerAt(m, "marked")
      /\ UNCHANGED <<escrowVars, refundVars, content, topic>>
      /\ hold' = hold
      /\ UNCHANGED <<call, refunds>>
  BY DEF Deliver, refundsVars, refundVars, escrowVars
<1>2. IInv' /\ \A b \in Bookings : Evolves(hold[b], hold'[b])
  BY <1>1, MessageType, StutterInv, EvolvesReflexive
<1>3. CallsInv'
  BY <1>1, <1>2, MessageType, OtherStepInv
<1>4. /\ ConsumersTypeOK
      /\ handler' \in [Messages -> HandlerPoints]
      /\ handler'[m] = "marked"
      /\ \A d \in Messages \ {m} : handler'[d] = handler[d]
      /\ processed' = {d \in Messages : handler'[d] # "none"}
  BY <1>1 DEF ConsumersInv, ConsumersTypeOK, HandlerAt, HandlerPoints
<1>5. MessageAccounted(m)'
  BY <1>1, <1>4, MessageType
     DEF MessageAccounted, BookedLeavesHeld, HandlerAccounted, TakesEffect, HoldOf
<1>6. QED
  BY <1>1, <1>2, <1>3, <1>4, <1>5, MessageStep DEF ConsumersTypeOK

NothingToDo(kind) == BookingNothingToDo(kind) \cup DisputeNothingToDo(kind)

LEMMA ReadHoldInv ==
    ASSUME ConsumersInv, NEW m \in Messages, ReadHold(m)
    PROVE  ConsumersInv'
<1>1. HoldOf(m)' = HoldOf(m) /\ Kind(m)' = Kind(m)
  BY DEF ReadHold, HoldOf, Kind, refundsVars, escrowVars
<1>2. PICK point \in {"threw", "no_hold", "done", "acting"} :
          /\ HandlerAt(m, point)
          /\ point \in {"done", "acting"} => HoldOf(m).state # "ABSENT"
          /\ point = "done" => HoldOf(m).state \in NothingToDo(Kind(m))
  BY DEF ReadHold, NothingToDo
<1>3. point = "done" => TakesEffect(m)'
  <2> SUFFICES ASSUME HoldOf(m).state \in NothingToDo(Kind(m))
               PROVE  TakesEffect(m)'
    BY <1>2
  <2>1. Kind(m) \in Kinds
    BY MessageType
  <2>2. CASE Kind(m) \in {"cancelled_full", "cancelled_partial", "cancelled_none", "invalid"}
    <3>1. NothingToDo(Kind(m)) = {}
      BY <2>2 DEF NothingToDo, BookingNothingToDo, DisputeNothingToDo
    <3>2. QED
      BY <3>1
  <2>3. CASE Kind(m) \in {"completed", "disputed"}
    <3>1. NothingToDo(Kind(m)) = Terminal \cup {"DISPUTED"}
      BY <2>3 DEF NothingToDo, BookingNothingToDo, DisputeNothingToDo
    <3>2. QED
      BY <1>1, <2>3, <3>1 DEF TakesEffect
  <2>4. CASE Kind(m) \in {"resolved_release", "resolved_refund", "resolved_split"}
    BY <1>1, <2>4 DEF TakesEffect
  <2>5. QED
    BY <2>1, <2>2, <2>3, <2>4 DEF Kinds
<1>4. QED
  BY <1>2, <1>3, HandlerOnlyInv DEF ReadHold, HandlerPoints

\* From where each operation of a handler is legal.
LEMMA DirectTransition ==
    ASSUME NEW from \in HoldStates, NEW act \in {"RELEASE", "FREEZE"}, ~CanTransition(from, act)
    PROVE  from \in Terminal \cup {"DISPUTED"}
  BY DEF CanTransition, Transitions, HoldStates, Terminal

LEMMA ActRefusedInv ==
    ASSUME ConsumersInv, NEW m \in Messages, ActRefused(m)
    PROVE  ConsumersInv'
<1>1. /\ HoldOf(m)' = HoldOf(m) /\ Kind(m)' = Kind(m)
      /\ handler[m] = "acting"
      /\ Kind(m) \in DirectKinds
      /\ UNCHANGED <<refundsVars, content, topic, processed>>
  BY DEF ActRefused, HoldOf, Kind, refundsVars, escrowVars
<1>2. HoldOf(m).state \in HoldStates
  BY <1>1, MessageType DEF MessageAccounted, HandlerAccounted, HoldRow
<1>3. CASE ~CanTransition(HoldOf(m).state, EscrowActionOf(Kind(m))) /\ HandlerAt(m, "done")
  <2>1. TakesEffect(m)'
    <3>1. CASE Kind(m) \in {"completed", "cancelled_none", "disputed"}
      <4>1. EscrowActionOf(Kind(m)) \in {"RELEASE", "FREEZE"}
        BY <3>1 DEF EscrowActionOf
      <4>2. HoldOf(m).state \in Terminal \cup {"DISPUTED"}
        BY <1>2, <1>3, <4>1, DirectTransition
      <4>3. QED
        BY <1>1, <3>1, <4>2 DEF TakesEffect
    <3>2. CASE Kind(m) \in {"resolved_release", "resolved_split"}
      BY <1>1, <3>2 DEF TakesEffect
    <3>3. QED
      BY <1>1, <3>1, <3>2 DEF DirectKinds
  <2>2. HoldOf(m).state # "ABSENT"
    BY <1>2 DEF HoldStates
  <2>3. QED
    BY <1>1, <1>3, <2>1, <2>2, HandlerOnlyInv DEF HandlerPoints
<1>4. CASE HandlerAt(m, "threw")
  BY <1>1, <1>4, HandlerOnlyInv DEF HandlerPoints
<1>5. QED
  BY <1>3, <1>4 DEF ActRefused

\* A handler that acts performs one operation on the hold of its message.
LEMMA ActOperates ==
    ASSUME ConsumersInv, NEW m \in Messages, Act(m)
    PROVE  content[m].booking \in Bookings /\ Operation(content[m].booking)
<1> DEFINE b == content[m].booking
<1>1. b \in Bookings /\ content[m].artist \in Int /\ content[m].client \in Int
  BY MessageType
<1>2. \/ Release(b)
      \/ Freeze(b)
      \/ ResolveRelease(b)
      \/ ResolveSplit(b, content[m].artist, content[m].client)
  BY DEF Act, BookingOperation, DisputeOperation
<1>3. QED
  BY <1>1, <1>2 DEF Operation, EscrowStep

LEMMA ActInv ==
    ASSUME ConsumersInv, NEW m \in Messages, Act(m)
    PROVE  ConsumersInv'
<1> DEFINE b == content[m].booking
<1>1. /\ b \in Bookings
      /\ IInv /\ TypeOK /\ CallsInv
      /\ content[m].artist \in Int /\ content[m].client \in Int
      /\ HandlerAccounted(m) /\ BookedLeavesHeld(m)
  BY MessageType DEF MessageAccounted
<1>2. /\ handler[m] = "acting"
      /\ HandlerAt(m, "done")
      /\ UNCHANGED <<refundVars, content, topic, processed>>
      /\ UNCHANGED <<call, refunds>>
  BY DEF Act, BookingOperation, DisputeOperation, refundVars
<1>3. \/ Kind(m) \in {"completed", "cancelled_none"} /\ Release(b)
      \/ Kind(m) = "disputed" /\ Freeze(b)
      \/ Kind(m) = "resolved_release" /\ ResolveRelease(b)
      \/ Kind(m) = "resolved_split" /\ ResolveSplit(b, content[m].artist, content[m].client)
  BY DEF Act, BookingOperation, DisputeOperation
<1>4. Operation(b)
  BY ActOperates
<1> HIDE DEF b
<1>5. IInv' /\ \A x \in Bookings : Evolves(hold[x], hold'[x])
  BY <1>1, <1>4, OperationInv, OperationEvolves
<1>6. CallsInv'
  BY <1>1, <1>2, <1>5, OtherStepInv
<1>7. /\ handler' \in [Messages -> HandlerPoints]
      /\ handler'[m] = "done"
      /\ processed' = {d \in Messages : handler'[d] # "none"}
      /\ \A d \in Messages \ {m} : handler'[d] = handler[d]
  BY <1>2, HandlerGoesOn DEF HandlerPoints
<1>8. Kind(m) \in {"completed", "cancelled_none", "disputed"} =>
          hold'[b].state \in Terminal \cup {"DISPUTED"}
  <2>1. hold[b].state \in HoldStates \cup {"ABSENT"}
    BY <1>1 DEF TypeOK, HoldRow
  <2>2. CASE Release(b)
    <3>1. MoveHold(b, "RELEASE")
      BY <2>2 DEF Release
    <3>2. hold'[b].state = "RELEASED"
      BY <1>1, <2>1, <3>1, HoldStep, TransitionTable DEF EscrowActions, HoldStates
    <3>3. QED
      BY <3>2 DEF Terminal
  <2>3. CASE Freeze(b)
    <3>1. MoveHold(b, "FREEZE")
      BY <2>3 DEF Freeze
    <3>2. hold'[b].state = "DISPUTED"
      BY <1>1, <2>1, <3>1, HoldStep, TransitionTable DEF EscrowActions, HoldStates
    <3>3. QED
      BY <3>2
  <2>4. QED
    BY <1>3, <2>2, <2>3
<1>9. MessageAccounted(m)'
  <2>1. /\ HoldOf(m)' \in HoldRow
        /\ HoldOf(m)'.state # "ABSENT"
        /\ HoldOf(m)'.state = "HELD" => HoldOf(m).state = "HELD"
    BY <1>1, <1>2, <1>5, HoldMovesOn DEF HandlerAccounted
  <2>2. BookedLeavesHeld(m)'
    BY <1>1, <1>2, <2>1 DEF BookedLeavesHeld, HoldStates, HoldRow
  <2>3. HandlerAccounted(m)'
    BY <1>1, <1>2, <1>7, <2>1 DEF HandlerAccounted
  <2>4. Kind(m) \in {"completed", "cancelled_none", "disputed", "resolved_release",
                     "resolved_split"} /\ Kind(m)' = Kind(m)
    BY <1>2, <1>3 DEF Kind
  <2>5. TakesEffect(m)'
    BY <1>2, <1>8, <2>4 DEF TakesEffect, HoldOf, b
  <2>6. QED
    BY <2>2, <2>3, <2>5 DEF MessageAccounted
<1>10. topic' \in [Messages -> {"unsent", "outstanding", "acked"}]
  BY <1>2 DEF ConsumersInv, ConsumersTypeOK
<1>11. QED
  BY <1>2, <1>5, <1>6, <1>7, <1>9, <1>10, MessageStep

LEMMA CallRefundInv ==
    ASSUME ConsumersInv, NEW m \in Messages, CallRefund(m)
    PROVE  ConsumersInv'
<1> DEFINE b == content[m].booking
           cents == RefundCents(m)
<1>1. /\ b \in Bookings
      /\ IInv /\ CallsInv /\ RefundsTypeOK
      /\ FaultOf(m) \in FaultParties
      /\ HandlerAccounted(m) /\ Kind(m) \in RefundKinds
  BY MessageType DEF MessageAccounted, CallsInv, CallRefund
<1>2. cents \in Int
  BY <1>1, MessageType, RemainingNat DEF RefundCents, HoldOf
<1>3. /\ handler[m] = "acting"
      /\ HandlerAt(m, "refunding")
      /\ Check(m, b, cents, FaultOf(m))
      /\ UNCHANGED <<content, topic, processed>>
  BY DEF CallRefund
<1> HIDE DEF cents
<1>4. CallsInv'
  BY <1>1, <1>2, <1>3, CheckInv DEF Messages
<1>5. /\ UNCHANGED <<escrowVars, refunds>>
      /\ hold' = hold
      /\ call'[m].pc = "checked"
      /\ call'[m].booking = b
      /\ \A d \in Messages \ {m} : call'[d] = call[d]
  BY <1>1, <1>3 DEF Check, RefundsTypeOK, escrowVars, Messages
<1>6. IInv' /\ \A x \in Bookings : Evolves(hold[x], hold'[x])
  BY <1>1, <1>5, StutterInv, EvolvesReflexive
<1>7. /\ handler' \in [Messages -> HandlerPoints]
      /\ handler'[m] = "refunding"
      /\ processed' = {d \in Messages : handler'[d] # "none"}
      /\ \A d \in Messages \ {m} : handler'[d] = handler[d]
  BY <1>3, HandlerGoesOn DEF HandlerPoints
<1>8. MessageAccounted(m)'
  <2>1. Kind(m)' = Kind(m) /\ HoldOf(m)' = HoldOf(m) /\ content'[m].booking = b
    BY <1>3, <1>5 DEF Kind, HoldOf
  <2>2. BookedLeavesHeld(m)' /\ TakesEffect(m)'
    BY <1>5, <1>7 DEF BookedLeavesHeld, TakesEffect
  <2>3. HandlerAccounted(m)'
    BY <1>1, <1>3, <1>5, <1>7, <2>1 DEF HandlerAccounted
  <2>4. QED
    BY <2>2, <2>3 DEF MessageAccounted
<1>9. topic' \in [Messages -> {"unsent", "outstanding", "acked"}]
  BY <1>3 DEF ConsumersInv, ConsumersTypeOK
<1>10. QED
  BY <1>3, <1>4, <1>5, <1>6, <1>7, <1>8, <1>9, MessageStep

LEMMA CallRefusedInv ==
    ASSUME ConsumersInv, NEW m \in Messages, CallRefused(m)
    PROVE  ConsumersInv'
<1>1. /\ HoldOf(m)' = HoldOf(m) /\ Kind(m)' = Kind(m)
      /\ handler[m] = "acting"
      /\ Kind(m) \in RefundKinds
      /\ UNCHANGED <<refundsVars, content, topic, processed>>
      /\ \/ HandlerAt(m, "done") /\ (HoldOf(m).state \in Terminal \/ Remaining(HoldOf(m)) = 0)
         \/ HandlerAt(m, "threw")
  BY DEF CallRefused, HoldOf, Kind, refundsVars, escrowVars
<1>2. /\ HoldOf(m).state # "ABSENT"
      /\ HoldOf(m).state = "HELD" => Remaining(HoldOf(m)) = HoldOf(m).amount
  BY <1>1, MessageType, RemainingNat DEF MessageAccounted, HandlerAccounted, HoldOf
<1>3. CASE HandlerAt(m, "done") /\ (HoldOf(m).state \in Terminal \/ Remaining(HoldOf(m)) = 0)
  <2>1. HoldOf(m).state # "HELD" \/ HoldOf(m).amount = 0
    BY <1>2, <1>3 DEF Terminal
  <2>2. TakesEffect(m)'
    BY <1>1, <2>1 DEF TakesEffect, RefundKinds
  <2>3. QED
    BY <1>1, <1>2, <1>3, <2>2, HandlerOnlyInv DEF HandlerPoints
<1>4. CASE HandlerAt(m, "threw")
  BY <1>1, <1>4, HandlerOnlyInv DEF HandlerPoints
<1>5. QED
  BY <1>1, <1>3, <1>4

LEMMA RefundReturnsInv ==
    ASSUME ConsumersInv, NEW m \in Messages, RefundReturns(m)
    PROVE  ConsumersInv'
<1>1. /\ HoldOf(m)' = HoldOf(m) /\ Kind(m)' = Kind(m)
      /\ handler[m] = "refunding"
      /\ UNCHANGED <<refundsVars, content, topic, processed>>
      /\ \/ HandlerAt(m, "done") /\ call[m].pc = "done" /\ refunds[m].state = "SUCCEEDED"
         \/ HandlerAt(m, "threw")
  BY DEF RefundReturns, HoldOf, Kind, refundsVars, escrowVars
<1>2. BookedLeavesHeld(m) /\ HandlerAccounted(m)
  BY MessageType DEF MessageAccounted
<1>3. CASE HandlerAt(m, "threw")
  BY <1>1, <1>3, HandlerOnlyInv DEF HandlerPoints
<1>4. CASE HandlerAt(m, "done") /\ call[m].pc = "done" /\ refunds[m].state = "SUCCEEDED"
  <2>1. HoldOf(m).state # "HELD" /\ HoldOf(m).state # "ABSENT"
    BY <1>2, <1>4 DEF BookedLeavesHeld, HoldStates
  <2>2. TakesEffect(m)'
    BY <1>1, <1>2, <2>1 DEF TakesEffect, HandlerAccounted, RefundKinds
  <2>3. QED
    BY <1>1, <1>4, <2>1, <2>2, HandlerOnlyInv DEF HandlerPoints
<1>5. QED
  BY <1>1, <1>3, <1>4

\* What a step of a refund does to the hold and to the rows of its call.
LEMMA CallProgress ==
    ASSUME ConsumersInv, NEW m \in Messages, Continue(m)
    PROVE  /\ CallsInv'
           /\ \A b \in Bookings : Evolves(hold[b], hold'[b])
           /\ call[m].pc # "idle" /\ call'[m].pc # "idle"
           /\ call'[m].booking = call[m].booking
           /\ \A d \in Messages \ {m} : call'[d] = call[d] /\ refunds'[d] = refunds[d]
           /\ \/ call'[m].pc = "booked" /\ BookRefund(m)
              \/ /\ call'[m].pc = "done" /\ refunds'[m].state = "SUCCEEDED"
                 /\ call[m].pc = "booked" /\ hold' = hold
              \/ call'[m].pc # "booked" /\ ~(call'[m].pc = "done" /\ refunds'[m].state = "SUCCEEDED")
<1> USE DEF Messages
<1>1. CallsInv /\ IInv /\ RefundsTypeOK
  BY MessageType DEF CallsInv
<1>2. CallsInv'
  BY <1>1, RefundStepInv DEF RefundStep
<1>3. /\ call[m].pc \in {"checked", "calling", "accepted", "failed", "booked"}
      /\ call[m] \in CallRow
  BY <1>1, CallType DEF Continue, InsertRow, GatewayAccepts, GatewayRejects, GatewayFails,
        HandleFailure, BookRefund, RefuseRefund, FinaliseRow
<1>4. CASE BookRefund(m)
  <2>1. Moved(m, "booked") /\ UNCHANGED refunds
    BY <1>1, <1>3, <1>4, GotoMoves DEF BookRefund, CallPoints
  <2>2. Operation(call[m].booking) /\ call[m].booking \in Bookings
    BY <1>1, <1>3, <1>4, FlipBooks DEF BookRefund, CallRow
  <2>3. \A b \in Bookings : Evolves(hold[b], hold'[b])
    BY <1>1, <2>2, OperationEvolves
  <2>4. QED
    BY <1>2, <1>3, <1>4, <2>1, <2>3 DEF Moved
<1>5. CASE ~BookRefund(m)
  <2>1. hold' = hold
    BY <1>5 DEF Continue, InsertRow, GatewayAccepts, GatewayRejects, GatewayFails,
          HandleFailure, RefuseRefund, FinaliseRow, escrowVars
  <2>2. \A b \in Bookings : Evolves(hold[b], hold'[b])
    BY <1>1, <2>1, EvolvesReflexive
  <2>3. CASE FinaliseRow(m)
    <3>1. Moved(m, "done") /\ call[m].pc = "booked"
      BY <1>1, <1>3, <2>3, GotoMoves DEF FinaliseRow, CallPoints
    <3>2. refunds' = [refunds EXCEPT ![m].state = "SUCCEEDED"]
      BY <2>3 DEF FinaliseRow, CloseRow
    <3>3. /\ refunds'[m].state = "SUCCEEDED"
          /\ \A d \in Messages \ {m} : refunds'[d] = refunds[d]
      BY <1>1, <3>2 DEF RefundsTypeOK, RefundRow
    <3>4. QED
      BY <1>2, <1>3, <2>1, <2>2, <3>1, <3>3 DEF Moved
  <2>4. CASE HandleFailure(m)
    <3>1. Moved(m, "done")
      BY <1>1, <1>3, <2>4, GotoMoves DEF HandleFailure, CallPoints
    <3>2. refunds' = [refunds EXCEPT ![m].state = "FAILED"]
      BY <2>4 DEF HandleFailure, CloseRow
    <3>3. /\ refunds'[m].state = "FAILED"
          /\ \A d \in Messages \ {m} : refunds'[d] = refunds[d]
      BY <1>1, <3>2 DEF RefundsTypeOK, RefundRow
    <3>4. QED
      BY <1>2, <1>3, <2>2, <3>1, <3>3 DEF Moved
  <2>5. CASE InsertRow(m)
    <3>1. Moved(m, "calling")
      BY <1>1, <1>3, <2>5, GotoMoves DEF InsertRow, CallPoints
    <3>2. \A d \in Messages \ {m} : refunds'[d] = refunds[d]
      BY <1>1, <2>5 DEF InsertRow, RefundsTypeOK
    <3>3. QED
      BY <1>2, <1>3, <2>2, <3>1, <3>2 DEF Moved
  <2>6. CASE GatewayAccepts(m) \/ GatewayRejects(m) \/ RefuseRefund(m)
    <3>1. PICK point \in {"accepted", "failed", "refused"} : Moved(m, point)
      BY <1>1, <1>3, <2>6, GotoMoves
         DEF GatewayAccepts, GatewayRejects, RefuseRefund, CallPoints
    <3>2. UNCHANGED refunds
      BY <2>6 DEF GatewayAccepts, GatewayRejects, RefuseRefund
    <3>3. QED
      BY <1>2, <1>3, <2>2, <3>1, <3>2 DEF Moved
  <2>7. CASE GatewayFails(m)
    <3>1. /\ call[m].pc = "calling"
          /\ call' = [call EXCEPT ![m] = [call[m] EXCEPT
                !.attempts = call[m].attempts + 1,
                !.pc = IF call[m].attempts + 1 < MaxAttempts THEN call[m].pc ELSE "failed"]]
          /\ UNCHANGED refunds
      BY <2>7 DEF GatewayFails
    <3>2. /\ call'[m].pc \in {"calling", "failed"}
          /\ call'[m].booking = call[m].booking
          /\ \A d \in Messages \ {m} : call'[d] = call[d]
      BY <1>1, <1>3, <3>1 DEF RefundsTypeOK, CallRow
    <3>3. QED
      BY <1>2, <1>3, <2>2, <3>1, <3>2
  <2>8. QED
    BY <1>5, <2>3, <2>4, <2>5, <2>6, <2>7 DEF Continue
<1>6. QED
  BY <1>4, <1>5

\* Either kind of refund takes the hold out of HELD.
LEMMA FlipLeavesHeld ==
    ASSUME CallsInv, NEW c \in Calls, call[c].pc = "accepted", Flip(c)
    PROVE  hold'[call[c].booking].state \in HoldStates \ {"HELD"}
<1> DEFINE b == call[c].booking
<1>1. /\ TypeOK
      /\ b \in Bookings
      /\ hold[b] \in HoldRow
  BY CallType DEF CallRow, CallsInv, RefundsTypeOK, TypeOK
<1>2. CASE call[c].refundIsFull
  <2>1. MoveHold(b, "REFUND")
    BY <1>2 DEF Flip, Refund
  <2>2. hold'[b].state = "REFUNDED"
    BY <1>1, <2>1, HoldStep, TransitionTable DEF EscrowActions, HoldStates, HoldRow
  <2>3. QED
    BY <2>2 DEF HoldStates
<1>3. CASE ~call[c].refundIsFull
  <2>1. /\ CanTransition(hold[b].state, "PARTIAL_REFUND")
        /\ hold' = [hold EXCEPT ![b].state = NextState(hold[b].state, "PARTIAL_REFUND"),
                                ![b].partial = hold[b].partial + call[c].cents]
    BY <1>1, <1>3 DEF Flip, PartialRefund
  <2>2. NextState(hold[b].state, "PARTIAL_REFUND") = "PARTIALLY_REFUNDED"
    BY <1>1, <2>1, TransitionTable DEF EscrowActions, HoldRow
  <2>3. hold'[b].state = "PARTIALLY_REFUNDED"
    BY <1>1, <2>1, <2>2 DEF TypeOK, HoldRow
  <2>4. QED
    BY <2>3 DEF HoldStates
<1>4. QED
  BY <1>2, <1>3

\* A refund goes on, and its handler waits for it.
LEMMA CallContinuesInv ==
    ASSUME ConsumersInv, NEW m \in Messages, Continue(m), UNCHANGED consumerVars
    PROVE  ConsumersInv'
<1> USE DEF Messages
<1>1. /\ CallsInv /\ MessageAccounted(m)
      /\ ConsumersTypeOK
      /\ UNCHANGED <<content, topic, processed, handler>>
  BY MessageType DEF consumerVars, ConsumersInv
<1>2. /\ CallsInv' /\ IInv'
      /\ \A b \in Bookings : Evolves(hold[b], hold'[b])
  BY CallProgress DEF CallsInv
<1>3. /\ call[m].booking = content[m].booking
      /\ call'[m].pc # "idle" /\ call'[m].booking = call[m].booking
  BY <1>1, CallProgress DEF MessageAccounted, HandlerAccounted
<1>4. Kind(m)' = Kind(m)
  BY <1>1 DEF Kind
<1>5. HandlerAccounted(m)'
  BY <1>1, <1>2, <1>3, <1>4, HoldMovesOn DEF MessageAccounted, HandlerAccounted
<1>6. BookedLeavesHeld(m)'
  <2>1. CASE BookRefund(m)
    <3>1. hold'[call[m].booking].state \in HoldStates \ {"HELD"}
      BY <1>1, <2>1, FlipLeavesHeld DEF BookRefund
    <3>2. QED
      BY <1>1, <1>3, <3>1 DEF BookedLeavesHeld, HoldOf
  <2>2. CASE call[m].pc = "booked" /\ hold' = hold
    BY <1>1, <2>2 DEF BookedLeavesHeld, HoldOf, MessageAccounted
  <2>3. CASE call'[m].pc # "booked" /\ ~(call'[m].pc = "done" /\ refunds'[m].state = "SUCCEEDED")
    BY <2>3 DEF BookedLeavesHeld
  <2>4. QED
    BY <2>1, <2>2, <2>3, CallProgress
<1>7. TakesEffect(m)'
  <2> SUFFICES ASSUME handler[m] = "done"
               PROVE  TakesEffect(m)'
    BY <1>1 DEF TakesEffect
  <2>1. /\ HoldOf(m).state # "ABSENT"
        /\ TakesEffect(m)
    BY <1>1 DEF MessageAccounted, HandlerAccounted
  <2>2. /\ HoldOf(m)'.amount = HoldOf(m).amount
        /\ HoldOf(m)'.state = "HELD" => HoldOf(m).state = "HELD"
        /\ HoldOf(m).state \in Terminal \cup {"DISPUTED"}
              => HoldOf(m)'.state \in Terminal \cup {"DISPUTED"}
    BY <1>1, <1>2, <2>1, HoldMovesOn
  <2>3. QED
    BY <1>4, <2>1, <2>2 DEF TakesEffect
<1>8. QED
  BY <1>1, <1>2, <1>5, <1>6, <1>7, CallProgress, MessageStep
     DEF ConsumersTypeOK, MessageAccounted

\* The end of a refund of which the handler hears in the same step.
LEMMA CallEndsInv ==
    ASSUME ConsumersInv, NEW m \in Messages,
           NEW point \in {"threw", "done", "died"}, NEW end \in {"refused", "lost"},
           handler[m] = "refunding", HandlerAt(m, point),
           Goto(m, end), CallsInv',
           UNCHANGED <<escrowVars, refunds, content, topic, processed>>,
           point = "done" => HoldOf(m).state # "HELD"
    PROVE  ConsumersInv'
<1> USE DEF Messages
<1>1. /\ hold' = hold
      /\ CallsInv /\ HandlerAccounted(m) /\ IInv
      /\ UNCHANGED <<refunds, content, topic>>
  BY MessageType DEF MessageAccounted, escrowVars
<1>2. IInv' /\ \A x \in Bookings : Evolves(hold[x], hold'[x])
  BY <1>1, StutterInv, EvolvesReflexive
<1>3. /\ handler' \in [Messages -> HandlerPoints]
      /\ handler'[m] = point
      /\ processed' = {d \in Messages : handler'[d] # "none"}
      /\ \A d \in Messages \ {m} : handler'[d] = handler[d]
  BY HandlerGoesOn DEF HandlerPoints
<1>4. Moved(m, end)
  BY <1>1, GotoMoves DEF CallPoints, HandlerAccounted
<1>5. Kind(m)' = Kind(m) /\ Kind(m) \in RefundKinds /\ HoldOf(m)' = HoldOf(m)
  BY <1>1 DEF HandlerAccounted, Kind, HoldOf
<1>6. MessageAccounted(m)'
  <2>1. BookedLeavesHeld(m)'
    BY <1>4 DEF BookedLeavesHeld, Moved
  <2>2. HandlerAccounted(m)'
    BY <1>1, <1>3, <1>4, <1>5 DEF HandlerAccounted, Moved
  <2>3. TakesEffect(m)'
    BY <1>3, <1>5 DEF TakesEffect, RefundKinds
  <2>4. QED
    BY <2>1, <2>2, <2>3 DEF MessageAccounted
<1>7. topic' \in [Messages -> {"unsent", "outstanding", "acked"}]
  BY <1>1 DEF ConsumersInv, ConsumersTypeOK
<1>8. QED
  BY <1>1, <1>2, <1>3, <1>4, <1>6, <1>7, MessageStep DEF Moved

LEMMA RefundRefusedInv ==
    ASSUME ConsumersInv, NEW m \in Messages, RefundRefused(m)
    PROVE  ConsumersInv'
<1> DEFINE act == IF call[m].refundIsFull THEN "REFUND" ELSE "PARTIAL_REFUND"
<1>1. /\ handler[m] = "refunding"
      /\ HandlerAt(m, IF CanTransition(HoldOf(m).state, act) THEN "threw" ELSE "done")
      /\ RefuseRefund(m)
      /\ Goto(m, "refused")
      /\ UNCHANGED <<escrowVars, refunds, content, topic, processed>>
  BY DEF RefundRefused, RefuseRefund
<1>2. CallsInv'
  BY <1>1, MessageType, RefundStepInv DEF RefundStep, Continue, Messages
<1>3. CanTransition("HELD", act)
  BY DEF CanTransition, HoldStates, Transitions
<1> HIDE DEF act
<1>4. CASE CanTransition(HoldOf(m).state, act)
  BY <1>1, <1>2, <1>4, CallEndsInv
<1>5. CASE ~CanTransition(HoldOf(m).state, act)
  BY <1>1, <1>2, <1>3, <1>5, CallEndsInv
<1>6. QED
  BY <1>4, <1>5

LEMMA DieInv ==
    ASSUME ConsumersInv, NEW m \in Messages, Die(m)
    PROVE  ConsumersInv'
<1>1. CASE handler[m] \in {"marked", "acting"} /\ UNCHANGED refundsVars
  BY <1>1, HandlerOnlyInv DEF Die, HandlerPoints
<1>2. CASE handler[m] = "refunding" /\ Lose(m)
  <2>1. CallsInv'
    BY <1>2, MessageType, RefundStepInv DEF RefundStep, Messages
  <2>2. QED
    BY <1>2, <2>1, CallEndsInv DEF Die, Lose
<1>3. QED
  BY <1>1, <1>2 DEF Die

\* The operations of other routes, and steps that change nothing.
LEMMA OthersInv ==
    ASSUME ConsumersInv, UNCHANGED <<refundVars, consumerVars>>, OtherStep \/ UNCHANGED escrowVars
    PROVE  ConsumersInv'
<1>1. CallsInv /\ IInv
  BY DEF ConsumersInv, CallsInv
<1>2. CallsInv'
  BY <1>1, CallsNextInv DEF RefundsNext, refundsVars
<1>3. \A b \in Bookings : Evolves(hold[b], hold'[b])
  <2>1. CASE OtherStep
    <3>1. PICK b \in Bookings : Operation(b)
      BY <2>1 DEF OtherStep, Next, Operation
    <3>2. QED
      BY <1>1, <3>1, OperationEvolves
  <2>2. CASE UNCHANGED escrowVars
    BY <1>1, <2>2, EvolvesReflexive DEF escrowVars
  <2>3. QED
    BY <2>1, <2>2
<1>4. UNCHANGED <<call, refunds, content, topic, processed, handler>>
  BY DEF refundVars, consumerVars
<1>5. RefundsTypeOK' /\ IInv'
  BY <1>2 DEF CallsInv
<1>6. ConsumersTypeOK'
  BY <1>4, <1>5 DEF ConsumersInv, ConsumersTypeOK
<1>7. \A d \in Messages : MessageAccounted(d)'
  BY <1>3, <1>4, <1>5, MessageStays
<1>8. HandledTakesEffect'
  BY <1>7 DEF HandledTakesEffect, TakesEffect, MessageAccounted
<1>9. QED
  BY <1>2, <1>6, <1>7, <1>8 DEF ConsumersInv, MessageAccounted

LEMMA ConsumersInitInv == ConsumersInit => ConsumersInv
<1> SUFFICES ASSUME ConsumersInit PROVE ConsumersInv
  OBVIOUS
<1>1. CallsInv
  BY CallsInitInv DEF ConsumersInit
<1>2. \A m \in Messages : handler[m] = "none" /\ call[m].pc = "idle"
  BY DEF ConsumersInit, RefundsInit, NoCall, Messages
<1>3. ConsumersTypeOK
  BY <1>1, <1>2 DEF ConsumersTypeOK, ConsumersInit, CallsInv, HandlerPoints
<1>4. \A m \in Messages : BookedLeavesHeld(m) /\ HandlerAccounted(m)
  BY <1>2 DEF BookedLeavesHeld, HandlerAccounted
<1>5. HandledTakesEffect
  BY <1>2 DEF HandledTakesEffect
<1>6. QED
  BY <1>1, <1>3, <1>4, <1>5 DEF ConsumersInv

LEMMA ConsumersNextInv ==
    ASSUME ConsumersInv, [ConsumersNext]_allVars
    PROVE  ConsumersInv'
<1>1. ASSUME NEW m \in Messages, Publish(m) \/ DeliverAgain(m) \/ Ack(m)
      PROVE  ConsumersInv'
  BY <1>1, TopicOnlyInv DEF Publish, DeliverAgain, Ack
<1>2. ASSUME NEW m \in Messages, Continue(m), UNCHANGED consumerVars
      PROVE  ConsumersInv'
  BY <1>2, CallContinuesInv
<1>3. ASSUME NEW m \in Messages, Progress(m)
      PROVE  ConsumersInv'
  BY <1>1, <1>2, <1>3, DeliverInv, ReadHoldInv, ActInv, ActRefusedInv, CallRefundInv,
     CallRefusedInv, RefundReturnsInv, RefundRefusedInv
     DEF Progress, Continue
<1>4. CASE OtherStep /\ UNCHANGED consumerVars
  BY <1>4, OthersInv DEF OtherStep
<1>5. CASE UNCHANGED allVars
  BY <1>5, OthersInv DEF allVars, refundsVars
<1>6. QED
  BY <1>1, <1>3, <1>4, <1>5, DieInv DEF ConsumersNext

\* At each point of a handler, and of the refund it has called, the hold of its message is
\* as far as that point says, whatever the other messages and callers do to it.
THEOREM MessagesAccounted == ConsumersSpec => []ConsumersInv
<1>1. QED
  BY ConsumersInitInv, ConsumersNextInv, PTL DEF ConsumersSpec

\* A handler that ends without an error has not been overtaken for nothing.
THEOREM HandledHasEffect == ConsumersSpec => []HandledTakesEffect
<1>1. ConsumersInv => HandledTakesEffect
  BY DEF ConsumersInv
<1>2. QED
  BY <1>1, MessagesAccounted, PTL

-----------------------------------------------------------------------------

\* Delivery and dedup leave the escrow component alone; handlers and the calls they make
\* use its operations.
LEMMA ConsumersOperate ==
    ASSUME ConsumersInv, [ConsumersNext]_allVars
    PROVE  [OperationsNext]_escrowVars
<1>1. CallsInv
  BY DEF ConsumersInv
<1>2. ASSUME NEW m \in Messages, RefundStep(m)
      PROVE  [OperationsNext]_escrowVars
  BY <1>1, <1>2, RefundsOperate DEF RefundsNext, Messages
<1>3. ASSUME NEW m \in Messages, Act(m)
      PROVE  OperationsNext
  BY <1>3, ActOperates DEF OperationsNext
<1>4. ASSUME NEW m \in Messages, CallRefund(m)
      PROVE  UNCHANGED escrowVars
  BY <1>4 DEF CallRefund, Check
<1>5. ASSUME NEW m \in Messages, Continue(m) \/ BookRefund(m) \/ RefuseRefund(m) \/ Lose(m)
      PROVE  RefundStep(m)
  BY <1>5 DEF RefundStep, Continue
<1>6. ASSUME NEW m \in Messages, Progress(m)
      PROVE  [OperationsNext]_escrowVars
  <2>1. CASE Act(m) \/ CallRefund(m)
    BY <1>3, <1>4, <2>1
  <2>2. CASE Continue(m) \/ BookRefund(m) \/ RefundRefused(m)
    BY <1>2, <1>5, <2>2 DEF RefundRefused
  <2>3. CASE \/ Deliver(m) \/ DeliverAgain(m) \/ ReadHold(m) \/ ActRefused(m)
             \/ CallRefused(m) \/ RefundReturns(m) \/ Ack(m)
    BY <2>3 DEF Deliver, DeliverAgain, ReadHold, ActRefused, CallRefused, RefundReturns, Ack,
                refundsVars
  <2>4. QED
    BY <1>6, <2>1, <2>2, <2>3 DEF Progress
<1>7. ASSUME NEW m \in Messages, Publish(m) \/ Die(m)
      PROVE  [OperationsNext]_escrowVars
  <2>1. CASE Publish(m) \/ UNCHANGED refundsVars
    BY <2>1 DEF Publish, refundsVars
  <2>2. CASE Lose(m)
    BY <1>2, <1>5, <2>2
  <2>3. QED
    BY <1>7, <2>1, <2>2 DEF Die
<1>8. CASE OtherStep
  BY <1>1, <1>8, RefundsOperate DEF RefundsNext
<1>9. CASE UNCHANGED allVars
  BY <1>9 DEF allVars, refundsVars
<1>10. QED
  BY <1>6, <1>7, <1>8, <1>9 DEF ConsumersNext

\* What the escrow component promises of its holds, in whatever order events come and
\* whatever their handlers take for done.
THEOREM PromisesInConsumers == ConsumersSpec => EscrowPromises
<1>1. ConsumersInit => Init
  BY DEF ConsumersInit, RefundsInit
<1>2. QED
  BY <1>1, MessagesAccounted, ConsumersOperate, PromisesKept, PTL DEF ConsumersSpec, OperationsSpec

\* What a subscriber does is a step of a refund call, or one of the other routes.
LEMMA ConsumersMove ==
    ASSUME ConsumersInv, [ConsumersNext]_allVars
    PROVE  CallsMove
<1> USE DEF Messages
<1>1. ASSUME NEW m \in Messages, Act(m) PROVE CallsMove
  <2> DEFINE b == content[m].booking
  <2>1. /\ b \in Bookings
        /\ content[m].artist \in Int /\ content[m].client \in Int
    BY MessageType
  <2>2. \/ Release(b)
        \/ Freeze(b)
        \/ ResolveRelease(b)
        \/ ResolveSplit(b, content[m].artist, content[m].client)
    BY <1>1 DEF Act, BookingOperation, DisputeOperation
  <2> HIDE DEF b
  <2>3. LaterOperation(b)
    BY <2>1, <2>2 DEF LaterOperation
  <2>4. QED
    BY <1>1, <2>1, <2>3, Zenon DEF CallsMove, Act, BookingOperation, DisputeOperation, b
<1>2. ASSUME NEW m \in Messages, CallRefund(m) PROVE CallsMove
  <2>1. /\ content[m].booking \in Bookings
        /\ RefundCents(m) \in Int
        /\ FaultOf(m) \in FaultParties
        /\ Check(m, content[m].booking, RefundCents(m), FaultOf(m))
    BY <1>2, MessageType, RemainingNat DEF CallRefund, RefundCents, HoldOf
  <2>2. QED
    BY <1>2, <2>1, Zenon DEF CallsMove
<1>3. ASSUME NEW m \in Messages, Progress(m) PROVE CallsMove
  <2>1. CASE \/ Deliver(m) \/ DeliverAgain(m) \/ ReadHold(m) \/ ActRefused(m)
             \/ CallRefused(m) \/ RefundReturns(m) \/ Ack(m)
    BY <2>1 DEF Deliver, DeliverAgain, ReadHold, ActRefused, CallRefused, RefundReturns, Ack,
                CallsMove
  <2>2. CASE Continue(m) \/ BookRefund(m) \/ RefundRefused(m)
    BY <2>2 DEF RefundRefused, Continue, CallsMove
  <2>3. QED
    BY <1>1, <1>2, <1>3, <2>1, <2>2 DEF Progress
<1>4. ASSUME NEW m \in Messages, Publish(m) \/ Die(m) PROVE CallsMove
  BY <1>4 DEF Publish, Die, CallsMove
<1>5. CASE OtherStep
  BY <1>5, Zenon DEF OtherStep, Next, CallsMove
<1>6. CASE UNCHANGED allVars
  BY <1>6 DEF allVars, CallsMove
<1>7. QED
  BY <1>3, <1>4, <1>5, <1>6 DEF ConsumersNext

\* The same for the refund calls of the event handlers: a delivery that is repeated, an
\* error that is taken for done and a handler that dies tell nobody anything untrue, and
\* send nothing more often than a call is retried.
THEOREM ConsumersImplement == ConsumersSpec => ImplementsRefundedFunds
<1>1. ConsumersInit => Promised!RefundedInit /\ AskedWithinHold
  BY RefundedStarts, AskedInit DEF ConsumersInit
<1>2. ConsumersInv /\ AskedWithinHold /\ [ConsumersNext]_allVars =>
        /\ AskedWithinHold'
        /\ [Promised!RefundedNext]_<<Promised!vars, Promised!callVars>>
  BY ConsumersMove, AskedNext, MovesKeepPromise DEF ConsumersInv
<1>3. QED
  BY <1>1, <1>2, MessagesAccounted, PTL
     DEF ConsumersSpec, ImplementsRefundedFunds, Promised!RefundedSpec
=============================================================================
