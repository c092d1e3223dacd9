--------------------------- MODULE IntentsProofs ---------------------------
(***************************************************************************)
(* Proofs about PaymentIntents, for any bookings, rates, payments and      *)
(* number of concurrent locks and ITNs.                                    *)
(***************************************************************************)
EXTENDS PaymentIntents, EscrowProofs, FiniteSetTheorems

ChargeRow == [pf : PfPayments, status : ItnStatuses, state : {"SUCCEEDED", "FAILED"}]

Matched == [pc : {"matched"}, pf : PfPayments, status : ItnStatuses,
            booking : Bookings, total : Nat, fee : Nat]

LEMMA IntentsType ==
    ASSUME ChargesInv
    PROVE  /\ TypeOK
           /\ IntentsTypeOK
           /\ charges \in [Bookings -> Seq(ChargeRow)]
           /\ \A n \in Itns : itn[n].pc = "matched" => itn[n] \in Matched
           /\ \A n \in Itns : itn[n].pc # "matched" => itn[n] = Idle
           /\ \A pf \in PfPayments : payment[pf] # NoPayment =>
                 /\ payment[pf].form \in forms
                 /\ payment[pf].form \in [booking : Bookings, total : Nat]
                 /\ payment[pf].reported \in SUBSET ItnStatuses
           /\ \A pf \in PfPayments : payment[pf].reported # {} => payment[pf] # NoPayment
<1>1. IntentsTypeOK /\ TypeOK
  BY DEF ChargesInv, IInv
<1>2. charges \in [Bookings -> Seq(ChargeRow)]
  BY <1>1 DEF IntentsTypeOK, ChargeRow
<1>3. \A n \in Itns : itn[n] \in {Idle} \cup Matched
  BY <1>1 DEF IntentsTypeOK, Matched
<1>4. Idle.pc # "matched" /\ \A m \in Matched : m.pc = "matched"
  BY DEF Idle, Matched
<1>5. ASSUME NEW pf \in PfPayments, payment[pf] # NoPayment
      PROVE  /\ payment[pf].form \in forms
             /\ payment[pf].form \in [booking : Bookings, total : Nat]
             /\ payment[pf].reported \in SUBSET ItnStatuses
  BY <1>1, <1>5 DEF IntentsTypeOK
<1>6. \A pf \in PfPayments : payment[pf].reported # {} => payment[pf] # NoPayment
  BY DEF NoPayment
<1>7. QED
  BY <1>1, <1>2, <1>3, <1>4, <1>5, <1>6

\* PayFast keeps to what it has reported.
Remembers ==
    \A pf \in PfPayments : payment[pf] # NoPayment =>
        /\ payment'[pf].form = payment[pf].form
        /\ payment[pf].reported \subseteq payment'[pf].reported

\* The escrow component only writes rows of its schema to the outbox.
LEMMA EmitInv ==
    ASSUME IInv, NEW b \in Bookings, NEW types \in Seq(OutboxTypes), Emit(b, types),
           UNCHANGED <<hold, ledger, trail, payouts>>
    PROVE  IInv'
<1>1. outbox' \in [Bookings -> Seq(OutboxTypes)]
  BY OutboxStep DEF IInv
<1>2. QED
  BY <1>1 DEF IInv, TypeOK, FundsAccounted, NothingPaidOut, PaidOut

-----------------------------------------------------------------------------
(***************************************************************************)
(* Counting the failures that were announced and recorded.                 *)
(***************************************************************************)

LEMMA AnnouncesElse ==
    ASSUME TypeOK, NEW b \in Bookings, NEW S, "payments.failed" \notin S, S \subseteq OutboxTypes,
           NEW types \in Seq(S), Emit(b, types), NEW c \in Bookings
    PROVE  FailuresAnnounced(c)' = FailuresAnnounced(c)
<1>1. outbox[b] \in Seq(OutboxTypes) /\ types \in Seq(OutboxTypes)
  BY DEF TypeOK
<1>2. CASE c # b
  <2>1. outbox'[c] = outbox[c]
    BY <1>2 DEF Emit, TypeOK
  <2>2. QED
    BY <2>1 DEF FailuresAnnounced
<1>3. CASE c = b
  <2>1. outbox'[b] = outbox[b] \o types
    BY DEF Emit, TypeOK
  <2>2. DOMAIN outbox'[b] = 1 .. Len(outbox[b]) + Len(types)
    BY <1>1, <2>1
  <2>3. DOMAIN outbox[b] = 1 .. Len(outbox[b]) /\ Len(outbox[b]) \in Nat /\ Len(types) \in Nat
    BY <1>1
  <2>4. \A i \in 1 .. Len(outbox[b]) : outbox'[b][i] = outbox[b][i]
    BY <1>1, <2>1
  <2>5. ASSUME NEW i \in (Len(outbox[b]) + 1) .. (Len(outbox[b]) + Len(types))
        PROVE  outbox'[b][i] # "payments.failed"
    <3>1. outbox'[b][i] = types[i - Len(outbox[b])]
      BY <1>1, <2>1
    <3>2. i - Len(outbox[b]) \in 1 .. Len(types)
      BY <2>3
    <3>3. types[i - Len(outbox[b])] \in S
      BY <3>2
    <3>4. QED
      BY <3>1, <3>3
  <2>6. QED
    BY <1>3, <2>2, <2>3, <2>4, <2>5 DEF FailuresAnnounced
<1>4. QED
  BY <1>2, <1>3

LEMMA AnnouncesFailure ==
    ASSUME TypeOK, NEW b \in Bookings, Emit(b, <<"payments.failed">>)
    PROVE  /\ FailuresAnnounced(b)' = FailuresAnnounced(b) \cup {Len(outbox[b]) + 1}
           /\ Len(outbox[b]) + 1 \notin FailuresAnnounced(b)
           /\ \A c \in Bookings \ {b} : FailuresAnnounced(c)' = FailuresAnnounced(c)
<1>1. outbox[b] \in Seq(OutboxTypes)
  BY DEF TypeOK
<1>2. outbox'[b] = outbox[b] \o <<"payments.failed">>
  BY DEF Emit, TypeOK
<1>3. outbox'[b] = Append(outbox[b], "payments.failed")
  BY <1>1, <1>2
<1>4. /\ DOMAIN outbox'[b] = 1 .. Len(outbox[b]) + 1
      /\ DOMAIN outbox[b] = 1 .. Len(outbox[b])
      /\ Len(outbox[b]) \in Nat
      /\ \A i \in 1 .. Len(outbox[b]) : outbox'[b][i] = outbox[b][i]
      /\ outbox'[b][Len(outbox[b]) + 1] = "payments.failed"
  BY <1>1, <1>3
<1>5. \A c \in Bookings \ {b} : outbox'[c] = outbox[c]
  BY DEF Emit, TypeOK
<1>6. \A i : i \in DOMAIN outbox'[b] <=> i \in DOMAIN outbox[b] \/ i = Len(outbox[b]) + 1
  BY <1>4
<1>7. Len(outbox[b]) + 1 \notin DOMAIN outbox[b]
  BY <1>4
<1>8. /\ FailuresAnnounced(b)' = FailuresAnnounced(b) \cup {Len(outbox[b]) + 1}
      /\ Len(outbox[b]) + 1 \notin FailuresAnnounced(b)
  BY <1>4, <1>6, <1>7 DEF FailuresAnnounced
<1>9. QED
  BY <1>5, <1>8 DEF FailuresAnnounced

LEMMA FailuresFinite ==
    ASSUME ChargesInv, NEW b \in Bookings
    PROVE  IsFiniteSet(FailuresAnnounced(b)) /\ IsFiniteSet(FailuresRecorded(b))
<1>1. outbox[b] \in Seq(OutboxTypes) /\ charges[b] \in Seq(ChargeRow)
  BY IntentsType DEF TypeOK
<1>2. /\ FailuresAnnounced(b) \in SUBSET (1 .. Len(outbox[b]))
      /\ FailuresRecorded(b) \in SUBSET (1 .. Len(charges[b]))
      /\ Len(outbox[b]) \in Nat
      /\ Len(charges[b]) \in Nat
  <2>1. DOMAIN outbox[b] = 1 .. Len(outbox[b]) /\ Len(outbox[b]) \in Nat
    BY <1>1
  <2>2. DOMAIN charges[b] = 1 .. Len(charges[b]) /\ Len(charges[b]) \in Nat
    BY <1>1
  <2>3. QED
    BY <2>1, <2>2 DEF FailuresAnnounced, FailuresRecorded
<1>3. IsFiniteSet(1 .. Len(outbox[b])) /\ IsFiniteSet(1 .. Len(charges[b]))
  <2>1. \A n \in Nat : IsFiniteSet(1 .. n)
    BY FS_Interval
  <2>2. QED
    BY <1>2, <2>1
<1> DEFINE announced == 1 .. Len(outbox[b])
           recorded == 1 .. Len(charges[b])
<1> HIDE DEF announced, recorded
<1>4. IsFiniteSet(announced) /\ FailuresAnnounced(b) \in SUBSET announced
  BY <1>2, <1>3 DEF announced
<1>5. IsFiniteSet(recorded) /\ FailuresRecorded(b) \in SUBSET recorded
  BY <1>2, <1>3 DEF recorded
<1>6. QED
  BY <1>4, <1>5, FS_Subset

-----------------------------------------------------------------------------
(***************************************************************************)
(* What a step leaves alone.                                               *)
(***************************************************************************)

\* The charges of a booking and their failures stay, its hold only moves on.
LEMMA BookingStays ==
    ASSUME ChargesInv, NEW b \in Bookings, charges'[b] = charges[b], Remembers,
           FailuresAnnounced(b)' = FailuresAnnounced(b),
           IF hold[b] = NoHold THEN hold'[b] = NoHold
           ELSE /\ hold'[b] # NoHold
                /\ hold'[b].amount = hold[b].amount
                /\ hold'[b].fee = hold[b].fee
    PROVE  ChargesAccounted(b)'
<1>1. ChargesAccounted(b) /\ charges[b] \in Seq(ChargeRow)
  BY IntentsType DEF ChargesInv
<1>2. Completed(b)' = Completed(b) /\ FailuresRecorded(b)' = FailuresRecorded(b)
  BY DEF Completed, FailuresRecorded
<1>3. CASE hold[b] = NoHold
  BY <1>1, <1>2, <1>3 DEF ChargesAccounted
<1>4. CASE hold[b] # NoHold
  <2>1. PICK i \in DOMAIN charges[b] : Completed(b) = {i} /\ PaidHold(b, i)
    BY <1>1, <1>4 DEF ChargesAccounted
  <2>2. charges[b][i] \in ChargeRow
    BY <1>1, <2>1
  <2>3. charges[b][i].pf \in PfPayments
    BY <2>2 DEF ChargeRow
  <2>4. payment[charges[b][i].pf] # NoPayment
    BY <2>1, <2>3, IntentsType DEF PaidHold
  <2>5. PaidHold(b, i)'
    BY <1>4, <2>1, <2>3, <2>4 DEF PaidHold, Remembers
  <2>6. QED
    BY <1>1, <1>2, <1>4, <2>1, <2>5 DEF ChargesAccounted
<1>5. QED
  BY <1>3, <1>4

\* An invocation stays, and what it carries stays true.
LEMMA CarryStays ==
    ASSUME ChargesInv, NEW n \in Itns, itn'[n] = itn[n], Remembers
    PROVE  Carries(n)'
<1>1. CASE itn[n].pc = "matched"
  <2>1. itn[n].pf \in PfPayments
    BY <1>1, IntentsType DEF Matched
  <2>2. itn[n].status \in payment[itn[n].pf].reported /\ Carries(n)
    BY <1>1 DEF ChargesInv, Carries
  <2>3. payment[itn[n].pf] # NoPayment
    BY <2>1, <2>2, IntentsType
  <2>4. QED
    BY <2>1, <2>2, <2>3 DEF Carries, Remembers
<1>2. CASE itn[n].pc # "matched"
  BY <1>2 DEF Carries
<1>3. QED
  BY <1>1, <1>2

LEMMA RemembersAll ==
    ASSUME payment' = payment
    PROVE  Remembers
  BY DEF Remembers

\* A step outside the escrow component, the charges and the invocations.
LEMMA CheckoutInv ==
    ASSUME ChargesInv, IntentsTypeOK', Remembers,
           UNCHANGED <<hold, ledger, trail, payouts, charges, itn>>,
           \/ outbox' = outbox
           \/ \E b \in Bookings : Emit(b, <<"payments.intent.created">>)
    PROVE  ChargesInv'
<1>1. CASE outbox' = outbox
  <2>1. IInv'
    BY <1>1, StutterInv DEF ChargesInv, escrowVars
  <2>2. ASSUME NEW c \in Bookings
        PROVE  ChargesAccounted(c)'
    <3>1. FailuresAnnounced(c)' = FailuresAnnounced(c)
      BY <1>1 DEF FailuresAnnounced
    <3>2. QED
      BY <3>1, BookingStays
  <2>3. QED
    BY <2>1, <2>2, CarryStays DEF ChargesInv
<1>2. CASE \E b \in Bookings : Emit(b, <<"payments.intent.created">>)
  <2>1. PICK b \in Bookings : Emit(b, <<"payments.intent.created">>)
    BY <1>2
  <2> DEFINE S == {"payments.intent.created"}
  <2>2. /\ S \subseteq OutboxTypes
        /\ "payments.failed" \notin S
        /\ <<"payments.intent.created">> \in Seq(S)
        /\ <<"payments.intent.created">> \in Seq(OutboxTypes)
    BY DEF OutboxTypes
  <2>3. IInv'
    BY <2>1, <2>2, EmitInv DEF ChargesInv
  <2> HIDE DEF S
  <2>4. ASSUME NEW c \in Bookings
        PROVE  ChargesAccounted(c)'
    <3>1. FailuresAnnounced(c)' = FailuresAnnounced(c)
      BY <2>1, <2>2, AnnouncesElse, IntentsType
    <3>2. QED
      BY <3>1, BookingStays
  <2>5. QED
    BY <2>3, <2>4, CarryStays DEF ChargesInv
<1>3. QED
  BY <1>1, <1>2

-----------------------------------------------------------------------------
(***************************************************************************)
(* The steps, one by one.                                                  *)
(***************************************************************************)

IntentRow == [state : IntentStates, locked : BOOLEAN, total : Nat, fee : Nat]

LEMMA CreateIntentInv ==
    ASSUME ChargesInv, NEW b \in Bookings, CreateIntent(b)
    PROVE  ChargesInv'
<1>1. /\ intent' = [intent EXCEPT ![b].state = "CREATED"]
      /\ Emit(b, <<"payments.intent.created">>)
      /\ UNCHANGED <<hold, ledger, trail, payouts, charges, locking, itn, forms, payment>>
      /\ IntentsTypeOK
  BY IntentsType DEF CreateIntent
<1>2. TypeOK'
  <2>1. <<"payments.intent.created">> \in Seq(OutboxTypes)
    BY DEF OutboxTypes
  <2>2. QED
    BY <1>1, <2>1, EmitInv DEF ChargesInv, IInv
<1> DEFINE row == [intent[b] EXCEPT !.state = "CREATED"]
<1>3. intent' \in [Bookings -> IntentRow]
  <2>1. intent \in [Bookings -> IntentRow] /\ intent' = [intent EXCEPT ![b] = row]
    BY <1>1 DEF IntentsTypeOK, IntentRow
  <2>2. row \in IntentRow
    BY <2>1 DEF IntentRow, IntentStates
  <2> HIDE DEF row
  <2>3. QED
    BY <2>1, <2>2
<1>4. IntentsTypeOK'
  BY <1>1, <1>2, <1>3 DEF IntentsTypeOK, IntentRow
<1>5. QED
  BY <1>1, <1>4, RemembersAll, CheckoutInv

LEMMA LockReadsInv ==
    ASSUME ChargesInv, NEW l \in Locks, NEW b \in Bookings, LockReads(l, b)
    PROVE  ChargesInv'
<1>1. /\ locking' = [locking EXCEPT ![l] = [pc |-> "quoting", booking |-> b]]
      /\ UNCHANGED <<hold, ledger, trail, payouts, outbox, intent, charges, itn, forms, payment>>
      /\ IntentsTypeOK
  BY IntentsType DEF LockReads, escrowVars
<1>2. IntentsTypeOK'
  BY <1>1 DEF IntentsTypeOK, TypeOK
<1>3. QED
  BY <1>1, <1>2, RemembersAll, CheckoutInv

LEMMA LockQuotesInv ==
    ASSUME ChargesInv, NEW l \in Locks, NEW rate \in Rates, LockQuotes(l, rate)
    PROVE  ChargesInv'
<1>1. /\ locking[l].pc = "quoting"
      /\ locking' = [locking EXCEPT ![l] = [pc      |-> "priced",
                                            booking |-> locking[l].booking,
                                            total   |-> TotalAt[rate]]]
      /\ UNCHANGED <<hold, ledger, trail, payouts, outbox, intent, charges, itn, forms, payment>>
      /\ IntentsTypeOK
  BY IntentsType DEF LockQuotes, escrowVars
<1>2. locking[l].booking \in Bookings
  BY <1>1 DEF IntentsTypeOK, Idle
<1>3. TotalAt[rate] \in Nat
  BY RatesAssumption
<1>4. IntentsTypeOK'
  BY <1>1, <1>2, <1>3 DEF IntentsTypeOK, TypeOK
<1>5. QED
  BY <1>1, <1>4, RemembersAll, CheckoutInv

LEMMA LockWritesInv ==
    ASSUME ChargesInv, NEW l \in Locks, NEW rate \in Rates, LockWrites(l, rate)
    PROVE  ChargesInv'
<1> DEFINE b == locking[l].booking
           total == locking[l].total
           row == [state |-> "LOCKED", locked |-> TRUE, total |-> total, fee |-> FeeAt[rate]]
           form == [booking |-> b, total |-> total]
<1>1. /\ locking[l].pc = "priced"
      /\ intent' = [intent EXCEPT ![b] = row]
      /\ forms' = forms \cup {form}
      /\ locking' = [locking EXCEPT ![l] = Idle]
      /\ UNCHANGED <<hold, ledger, trail, payouts, outbox, charges, itn, payment>>
      /\ IntentsTypeOK
  BY IntentsType DEF LockWrites, escrowVars
<1>2. b \in Bookings /\ total \in Nat
  BY <1>1 DEF IntentsTypeOK, Idle
<1>3. row \in IntentRow /\ form \in [booking : Bookings, total : Nat]
  BY <1>2, RatesAssumption DEF IntentRow, IntentStates
<1> HIDE DEF row, form
<1>4. /\ intent' \in [Bookings -> IntentRow]
      /\ forms' \subseteq [booking : Bookings, total : Nat]
      /\ forms \subseteq forms'
  BY <1>1, <1>3 DEF IntentsTypeOK, IntentRow
<1>5. payment' \in [PfPayments -> {NoPayment} \cup [form : forms', reported : SUBSET ItnStatuses]]
  BY <1>1, <1>4 DEF IntentsTypeOK
<1>6. locking' \in [Locks -> {Idle} \cup [pc : {"quoting"}, booking : Bookings]
                               \cup [pc : {"priced"}, booking : Bookings, total : Nat]]
  BY <1>1 DEF IntentsTypeOK
<1>7. IntentsTypeOK'
  BY <1>1, <1>4, <1>5, <1>6 DEF IntentsTypeOK, TypeOK, IntentRow
<1>8. QED
  BY <1>1, <1>7, RemembersAll, CheckoutInv

LEMMA PayInv ==
    ASSUME ChargesInv, NEW pf \in PfPayments, NEW form \in forms, Pay(pf, form)
    PROVE  ChargesInv'
<1>1. /\ payment[pf] = NoPayment
      /\ payment' = [payment EXCEPT ![pf] = [form |-> form, reported |-> {"PENDING"}]]
      /\ UNCHANGED <<hold, ledger, trail, payouts, outbox, intent, charges, locking, itn, forms>>
      /\ IntentsTypeOK
  BY IntentsType DEF Pay, escrowVars
<1>2. {"PENDING"} \in SUBSET ItnStatuses
  BY DEF ItnStatuses
<1>3. payment' \in [PfPayments -> {NoPayment} \cup [form : forms, reported : SUBSET ItnStatuses]]
  BY <1>1, <1>2 DEF IntentsTypeOK
<1>4. IntentsTypeOK'
  BY <1>1, <1>3 DEF IntentsTypeOK, TypeOK
<1>5. Remembers
  BY <1>1 DEF IntentsTypeOK, Remembers
<1>6. QED
  BY <1>1, <1>4, <1>5, CheckoutInv

LEMMA SettlePaymentInv ==
    ASSUME ChargesInv, NEW pf \in PfPayments, NEW status \in ItnStatuses, Settle(pf, status)
    PROVE  ChargesInv'
<1> DEFINE now == [payment[pf] EXCEPT !.reported = payment[pf].reported \cup {status}]
<1>1. /\ payment[pf].reported = {"PENDING"}
      /\ payment' = [payment EXCEPT ![pf] = now]
      /\ UNCHANGED <<hold, ledger, trail, payouts, outbox, intent, charges, locking, itn, forms>>
      /\ IntentsTypeOK
  BY IntentsType DEF Settle, escrowVars
<1>2. payment[pf] \in [form : forms, reported : SUBSET ItnStatuses]
  <2>1. payment[pf] # NoPayment
    BY <1>1 DEF NoPayment
  <2>2. QED
    BY <1>1, <2>1 DEF IntentsTypeOK
<1>3. /\ now \in [form : forms, reported : SUBSET ItnStatuses]
      /\ now.form = payment[pf].form
      /\ payment[pf].reported \subseteq now.reported
  BY <1>2
<1> HIDE DEF now
<1>4. payment' \in [PfPayments -> {NoPayment} \cup [form : forms, reported : SUBSET ItnStatuses]]
  BY <1>1, <1>3 DEF IntentsTypeOK
<1>5. IntentsTypeOK'
  BY <1>1, <1>4 DEF IntentsTypeOK, TypeOK
<1>6. Remembers
  BY <1>1, <1>3 DEF IntentsTypeOK, Remembers
<1>7. QED
  BY <1>1, <1>5, <1>6, CheckoutInv
\* A checked ITN: what is carried from here on is what was paid.
LEMMA ItnReadsInv ==
    ASSUME ChargesInv, NEW n \in Itns, NEW pf \in PfPayments, NEW status \in ItnStatuses,
           ItnReads(n, pf, status)
    PROVE  ChargesInv'
<1> DEFINE b == payment[pf].form.booking
           carried == [pc |-> "matched", pf |-> pf, status |-> status, booking |-> b,
                       total |-> intent[b].total, fee |-> intent[b].fee]
<1>1. /\ status \in payment[pf].reported
      /\ intent[b].total = payment[pf].form.total
      /\ itn' = [itn EXCEPT ![n] = carried]
      /\ UNCHANGED <<hold, ledger, trail, payouts, outbox, intent, charges, locking, forms,
                     payment>>
      /\ IntentsTypeOK
  BY IntentsType DEF ItnReads, MatchesIntent, escrowVars
<1>2. payment[pf].form \in [booking : Bookings, total : Nat]
  BY <1>1, IntentsType
<1>3. payment[pf].form = [booking |-> b, total |-> intent[b].total]
  BY <1>1, <1>2
<1>4. carried \in Matched
  <2>1. b \in Bookings /\ intent[b] \in IntentRow
    BY <1>1, <1>2 DEF IntentsTypeOK, IntentRow
  <2>2. QED
    BY <2>1 DEF Matched, IntentRow
<1>5. /\ carried.pf = pf /\ carried.status = status
      /\ carried.booking = b /\ carried.total = intent[b].total
  OBVIOUS
<1> HIDE DEF carried
<1>6. /\ itn' \in [Itns -> {Idle} \cup Matched]
      /\ itn'[n] = carried
      /\ \A m \in Itns \ {n} : itn'[m] = itn[m]
  BY <1>1, <1>4 DEF IntentsTypeOK, Matched
<1>7. IntentsTypeOK'
  BY <1>1, <1>6 DEF IntentsTypeOK, TypeOK, Matched
<1>8. ASSUME NEW m \in Itns
      PROVE  Carries(m)'
  <2>1. CASE m = n
    BY <1>1, <1>3, <1>5, <1>6, <2>1 DEF Carries
  <2>2. CASE m # n
    BY <1>1, <1>6, <2>2, RemembersAll, CarryStays
  <2>3. QED
    BY <2>1, <2>2
<1>9. ASSUME NEW c \in Bookings
      PROVE  ChargesAccounted(c)'
  <2>1. FailuresAnnounced(c)' = FailuresAnnounced(c)
    BY <1>1 DEF FailuresAnnounced
  <2>2. QED
    BY <1>1, <2>1, RemembersAll, BookingStays
<1>10. IInv'
  BY <1>1, StutterInv DEF ChargesInv, escrowVars
<1>11. QED
  BY <1>7, <1>8, <1>9, <1>10 DEF ChargesInv

\* Every other invocation goes on as before, this one is idle again.
LEMMA FinishCarries ==
    ASSUME ChargesInv, NEW n \in Itns, Finish(n)
    PROVE  /\ itn' \in [Itns -> {Idle} \cup Matched]
           /\ Remembers
           /\ \A m \in Itns : Carries(m)'
<1>1. /\ itn' = [itn EXCEPT ![n] = Idle]
      /\ payment' = payment
      /\ IntentsTypeOK
  BY IntentsType DEF Finish
<1>2. /\ itn' \in [Itns -> {Idle} \cup Matched]
      /\ itn'[n] = Idle
      /\ \A m \in Itns \ {n} : itn'[m] = itn[m]
  BY <1>1 DEF IntentsTypeOK, Matched
<1>3. ASSUME NEW m \in Itns
      PROVE  Carries(m)'
  <2>1. CASE m = n
    BY <1>2, <2>1 DEF Carries, Idle
  <2>2. CASE m # n
    BY <1>1, <1>2, <2>2, RemembersAll, CarryStays
  <2>3. QED
    BY <2>1, <2>2
<1>4. QED
  BY <1>1, <1>2, <1>3, RemembersAll

LEMMA CommitNothingInv ==
    ASSUME ChargesInv, NEW n \in Itns, CommitNothing(n)
    PROVE  ChargesInv'
<1>1. /\ Finish(n)
      /\ UNCHANGED <<hold, ledger, trail, payouts, outbox, intent, charges, locking, forms,
                     payment>>
      /\ IntentsTypeOK
  BY IntentsType DEF CommitNothing, Finish, escrowVars
<1>2. IInv'
  BY <1>1, StutterInv DEF ChargesInv, escrowVars
<1>3. IntentsTypeOK'
  BY <1>1, <1>2, FinishCarries DEF IntentsTypeOK, IInv, Matched
<1>4. ASSUME NEW c \in Bookings
      PROVE  ChargesAccounted(c)'
  <2>1. FailuresAnnounced(c)' = FailuresAnnounced(c)
    BY <1>1 DEF FailuresAnnounced
  <2>2. QED
    BY <1>1, <2>1, FinishCarries, BookingStays
<1>5. QED
  BY <1>1, <1>2, <1>3, <1>4, FinishCarries DEF ChargesInv
-----------------------------------------------------------------------------
(***************************************************************************)
(* The commit of an ITN appends one charge to those of its booking.        *)
(***************************************************************************)

Charged(b, row) ==
    /\ DOMAIN charges[b] = 1 .. Len(charges[b])
    /\ DOMAIN charges'[b] = 1 .. Len(charges[b]) + 1
    /\ Len(charges[b]) \in Nat
    /\ \A i \in 1 .. Len(charges[b]) : charges'[b][i] = charges[b][i]
    /\ charges'[b][Len(charges[b]) + 1] = row
    /\ \A c \in Bookings \ {b} : charges'[c] = charges[c]

LEMMA RecordChargeAppends ==
    ASSUME ChargesInv, NEW n \in Itns, itn[n].pc = "matched",
           NEW state \in {"SUCCEEDED", "FAILED"}, RecordCharge(n, state)
    PROVE  /\ intent' \in [Bookings -> IntentRow]
           /\ charges' \in [Bookings -> Seq(ChargeRow)]
           /\ Charged(itn[n].booking,
                      [pf |-> itn[n].pf, status |-> itn[n].status, state |-> state])
<1> DEFINE b == itn[n].booking
           row == [pf |-> itn[n].pf, status |-> itn[n].status, state |-> state]
           next == [intent[b] EXCEPT !.state = state]
<1>1. /\ itn[n] \in Matched
      /\ charges \in [Bookings -> Seq(ChargeRow)]
      /\ intent \in [Bookings -> IntentRow]
  BY IntentsType DEF IntentsTypeOK, IntentRow
<1>2. b \in Bookings /\ row \in ChargeRow
  BY <1>1 DEF Matched, ChargeRow
<1>3. next \in IntentRow
  BY <1>1, <1>2 DEF IntentRow, IntentStates
<1>4. /\ charges' = [charges EXCEPT ![b] = Append(charges[b], row)]
      /\ intent' = [intent EXCEPT ![b] = next]
  BY DEF RecordCharge
<1> HIDE DEF b, row, next
<1>5. intent' \in [Bookings -> IntentRow]
  BY <1>1, <1>2, <1>3, <1>4
<1>6. charges[b] \in Seq(ChargeRow) /\ Append(charges[b], row) \in Seq(ChargeRow)
  BY <1>1, <1>2
<1>7. /\ charges' \in [Bookings -> Seq(ChargeRow)]
      /\ charges'[b] = Append(charges[b], row)
      /\ \A c \in Bookings \ {b} : charges'[c] = charges[c]
  BY <1>1, <1>2, <1>4, <1>6
<1>8. Charged(b, row)
  BY <1>6, <1>7 DEF Charged
<1>9. QED
  BY <1>5, <1>7, <1>8 DEF b, row

\* A charge that was not seen before leaves the charges one for each status of a payment.
LEMMA ChargesStayDistinct ==
    ASSUME ChargesInv, NEW n \in Itns, itn[n].pc = "matched", ~Seen(n),
           NEW state \in {"SUCCEEDED", "FAILED"},
           state = "SUCCEEDED" <=> itn[n].status = "COMPLETE",
           NEW b \in Bookings, b = itn[n].booking,
           Charged(b, [pf |-> itn[n].pf, status |-> itn[n].status, state |-> state])
    PROVE  /\ \A i \in DOMAIN charges'[b] :
                 charges'[b][i].state = "SUCCEEDED" <=> charges'[b][i].status = "COMPLETE"
           /\ \A i, j \in DOMAIN charges'[b] :
                 /\ charges'[b][i].pf = charges'[b][j].pf
                 /\ charges'[b][i].status = charges'[b][j].status
                 => i = j
<1> DEFINE row == [pf |-> itn[n].pf, status |-> itn[n].status, state |-> state]
           last == Len(charges[b]) + 1
<1>1. ChargesAccounted(b)
  BY DEF ChargesInv
<1>2. \A i \in DOMAIN charges[b] :
         ~(charges[b][i].pf = itn[n].pf /\ charges[b][i].status = itn[n].status)
  BY DEF Seen, Rows
<1>3. /\ row.pf = itn[n].pf /\ row.status = itn[n].status /\ row.state = state
      /\ Charged(b, row)
  OBVIOUS
<1> HIDE DEF row
<1>4. /\ \A i \in DOMAIN charges'[b] : i \in DOMAIN charges[b] \/ i = last
      /\ \A i \in DOMAIN charges[b] : charges'[b][i] = charges[b][i]
      /\ charges'[b][last] = row
  BY <1>3 DEF Charged
<1> HIDE DEF last
<1>5. \A i \in DOMAIN charges'[b] :
         charges'[b][i].state = "SUCCEEDED" <=> charges'[b][i].status = "COMPLETE"
  BY <1>1, <1>3, <1>4 DEF ChargesAccounted
<1>6. ASSUME NEW i \in DOMAIN charges'[b], NEW j \in DOMAIN charges'[b],
             charges'[b][i].pf = charges'[b][j].pf,
             charges'[b][i].status = charges'[b][j].status
      PROVE  i = j
  <2>1. CASE i = last \/ j = last
    BY <1>2, <1>3, <1>4, <1>6, <2>1
  <2>2. CASE i # last /\ j # last
    BY <1>1, <1>4, <1>6, <2>2 DEF ChargesAccounted
  <2>3. QED
    BY <2>1, <2>2
<1>7. QED
  BY <1>5, <1>6
\* A hold is opened for what was locked and paid.
LEMMA CommitCompleteOperates ==
    ASSUME ChargesInv, NEW n \in Itns, CommitComplete(n)
    PROVE  itn[n].booking \in Bookings /\ Operation(itn[n].booking)
<1> DEFINE amount == itn[n].total - itn[n].fee
           fee == itn[n].fee
<1>1. itn[n] \in Matched
  BY IntentsType DEF CommitComplete
<1>2. /\ itn[n].total >= itn[n].fee
      /\ Capture(itn[n].booking, [amount |-> amount, fee |-> fee])
  BY DEF CommitComplete, HoldIsPossible
<1>3. itn[n].booking \in Bookings /\ amount \in Nat /\ fee \in Nat
  BY <1>1, <1>2 DEF Matched
<1>4. QED
  BY <1>2, <1>3 DEF Operation

LEMMA CommitCompleteInv ==
    ASSUME ChargesInv, NEW n \in Itns, CommitComplete(n)
    PROVE  ChargesInv'
<1>a. itn[n].pc = "matched" /\ itn[n] \in Matched
  BY IntentsType DEF CommitComplete
<1>b. PICK b \in Bookings : b = itn[n].booking
  BY <1>a DEF Matched
<1>c. PICK last \in Nat : last = Len(charges[b]) + 1
  BY IntentsType
<1> DEFINE amount == itn[n].total - itn[n].fee
           fee == itn[n].fee
           row == [pf |-> itn[n].pf, status |-> itn[n].status, state |-> "SUCCEEDED"]
<1>1. /\ itn[n].pc = "matched"
      /\ itn[n].status = "COMPLETE"
      /\ ~Seen(n)
      /\ itn[n].total >= itn[n].fee
      /\ Capture(b, [amount |-> amount, fee |-> fee])
      /\ RecordCharge(n, "SUCCEEDED")
      /\ Finish(n)
  BY <1>b DEF CommitComplete, HoldIsPossible
<1>2. /\ amount \in Nat
      /\ fee \in Nat
      /\ amount + fee = itn[n].total
  BY <1>a, <1>1 DEF Matched
<1>3. Operation(b)
  BY <1>b, CommitCompleteOperates
<1>4. IInv /\ IInv'
  BY <1>2, <1>3, OperationInv DEF ChargesInv
<1>5. /\ intent' \in [Bookings -> IntentRow]
      /\ charges' \in [Bookings -> Seq(ChargeRow)]
      /\ Charged(b, row)
  BY <1>b, <1>1, RecordChargeAppends
<1>6. IntentsTypeOK'
  <2>1. UNCHANGED <<locking, forms, payment>>
    BY <1>1 DEF Finish
  <2>2. QED
    BY <1>1, <1>4, <1>5, <2>1, IntentsType, FinishCarries
       DEF IntentsTypeOK, IInv, Matched, IntentRow, ChargeRow
<1>7. ASSUME NEW c \in Bookings
      PROVE  FailuresAnnounced(c)' = FailuresAnnounced(c)
  <2>1. PICK types \in Seq(OtherTypes) : Emit(b, types)
    BY <1>2, <1>3, <1>4, OperationEmits
  <2>2. "payments.failed" \notin OtherTypes /\ OtherTypes \subseteq OutboxTypes
    BY DEF OtherTypes
  <2>3. QED
    BY <1>2, <1>4, <2>1, <2>2, AnnouncesElse DEF IInv
<1>8. /\ hold[b] = NoHold
      /\ hold'[b] # NoHold
      /\ hold'[b].amount = amount
      /\ hold'[b].fee = fee
  BY <1>1, <1>2, <1>4 DEF Capture, IInv, TypeOK, NoHold
<1>9. ChargesAccounted(b)'
  <2>1. ChargesAccounted(b)
    BY <1>2 DEF ChargesInv
  <2>2. row.status = "COMPLETE" /\ row.state = "SUCCEEDED" /\ row.pf = itn[n].pf
    BY <1>1
  <2>3. Completed(b) = {}
    BY <1>8, <2>1 DEF ChargesAccounted
  <2>4. /\ Completed(b)' = {last}
        /\ FailuresRecorded(b)' = FailuresRecorded(b)
        /\ last \in DOMAIN charges'[b]
        /\ charges'[b][last] = row
    <3> HIDE DEF row
    <3>1. /\ \A i : i \in DOMAIN charges'[b] <=> i \in DOMAIN charges[b] \/ i = last
          /\ \A i \in DOMAIN charges[b] : charges'[b][i] = charges[b][i]
          /\ charges'[b][last] = row
          /\ last \notin DOMAIN charges[b]
      BY <1>c, <1>5 DEF Charged
    <3>2. QED
      BY <2>2, <2>3, <3>1 DEF Completed, FailuresRecorded
  <2>5. PaidHold(b, last)'
    <3>1. Carries(n) /\ payment' = payment
      BY <1>1 DEF ChargesInv, Finish
    <3>2. /\ "COMPLETE" \in payment[itn[n].pf].reported
          /\ payment[itn[n].pf].form = [booking |-> b, total |-> itn[n].total]
      BY <1>b, <1>1, <3>1 DEF Carries
    <3>3. charges'[b][last].pf = itn[n].pf
      BY <2>2, <2>4
    <3>4. QED
      BY <1>2, <1>8, <3>1, <3>2, <3>3 DEF PaidHold
  <2>6. /\ \A i \in DOMAIN charges'[b] :
              charges'[b][i].state = "SUCCEEDED" <=> charges'[b][i].status = "COMPLETE"
        /\ \A i, j \in DOMAIN charges'[b] :
              /\ charges'[b][i].pf = charges'[b][j].pf
              /\ charges'[b][i].status = charges'[b][j].status
              => i = j
    BY <1>b, <1>1, <1>5, ChargesStayDistinct
  <2>7. Cardinality(FailuresAnnounced(b)') = Cardinality(FailuresRecorded(b)')
    BY <1>2, <1>7, <2>1, <2>4 DEF ChargesAccounted
  <2>8. QED
    BY <1>8, <2>4, <2>5, <2>6, <2>7 DEF ChargesAccounted
<1>10. ASSUME NEW c \in Bookings
       PROVE  ChargesAccounted(c)'
  <2>1. CASE c = b
    BY <1>9, <2>1
  <2>2. CASE c # b
    <3>1. hold'[c] = hold[c]
      BY <1>2, <1>3, <1>4, <2>2, OperationFrame DEF IInv
    <3>2. charges'[c] = charges[c]
      BY <1>5, <2>2 DEF Charged
    <3>3. QED
      BY <1>1, <1>7, <3>1, <3>2, FinishCarries, BookingStays
  <2>3. QED
    BY <2>1, <2>2
<1>11. QED
  BY <1>1, <1>4, <1>6, <1>10, FinishCarries DEF ChargesInv
LEMMA CommitFailedInv ==
    ASSUME ChargesInv, NEW n \in Itns, CommitFailed(n)
    PROVE  ChargesInv'
<1>1. /\ itn[n].pc = "matched"
      /\ itn[n].status # "COMPLETE"
      /\ ~Seen(n)
      /\ RecordCharge(n, "FAILED")
      /\ Emit(itn[n].booking, <<"payments.failed">>)
      /\ Finish(n)
      /\ UNCHANGED <<hold, ledger, trail, payouts>>
      /\ TypeOK
  BY IntentsType DEF CommitFailed
<1>2. PICK b \in Bookings : b = itn[n].booking
  BY <1>1, IntentsType DEF Matched
<1>3. PICK last \in Nat : last = Len(charges[b]) + 1
  BY IntentsType
<1> DEFINE row == [pf |-> itn[n].pf, status |-> itn[n].status, state |-> "FAILED"]
<1>4. IInv'
  <2>1. <<"payments.failed">> \in Seq(OutboxTypes)
    BY DEF OutboxTypes
  <2>2. QED
    BY <1>1, <1>2, <2>1, EmitInv DEF ChargesInv
<1>5. /\ intent' \in [Bookings -> IntentRow]
      /\ charges' \in [Bookings -> Seq(ChargeRow)]
      /\ Charged(b, row)
  BY <1>1, <1>2, RecordChargeAppends
<1>6. IntentsTypeOK'
  <2>1. UNCHANGED <<locking, forms, payment>>
    BY <1>1 DEF Finish
  <2>2. QED
    BY <1>1, <1>4, <1>5, <2>1, IntentsType, FinishCarries
       DEF IntentsTypeOK, IInv, Matched, IntentRow, ChargeRow
<1>7. /\ FailuresAnnounced(b)' = FailuresAnnounced(b) \cup {Len(outbox[b]) + 1}
      /\ Len(outbox[b]) + 1 \notin FailuresAnnounced(b)
      /\ \A c \in Bookings \ {b} : FailuresAnnounced(c)' = FailuresAnnounced(c)
  BY <1>1, <1>2, AnnouncesFailure
<1>8. /\ Completed(b)' = Completed(b)
      /\ FailuresRecorded(b)' = FailuresRecorded(b) \cup {last}
      /\ last \notin FailuresRecorded(b)
      /\ \A i \in DOMAIN charges[b] : i \in DOMAIN charges'[b] /\ charges'[b][i] = charges[b][i]
  <2>1. row.status # "COMPLETE" /\ row.state = "FAILED"
    BY <1>1
  <2> HIDE DEF row
  <2>2. /\ \A i : i \in DOMAIN charges'[b] <=> i \in DOMAIN charges[b] \/ i = last
        /\ \A i \in DOMAIN charges[b] : charges'[b][i] = charges[b][i]
        /\ charges'[b][last] = row
        /\ last \notin DOMAIN charges[b]
    BY <1>3, <1>5 DEF Charged
  <2>3. QED
    BY <2>1, <2>2 DEF Completed, FailuresRecorded
<1>9. ChargesAccounted(b)'
  <2>1. ChargesAccounted(b) /\ hold'[b] = hold[b]
    BY <1>1 DEF ChargesInv
  <2>2. /\ \A i \in DOMAIN charges'[b] :
              charges'[b][i].state = "SUCCEEDED" <=> charges'[b][i].status = "COMPLETE"
        /\ \A i, j \in DOMAIN charges'[b] :
              /\ charges'[b][i].pf = charges'[b][j].pf
              /\ charges'[b][i].status = charges'[b][j].status
              => i = j
    BY <1>1, <1>2, <1>5, ChargesStayDistinct
  <2>3. Cardinality(FailuresAnnounced(b)') = Cardinality(FailuresRecorded(b)')
    <3> DEFINE announced == FailuresAnnounced(b)
               recorded == FailuresRecorded(b)
               message == Len(outbox[b]) + 1
    <3>1. IsFiniteSet(announced) /\ message \notin announced
      BY <1>7, FailuresFinite
    <3>2. IsFiniteSet(recorded) /\ last \notin recorded
      BY <1>8, FailuresFinite
    <3>3. /\ FailuresAnnounced(b)' = announced \cup {message}
          /\ FailuresRecorded(b)' = recorded \cup {last}
      BY <1>7, <1>8
    <3> HIDE DEF announced, recorded, message
    <3>4. Cardinality(announced \cup {message}) = Cardinality(announced) + 1
      BY <3>1, FS_AddElement
    <3>5. Cardinality(recorded \cup {last}) = Cardinality(recorded) + 1
      BY <3>2, FS_AddElement
    <3>6. /\ Cardinality(FailuresAnnounced(b)') = Cardinality(announced) + 1
          /\ Cardinality(FailuresRecorded(b)') = Cardinality(recorded) + 1
      BY <3>3, <3>4, <3>5
    <3>7. QED
      BY <2>1, <3>6 DEF ChargesAccounted, announced, recorded
  <2>4. IF hold'[b] = NoHold
        THEN Completed(b)' = {}
        ELSE \E i \in DOMAIN charges'[b] : Completed(b)' = {i} /\ PaidHold(b, i)'
    <3>1. CASE hold[b] = NoHold
      BY <1>8, <2>1, <3>1 DEF ChargesAccounted
    <3>2. CASE hold[b] # NoHold
      <4>1. PICK i \in DOMAIN charges[b] : Completed(b) = {i} /\ PaidHold(b, i)
        BY <2>1, <3>2 DEF ChargesAccounted
      <4>2. payment' = payment
        BY <1>1 DEF Finish
      <4>3. PaidHold(b, i)'
        BY <1>8, <2>1, <4>1, <4>2 DEF PaidHold
      <4>4. QED
        BY <1>8, <2>1, <3>2, <4>1, <4>3
    <3>3. QED
      BY <3>1, <3>2
  <2>5. QED
    BY <2>2, <2>3, <2>4 DEF ChargesAccounted
<1>10. ASSUME NEW c \in Bookings
       PROVE  ChargesAccounted(c)'
  <2>1. CASE c = b
    BY <1>9, <2>1
  <2>2. CASE c # b
    <3>1. charges'[c] = charges[c] /\ hold'[c] = hold[c]
      BY <1>1, <1>5, <2>2 DEF Charged
    <3>2. QED
      BY <1>1, <1>7, <2>2, <3>1, FinishCarries, BookingStays
  <2>3. QED
    BY <2>1, <2>2
<1>11. QED
  BY <1>1, <1>4, <1>6, <1>10, FinishCarries DEF ChargesInv

\* What happens to a hold later leaves the record of its payment alone.
LEMMA LaterStepInv ==
    ASSUME ChargesInv, LaterStep
    PROVE  ChargesInv'
<1>1. PICK b \in Bookings : hold[b] # NoHold /\ EscrowStep(b) /\ UNCHANGED intentVars
  BY DEF LaterStep
<1>2. Operation(b) /\ IInv /\ TypeOK
  BY <1>1, IntentsType DEF Operation, ChargesInv
<1>3. IInv'
  BY <1>2, OperationInv
<1>4. UNCHANGED <<intent, charges, locking, itn, forms, payment>>
  BY <1>1 DEF intentVars
<1>5. IntentsTypeOK'
  BY <1>3, <1>4, IntentsType DEF IntentsTypeOK, IInv
<1>6. ASSUME NEW c \in Bookings
      PROVE  FailuresAnnounced(c)' = FailuresAnnounced(c)
  <2>1. PICK types \in Seq(OtherTypes) : Emit(b, types)
    BY <1>2, OperationEmits
  <2>2. "payments.failed" \notin OtherTypes /\ OtherTypes \subseteq OutboxTypes
    BY DEF OtherTypes
  <2>3. QED
    BY <1>2, <2>1, <2>2, AnnouncesElse
<1>7. ASSUME NEW c \in Bookings
      PROVE  ChargesAccounted(c)'
  <2>1. CASE hold[c] = NoHold
    <3>1. hold'[c] = hold[c]
      BY <1>1, <1>2, <2>1, OperationFrame
    <3>2. QED
      BY <1>4, <1>6, <2>1, <3>1, RemembersAll, BookingStays
  <2>2. CASE hold[c] # NoHold
    BY <1>2, <1>4, <1>6, <2>2, OperationEvolves, RemembersAll, BookingStays DEF Evolves
  <2>3. QED
    BY <2>1, <2>2
<1>8. QED
  BY <1>3, <1>4, <1>5, <1>7, RemembersAll, CarryStays DEF ChargesInv

-----------------------------------------------------------------------------

LEMMA IntentsInitInv == IntentsInit => ChargesInv
<1> SUFFICES ASSUME IntentsInit
             PROVE  ChargesInv
  OBVIOUS
<1>1. /\ Init
      /\ intent  = [b \in Bookings |-> NoIntent]
      /\ charges = [b \in Bookings |-> <<>>]
      /\ locking = [l \in Locks |-> Idle]
      /\ itn     = [n \in Itns |-> Idle]
      /\ forms   = {}
      /\ payment = [pf \in PfPayments |-> NoPayment]
  BY DEF IntentsInit
<1>2. IInv
  BY <1>1, InitInv
<1>3. IntentsTypeOK
  <2>1. NoIntent \in IntentRow
    BY DEF NoIntent, IntentRow, IntentStates
  <2>2. QED
    BY <1>1, <1>2, <2>1 DEF IntentsTypeOK, IInv, IntentRow
<1>4. \A n \in Itns : Carries(n)
  BY <1>1 DEF Carries, Idle
<1>5. ASSUME NEW b \in Bookings
      PROVE  ChargesAccounted(b)
  <2>1. DOMAIN charges[b] = {} /\ DOMAIN outbox[b] = {} /\ hold[b] = NoHold
    BY <1>1 DEF Init
  <2>2. /\ Completed(b) = {}
        /\ FailuresRecorded(b) = {}
        /\ FailuresAnnounced(b) = {}
    BY <2>1 DEF Completed, FailuresRecorded, FailuresAnnounced
  <2>3. QED
    BY <2>1, <2>2 DEF ChargesAccounted
<1>6. QED
  BY <1>2, <1>3, <1>4, <1>5 DEF ChargesInv

LEMMA IntentsStutter ==
    ASSUME ChargesInv, UNCHANGED intentsVars
    PROVE  ChargesInv'
<1>1. /\ UNCHANGED <<hold, ledger, trail, payouts, outbox>>
      /\ UNCHANGED <<intent, charges, locking, itn, forms, payment>>
      /\ IntentsTypeOK
  BY IntentsType DEF intentsVars, escrowVars, intentVars
<1>2. IntentsTypeOK'
  BY <1>1 DEF IntentsTypeOK, TypeOK
<1>3. QED
  BY <1>1, <1>2, RemembersAll, CheckoutInv

LEMMA IntentsNextInv == ChargesInv /\ [IntentsNext]_intentsVars => ChargesInv'
<1> SUFFICES ASSUME ChargesInv, [IntentsNext]_intentsVars
             PROVE  ChargesInv'
  OBVIOUS
<1>1. CASE \E b \in Bookings : CreateIntent(b)
  BY <1>1, CreateIntentInv
<1>2. CASE \E l \in Locks, b \in Bookings : LockReads(l, b)
  BY <1>2, LockReadsInv
<1>3. CASE \E l \in Locks, rate \in Rates : LockQuotes(l, rate)
  BY <1>3, LockQuotesInv
<1>4. CASE \E l \in Locks, rate \in Rates : LockWrites(l, rate)
  BY <1>4, LockWritesInv
<1>5. CASE \E pf \in PfPayments, form \in forms : Pay(pf, form)
  BY <1>5, PayInv
<1>6. CASE \E pf \in PfPayments, status \in ItnStatuses : Settle(pf, status)
  BY <1>6, SettlePaymentInv
<1>7. CASE \E n \in Itns, pf \in PfPayments, status \in ItnStatuses : ItnReads(n, pf, status)
  BY <1>7, ItnReadsInv
<1>8. CASE \E n \in Itns : Commit(n)
  BY <1>8, CommitCompleteInv, CommitFailedInv, CommitNothingInv DEF Commit
<1>9. CASE LaterStep
  BY <1>9, LaterStepInv
<1>10. CASE UNCHANGED intentsVars
  BY <1>10, IntentsStutter
<1>11. QED
  BY <1>1, <1>2, <1>3, <1>4, <1>5, <1>6, <1>7, <1>8, <1>9, <1>10 DEF IntentsNext

LEMMA ChargesKept == IntentsSpec => []ChargesInv
  BY IntentsInitInv, IntentsNextInv, PTL DEF IntentsSpec

\* A fee is copied from the rate to the intent, and from the intent to an invocation.
LEMMA QuotesStart == IntentsInit => QuotesKept
  BY DEF IntentsInit, NoIntent, Idle, QuotesKept

LEMMA QuotesNext == ChargesInv /\ QuotesKept /\ [IntentsNext]_intentsVars => QuotesKept'
<1> SUFFICES ASSUME ChargesInv, QuotesKept, [IntentsNext]_intentsVars PROVE QuotesKept'
  OBVIOUS
<1>1. /\ intent \in [Bookings -> [state : IntentStates, locked : BOOLEAN, total : Nat, fee : Nat]]
      /\ DOMAIN locking = Locks /\ DOMAIN itn = Itns
      /\ \A n \in Itns : itn[n].pc = "matched" => itn[n] \in Matched
  BY IntentsType DEF IntentsTypeOK
<1>2. ASSUME NEW b \in Bookings, CreateIntent(b) PROVE QuotesKept'
  BY <1>1, <1>2 DEF CreateIntent, QuotesKept, NoIntent
<1>3. ASSUME NEW l \in Locks, NEW b \in Bookings, LockReads(l, b) PROVE QuotesKept'
  BY <1>1, <1>3 DEF LockReads, QuotesKept
<1>4. ASSUME NEW l \in Locks, NEW rate \in Rates, LockQuotes(l, rate) PROVE QuotesKept'
  BY <1>1, <1>4 DEF LockQuotes, QuotesKept, QuotedTotals
<1>5. ASSUME NEW l \in Locks, NEW rate \in Rates, LockWrites(l, rate) PROVE QuotesKept'
  BY <1>1, <1>5 DEF LockWrites, QuotesKept, QuotedFees, Idle
<1>6. ASSUME NEW n \in Itns, NEW pf \in PfPayments, NEW status \in ItnStatuses,
             ItnReads(n, pf, status)
      PROVE  QuotesKept'
  <2>1. payment[pf].form.booking \in Bookings
    BY <1>6, IntentsType DEF ItnReads
  <2>2. QED
    BY <1>1, <1>6, <2>1 DEF ItnReads, MatchesIntent, QuotesKept
<1>7. ASSUME NEW n \in Itns, NEW state, RecordCharge(n, state), Finish(n), itn[n].pc = "matched"
      PROVE  QuotesKept'
  <2>1. itn[n].booking \in Bookings
    BY <1>1, <1>7 DEF Matched
  <2>2. \A b \in Bookings : intent'[b].locked = intent[b].locked /\ intent'[b].fee = intent[b].fee
    BY <1>1, <1>7, <2>1 DEF RecordCharge
  <2>3. QED
    BY <1>1, <1>7, <2>2 DEF Finish, QuotesKept, Idle
<1>8. ASSUME NEW n \in Itns, Commit(n) PROVE QuotesKept'
  <2>1. CASE CommitComplete(n) \/ CommitFailed(n)
    BY <1>7, <2>1 DEF CommitComplete, CommitFailed
  <2>2. CASE CommitNothing(n)
    BY <1>1, <2>2 DEF CommitNothing, Finish, QuotesKept, Idle
  <2>3. QED
    BY <1>8, <2>1, <2>2 DEF Commit
<1>9. ASSUME UNCHANGED <<intent, locking, itn>> PROVE QuotesKept'
  BY <1>9 DEF QuotesKept
<1>10. CASE \/ \E pf \in PfPayments, form \in forms : Pay(pf, form)
            \/ \E pf \in PfPayments, status \in ItnStatuses : Settle(pf, status)
            \/ LaterStep
            \/ UNCHANGED intentsVars
  BY <1>9, <1>10 DEF Pay, Settle, LaterStep, intentsVars, intentVars
<1>11. QED
  BY <1>2, <1>3, <1>4, <1>5, <1>6, <1>8, <1>10 DEF IntentsNext

\* Every hold was paid for by one completed charge, every charge is recorded once, every
\* failed one is announced, and every fee was quoted: whatever order locks, payments, ITNs
\* and the later life of the hold come in.
THEOREM ChargesAlwaysAccounted == IntentsSpec => []IntentsInv
<1>1. QED
  BY ChargesKept, QuotesStart, QuotesNext, PTL DEF IntentsSpec, IntentsInv

\* A hold stands for money that PayFast collected: one charge, completed, of exactly
\* the hold and its fee.
THEOREM HoldsAreBacked == IntentsSpec => []HoldBackedByPayment
<1>1. ChargesInv => HoldBackedByPayment
  <2> SUFFICES ASSUME ChargesInv, NEW b \in Bookings, hold[b] # NoHold
               PROVE  \E pf \in PfPayments :
                        /\ {i \in DOMAIN charges[b] : charges[b][i].state = "SUCCEEDED"} =
                              Rows(b, pf, "COMPLETE")
                        /\ Cardinality(Rows(b, pf, "COMPLETE")) = 1
                        /\ "COMPLETE" \in payment[pf].reported
                        /\ payment[pf].form =
                              [booking |-> b, total |-> hold[b].amount + hold[b].fee]
    BY DEF HoldBackedByPayment
  <2>1. ChargesAccounted(b) /\ charges[b] \in Seq(ChargeRow)
    BY IntentsType DEF ChargesInv
  <2>2. PICK i \in DOMAIN charges[b] : Completed(b) = {i} /\ PaidHold(b, i)
    BY <2>1 DEF ChargesAccounted
  <2>3. PICK pf \in PfPayments : pf = charges[b][i].pf
    <3>1. charges[b][i] \in ChargeRow
      BY <2>1
    <3>2. QED
      BY <3>1 DEF ChargeRow
  <2>4. /\ {k \in DOMAIN charges[b] : charges[b][k].state = "SUCCEEDED"} = {i}
        /\ Rows(b, pf, "COMPLETE") = {i}
    BY <2>1, <2>2, <2>3 DEF ChargesAccounted, Completed, Rows
  <2>5. Cardinality({i}) = 1
    BY FS_Singleton
  <2>6. QED
    BY <2>2, <2>3, <2>4, <2>5 DEF PaidHold
<1>2. QED
  BY <1>1, ChargesKept, PTL

\* Repeated and concurrent ITNs leave one row for each status of a payment, and one
\* announcement for each failure.
THEOREM ItnsRecordedOnce == IntentsSpec => []ItnRecordedOnce
<1>1. ChargesInv => ItnRecordedOnce
  <2> SUFFICES ASSUME ChargesInv, NEW b \in Bookings
               PROVE  /\ \A pf \in PfPayments, status \in ItnStatuses :
                            Cardinality(Rows(b, pf, status)) <= 1
                      /\ Cardinality(FailuresAnnounced(b)) = Cardinality(FailuresRecorded(b))
    BY DEF ItnRecordedOnce, FailuresAnnounced, FailuresRecorded
  <2>1. ChargesAccounted(b)
    BY DEF ChargesInv
  <2>2. ASSUME NEW pf \in PfPayments, NEW status \in ItnStatuses
        PROVE  Cardinality(Rows(b, pf, status)) <= 1
    <3>1. CASE Rows(b, pf, status) = {}
      BY <3>1, FS_EmptySet
    <3>2. CASE Rows(b, pf, status) # {}
      <4>1. PICK i : i \in Rows(b, pf, status)
        BY <3>2
      <4>2. Rows(b, pf, status) = {i}
        BY <2>1, <4>1 DEF ChargesAccounted, Rows
      <4>3. Cardinality({i}) = 1
        BY FS_Singleton
      <4>4. QED
        BY <4>2, <4>3
    <3>3. QED
      BY <3>1, <3>2
  <2>3. QED
    BY <2>1, <2>2 DEF ChargesAccounted
<1>2. QED
  BY <1>1, ChargesKept, PTL

-----------------------------------------------------------------------------

\* Checkout opens holds by the operation of the escrow component, and besides that only
\* announces.
LEMMA IntentsOperate ==
    ASSUME ChargesInv, [IntentsNext]_intentsVars
    PROVE  [OperationsNext]_escrowVars
<1>1. ASSUME NEW b \in Bookings, CreateIntent(b)
      PROVE  Announcement(b)
  BY <1>1 DEF CreateIntent, Announcement
<1>2. ASSUME NEW n \in Itns, CommitFailed(n)
      PROVE  itn[n].booking \in Bookings /\ Announcement(itn[n].booking)
  <2>1. itn[n] \in Matched
    BY <1>2, IntentsType DEF CommitFailed
  <2>2. QED
    BY <1>2, <2>1 DEF CommitFailed, Announcement, Matched
<1>3. ASSUME NEW n \in Itns, CommitComplete(n)
      PROVE  OperationsNext
  BY <1>3, CommitCompleteOperates DEF OperationsNext
<1>4. CASE LaterStep
  BY <1>4 DEF LaterStep, Operation, OperationsNext
<1>5. CASE \/ \E l \in Locks, b \in Bookings : LockReads(l, b)
           \/ \E l \in Locks, rate \in Rates : LockQuotes(l, rate) \/ LockWrites(l, rate)
  BY <1>5 DEF LockReads, LockQuotes, LockWrites
<1>6. CASE \/ \E pf \in PfPayments, form \in forms : Pay(pf, form)
           \/ \E pf \in PfPayments, status \in ItnStatuses : Settle(pf, status)
  BY <1>6 DEF Pay, Settle
<1>7. CASE \E n \in Itns :
             \/ \E pf \in PfPayments, status \in ItnStatuses : ItnReads(n, pf, status)
             \/ CommitNothing(n)
  BY <1>7 DEF ItnReads, CommitNothing
<1>8. CASE UNCHANGED intentsVars
  BY <1>8 DEF intentsVars
<1>9. QED
  BY <1>1, <1>2, <1>3, <1>4, <1>5, <1>6, <1>7, <1>8 DEF IntentsNext, Commit, OperationsNext

\* What the escrow component promises of its holds, whatever was locked, paid and notified
\* in whatever order.
THEOREM PromisesInCheckout == IntentsSpec => EscrowPromises
<1>1. IntentsInit => Init
  BY DEF IntentsInit
<1>2. QED
  BY <1>1, ChargesKept, IntentsOperate, PromisesKept, PTL
     DEF IntentsSpec, OperationsSpec

-----------------------------------------------------------------------------
(***************************************************************************)
(* The checkout as offers, collected payments and pots.                    *)
(***************************************************************************)

LEMMA CollectedStays ==
    ASSUME UNCHANGED <<hold, ledger, forms>>, collectedBar' = collectedBar, backingBar' = backingBar
    PROVE  UNCHANGED <<Promised!vars, Promised!checkoutVars>>
  BY BarStutter DEF Promised!vars, Promised!checkoutVars

LEMMA BarsStay ==
    /\ payment' = payment => collectedBar' = collectedBar
    /\ charges' = charges => backingBar' = backingBar
  BY DEF collectedBar, backingBar, Rows

\* A charge adds its payment to those of its booking if it is a completion.
LEMMA ChargeBacks ==
    ASSUME NEW b \in Bookings, NEW row \in ChargeRow, Charged(b, row)
    PROVE  backingBar' = IF row.status = "COMPLETE"
                         THEN [backingBar EXCEPT ![b] = backingBar[b] \cup {row.pf}]
                         ELSE backingBar
<1> DEFINE last == Len(charges[b]) + 1
           paid(c) == {pf \in PfPayments : Rows(c, pf, "COMPLETE") # {}}
<1>1. row.pf \in PfPayments
  BY DEF ChargeRow
<1>2. /\ \A i : i \in DOMAIN charges'[b] <=> i \in DOMAIN charges[b] \/ i = last
      /\ \A i \in DOMAIN charges[b] : charges'[b][i] = charges[b][i]
      /\ charges'[b][last] = row
      /\ last \notin DOMAIN charges[b]
  BY DEF Charged
<1>3. \A c \in Bookings : c # b => paid(c)' = paid(c)
  BY DEF Charged, Rows
<1> HIDE DEF last
<1>4. \A pf : Rows(b, pf, "COMPLETE")' # {} <=>
         Rows(b, pf, "COMPLETE") # {} \/ (row.status = "COMPLETE" /\ row.pf = pf)
  BY <1>2 DEF Rows
<1>5. paid(b)' = IF row.status = "COMPLETE" THEN paid(b) \cup {row.pf} ELSE paid(b)
  BY <1>1, <1>4
<1> HIDE DEF paid
<1>6. backingBar = [c \in Bookings |-> paid(c)] /\ backingBar' = [c \in Bookings |-> paid(c)']
  BY DEF backingBar, paid
<1>7. QED
  BY <1>3, <1>5, <1>6

LEMMA PayNotCollected ==
    ASSUME ChargesInv, NEW pf \in PfPayments, NEW form \in forms, Pay(pf, form)
    PROVE  UNCHANGED <<Promised!vars, Promised!checkoutVars>>
<1>1. /\ DOMAIN payment = PfPayments
      /\ payment[pf].reported = {}
      /\ payment' = [payment EXCEPT ![pf] = [form |-> form, reported |-> {"PENDING"}]]
      /\ UNCHANGED <<hold, ledger, charges, forms>>
  BY IntentsType DEF Pay, NoPayment, IntentsTypeOK, escrowVars
<1>2. "COMPLETE" \notin payment[pf].reported /\ "COMPLETE" \notin payment'[pf].reported
  BY <1>1
<1>3. \A p \in PfPayments : p # pf => payment'[p] = payment[p]
  BY <1>1
<1>4. collectedBar' = collectedBar
  BY <1>2, <1>3 DEF collectedBar
<1>5. QED
  BY <1>1, <1>4, BarsStay, CollectedStays

LEMMA CompletionCollects ==
    ASSUME ChargesInv, NEW pf \in PfPayments, NEW status \in ItnStatuses, Settle(pf, status)
    PROVE  [Promised!CollectedNext]_<<Promised!vars, Promised!checkoutVars>>
<1>1. /\ DOMAIN payment = PfPayments
      /\ payment[pf].reported = {"PENDING"} /\ payment[pf] # NoPayment
      /\ payment' = [payment EXCEPT ![pf].reported = @ \cup {status}]
      /\ UNCHANGED <<hold, ledger, charges, forms>>
  BY IntentsType DEF Settle, NoPayment, IntentsTypeOK, escrowVars
<1>2. /\ payment[pf] \in [form : forms, reported : SUBSET ItnStatuses]
      /\ \A p \in PfPayments : p # pf => payment'[p] = payment[p]
  BY <1>1, IntentsType DEF IntentsTypeOK
<1>3. /\ payment'[pf].form = payment[pf].form
      /\ payment'[pf].reported = {"PENDING", status}
  BY <1>1, <1>2
<1>4. CASE status = "COMPLETE"
  <2>1. PICK form \in forms : form = payment[pf].form
    BY <1>2
  <2>2. collectedBar[pf] = [total |-> 0] /\ collectedBar'[pf] = form
    BY <1>1, <1>3, <1>4, <2>1 DEF collectedBar
  <2>3. \A p \in PfPayments : p # pf => collectedBar'[p] = collectedBar[p]
    BY <1>2 DEF collectedBar
  <2>4. /\ collectedBar = [p \in PfPayments |-> collectedBar[p]]
        /\ collectedBar' = [p \in PfPayments |-> collectedBar'[p]]
    BY DEF collectedBar
  <2>5. collectedBar' = [collectedBar EXCEPT ![pf] = form]
    BY <2>2, <2>3, <2>4
  <2>6. Promised!Collect(pf, form)
    BY <1>1, <2>2, <2>5, BarStutter, BarsStay
       DEF Promised!Collect, Promised!NotCollected, Promised!vars
  <2>7. QED
    BY <2>6 DEF Promised!CollectedNext
<1>5. CASE status # "COMPLETE"
  <2>1. collectedBar' = collectedBar
    BY <1>1, <1>2, <1>3, <1>5 DEF collectedBar
  <2>2. QED
    BY <1>1, <2>1, BarsStay, CollectedStays
<1>6. QED
  BY <1>4, <1>5

LEMMA LockOffers ==
    ASSUME QuotesKept, NEW l \in Locks, NEW rate \in Rates, LockWrites(l, rate), ChargesInv
    PROVE  Promised!CollectedNext
<1>1. locking[l] \in [pc : {"priced"}, booking : Bookings, total : Nat]
  BY IntentsType DEF LockWrites, IntentsTypeOK, Idle
<1>2. PICK b \in Bookings, total \in QuotedTotals :
         b = locking[l].booking /\ total = locking[l].total
  BY <1>1 DEF LockWrites, QuotesKept
<1>3. Promised!Offer(b, total)
  BY <1>2, BarStutter, BarsStay DEF LockWrites, escrowVars, Promised!Offer, Promised!vars
<1>4. QED
  BY <1>3 DEF Promised!CollectedNext

\* The completed ITN opens the pot of its booking, with all that was paid.
LEMMA CommitOpens ==
    ASSUME ChargesInv, ChargesInv', QuotesKept, NEW n \in Itns, CommitComplete(n)
    PROVE  Promised!CollectedNext
<1>1. itn[n].pc = "matched" /\ itn[n] \in Matched /\ Carries(n)
  BY IntentsType DEF CommitComplete, ChargesInv
<1>2. PICK b \in Bookings, pf \in PfPayments, fee \in QuotedFees, amount \in Nat :
         /\ b = itn[n].booking /\ pf = itn[n].pf
         /\ fee = itn[n].fee /\ amount = itn[n].total - fee
         /\ fee \in Nat
  BY <1>1 DEF Matched, CommitComplete, HoldIsPossible, QuotesKept
<1> DEFINE row == [pf |-> pf, status |-> "COMPLETE", state |-> "SUCCEEDED"]
<1>3. /\ Capture(b, [amount |-> amount, fee |-> fee]) /\ Operation(b)
      /\ RecordCharge(n, "SUCCEEDED") /\ itn[n].status = "COMPLETE"
      /\ UNCHANGED <<payment, forms>>
  BY <1>2, CommitCompleteOperates DEF CommitComplete, Finish
<1>4. Charged(b, row) /\ row \in ChargeRow
  BY <1>1, <1>2, <1>3, RecordChargeAppends DEF ChargeRow, ItnStatuses
<1>5. /\ phaseBar[b] = "none"
      /\ phaseBar' = [phaseBar EXCEPT ![b] = "open"]
      /\ potBar' = [potBar EXCEPT ![b] = amount]
      /\ feeBar' = [feeBar EXCEPT ![b] = fee]
      /\ artistBar' = artistBar
      /\ clientBar' = clientBar
  <2> DEFINE c == [amount |-> amount, fee |-> fee]
  <2>1. c.amount = amount /\ c.fee = fee /\ Capture(b, c) /\ IInv /\ IInv'
    BY <1>3 DEF ChargesInv
  <2> HIDE DEF c
  <2>2. QED
    BY <1>2, <1>3, <2>1, CaptureRefines
<1>6. backingBar[b] = {}
  <2>1. Completed(b) = {}
    BY <1>3 DEF ChargesInv, ChargesAccounted, Capture
  <2>2. \A p : Rows(b, p, "COMPLETE") = {}
    BY <2>1 DEF Completed, Rows
  <2>3. QED
    BY <2>2 DEF backingBar
<1>7. backingBar' = [backingBar EXCEPT ![b] = {pf}]
  <2>1. row.status = "COMPLETE" /\ row.pf = pf
    OBVIOUS
  <2> HIDE DEF row
  <2>2. backingBar' = [backingBar EXCEPT ![b] = backingBar[b] \cup {pf}]
    BY <1>4, <2>1, ChargeBacks
  <2>3. QED
    BY <1>6, <2>2
<1>8. collectedBar[pf] = [booking |-> b, total |-> itn[n].total]
  BY <1>1, <1>2, <1>3 DEF Carries, collectedBar
<1>9. /\ collectedBar[pf] # [total |-> 0]
      /\ collectedBar[pf].booking = b
      /\ collectedBar[pf].total >= fee
      /\ collectedBar[pf].total - fee = amount
  <2>1. collectedBar[pf].total = itn[n].total /\ collectedBar[pf].booking = b
    BY <1>8
  <2>2. collectedBar[pf] # [total |-> 0]
    BY <1>8
  <2>3. itn[n].total \in Nat
    BY <1>1 DEF Matched
  <2>4. QED
    BY <1>2, <2>1, <2>2, <2>3
<1>10. Promised!Open(b, pf, fee)
  BY <1>3, <1>5, <1>6, <1>7, <1>9, BarsStay DEF Promised!Open, Promised!NotCollected
<1>11. QED
  BY <1>10 DEF Promised!CollectedNext

LEMMA FailureBacksNothing ==
    ASSUME ChargesInv, NEW n \in Itns, CommitFailed(n)
    PROVE  UNCHANGED <<Promised!vars, Promised!checkoutVars>>
<1>1. itn[n].pc = "matched" /\ itn[n] \in Matched /\ itn[n].status # "COMPLETE"
  BY IntentsType DEF CommitFailed
<1>2. PICK b \in Bookings : b = itn[n].booking
  BY <1>1 DEF Matched
<1>3. PICK row \in ChargeRow : row.status # "COMPLETE" /\ Charged(b, row)
  <2> DEFINE row == [pf |-> itn[n].pf, status |-> itn[n].status, state |-> "FAILED"]
  <2>1. row \in ChargeRow /\ row.status # "COMPLETE"
    BY <1>1 DEF Matched, ChargeRow
  <2>2. Charged(b, row)
    BY <1>1, <1>2, RecordChargeAppends DEF CommitFailed
  <2>3. QED
    BY <2>1, <2>2
<1>4. backingBar' = backingBar
  BY <1>3, ChargeBacks
<1>5. QED
  BY <1>4, BarsStay, CollectedStays DEF CommitFailed, Finish

LEMMA LaterMoves ==
    ASSUME ChargesInv, ChargesInv', LaterStep
    PROVE  Promised!CollectedNext
<1>1. PICK b \in Bookings : hold[b] # NoHold /\ EscrowStep(b) /\ UNCHANGED intentVars
  BY DEF LaterStep
<1>2. IInv /\ IInv' /\ Operation(b) /\ LaterOperation(b)
  BY <1>1, RequestCentsAssumption
     DEF ChargesInv, Operation, EscrowStep, LaterOperation, Capture
<1>3. Funds!GiveBack(b) \/ Funds!Dispute(b) \/ Funds!Settle(b)
  BY <1>2, LaterRefines
<1>4. Promised!GiveBack(b) \/ Promised!Dispute(b) \/ Promised!Settle(b)
  BY <1>3, Zenon DEF Funds!GiveBack, Funds!Dispute, Funds!Settle,
                     Promised!GiveBack, Promised!Dispute, Promised!Settle
<1>5. UNCHANGED Promised!checkoutVars
  BY <1>1, BarsStay DEF intentVars, Promised!checkoutVars
<1>6. QED
  BY <1>4, <1>5, Zenon DEF Promised!Later, Promised!CollectedNext

LEMMA CheckoutMoves ==
    ASSUME ChargesInv, ChargesInv', QuotesKept, [IntentsNext]_intentsVars
    PROVE  [Promised!CollectedNext]_<<Promised!vars, Promised!checkoutVars>>
<1>1. ASSUME NEW b \in Bookings, CreateIntent(b)
      PROVE  UNCHANGED <<Promised!vars, Promised!checkoutVars>>
  BY <1>1, BarsStay, CollectedStays DEF CreateIntent
<1>2. ASSUME NEW l \in Locks,
             \/ \E b \in Bookings : LockReads(l, b)
             \/ \E rate \in Rates : LockQuotes(l, rate)
      PROVE  UNCHANGED <<Promised!vars, Promised!checkoutVars>>
  BY <1>2, BarsStay, CollectedStays DEF LockReads, LockQuotes, escrowVars
<1>3. ASSUME NEW n \in Itns,
             \/ \E pf \in PfPayments, status \in ItnStatuses : ItnReads(n, pf, status)
             \/ CommitNothing(n)
      PROVE  UNCHANGED <<Promised!vars, Promised!checkoutVars>>
  BY <1>3, BarsStay, CollectedStays DEF ItnReads, CommitNothing, Finish, escrowVars
<1>4. CASE UNCHANGED intentsVars
  BY <1>4, BarsStay, CollectedStays DEF intentsVars, intentVars, escrowVars
<1>5. QED
  BY <1>1, <1>2, <1>3, <1>4, LockOffers, PayNotCollected, CompletionCollects, CommitOpens,
     FailureBacksNothing, LaterMoves DEF IntentsNext, Commit

LEMMA CheckoutStarts == IntentsInit => Promised!CollectedInit
<1> SUFFICES ASSUME IntentsInit PROVE Promised!CollectedInit
  OBVIOUS
<1>1. Funds!Init
  BY InitRefines DEF IntentsInit
<1>2. Promised!Init
  BY <1>1, Zenon DEF Funds!Init, Promised!Init
<1>3. collectedBar = [p \in PfPayments |-> Promised!NotCollected]
  BY DEF IntentsInit, NoPayment, collectedBar, Promised!NotCollected
<1>4. backingBar = [b \in Bookings |-> {}]
  BY DEF IntentsInit, backingBar, Rows
<1>5. QED
  BY <1>2, <1>3, <1>4 DEF IntentsInit, Promised!CollectedInit

\* The checkout implements CollectedFunds, for any bookings and rates and any number of
\* racing locks, payments and ITNs: stale reads, repeated and late ITNs and locks at another
\* rate never open a pot twice, without a completed payment, or with other cents than it paid.
THEOREM CheckoutImplements == IntentsSpec => ImplementsCollectedFunds
<1>1. ChargesInv /\ ChargesInv' /\ QuotesKept /\ [IntentsNext]_intentsVars =>
        [Promised!CollectedNext]_<<Promised!vars, Promised!checkoutVars>>
  BY CheckoutMoves
<1>2. IntentsSpec => []ChargesInv /\ []QuotesKept
  BY ChargesAlwaysAccounted, PTL DEF IntentsInv
<1>3. QED
  BY <1>1, <1>2, CheckoutStarts, PTL
     DEF IntentsSpec, ImplementsCollectedFunds, Promised!CollectedSpec
=============================================================================
