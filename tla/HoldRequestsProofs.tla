------------------------- MODULE HoldRequestsProofs -------------------------
(***************************************************************************)
(* Proofs about the two ways an admin meets the holds.  HoldRequests, for  *)
(* any bookings, requests, keys and bodies: what an admin is told was      *)
(* done, at once or by a replay, stays done.  HoldListing, for any holds,  *)
(* filters and size of a page: the pages of the list are complete.         *)
(***************************************************************************)
EXTENDS HoldRequests, HoldListing, EscrowProofs

LEMMA ReplyStandsOn ==
    ASSUME NEW reply \in HoldRow, NEW row \in HoldRow, NEW next \in HoldRow,
           Stands(reply, row), row # NoHold, Evolves(row, next)
    PROVE  Stands(reply, next) /\ next # NoHold
  BY DEF Stands, Evolves, HoldRow

LEMMA RowStands ==
    ASSUME NEW row \in HoldRow
    PROVE  Stands(row, row)
  BY DEF Stands, HoldRow

LEMMA RequestType ==
    ASSUME RequestsInv, NEW r \in Requests
    PROVE  /\ request[r] \in RequestRow
           /\ request[r].pc \in {"waiting", "over", "working"} \cup Served
           /\ request[r].pc = "working" => request[r].ask \in Asks
           /\ request[r].pc \in Served =>
                 request[r].ask \in Asks /\ request[r].response \in HoldRow
  BY DEF RequestsInv, RequestRow, Waiting, Over, Served

\* A reply of a request that does nothing.
LEMMA ReplyStays ==
    ASSUME RequestsInv, IInv', NEW r \in Requests, request'[r] = request[r],
           \A b \in Bookings : Evolves(hold[b], hold'[b])
    PROVE  Replied(r)'
<1>1. Replied(r)
  BY DEF RequestsInv
<1>2. CASE request[r].pc \in Served
  <2>1. request[r].ask.hold \in Bookings /\ request[r].response \in HoldRow
    BY <1>2, RequestType, AsksAssumption
  <2>2. hold \in [Bookings -> HoldRow] /\ hold' \in [Bookings -> HoldRow]
    BY DEF RequestsInv, IInv, TypeOK
  <2>3. /\ Stands(request[r].response, hold'[request[r].ask.hold])
        /\ hold'[request[r].ask.hold] # NoHold
    BY <1>1, <1>2, <2>1, <2>2, ReplyStandsOn DEF Replied
  <2>4. QED
    BY <1>1, <2>3 DEF Replied
<1>3. CASE request[r].pc \notin Served
  BY <1>3 DEF Replied, Served
<1>4. QED
  BY <1>2, <1>3

-----------------------------------------------------------------------------
(***************************************************************************)
(* A step of a request that is not over, in general.                       *)
(***************************************************************************)

Entry(state) == [stored |-> TRUE, body |-> state.ask.body, response |-> state.response]

LEMMA RequestStepInv ==
    ASSUME RequestsInv, IInv',
           \A b \in Bookings : Evolves(hold[b], hold'[b]),
           NEW r \in Requests, NEW state \in RequestRow, Become(r, state),
           request[r].pc \notin {"answered", "replayed"},
           state.pc \in Served =>
              /\ hold'[state.ask.hold] # NoHold
              /\ Stands(state.response, hold'[state.ask.hold]),
           state.pc = "worked" => state.ask.key # NoKey,
           state.pc = "replayed" =>
              \E q \in Answered(state.ask.key) :
                 /\ request[q].ask.body = state.ask.body
                 /\ request[q].response = state.response,
           DOMAIN entry' = Keys,
           \A key \in Keys :
              IF state.pc = "answered" /\ state.ask.key = key
              THEN entry'[key] = Entry(state)
              ELSE entry'[key] = entry[key],
           expired' = expired
    PROVE  RequestsInv'
<1>1. /\ request' \in [Requests -> RequestRow]
      /\ request'[r] = state
      /\ \A q \in Requests \ {r} : request'[q] = request[q]
  BY DEF RequestsInv, Become
<1>2. \A q \in Requests : request[q].pc = "answered" => request'[q] = request[q]
  BY <1>1
<1>3. ASSUME NEW q \in Requests
      PROVE  Replied(q)'
  <2>1. CASE q = r
    BY <1>1, <2>1 DEF Replied
  <2>2. CASE q # r
    BY <1>1, <2>2, ReplyStays
  <2>3. QED
    BY <2>1, <2>2
<1>4. ASSUME NEW key \in Keys
      PROVE  Kept(key)'
  <2>1. Kept(key)
    BY DEF RequestsInv
  <2>2. CASE state.pc = "answered" /\ state.ask.key = key
    <3>1. entry'[key] = Entry(state) /\ request'[r] = state
      BY <1>1, <2>2
    <3>2. entry'[key] # NoEntry
      BY <3>1 DEF Entry, NoEntry
    <3>3. entry'[key] = [stored   |-> TRUE,
                         body     |-> request'[r].ask.body,
                         response |-> request'[r].response]
      BY <3>1 DEF Entry
    <3>4. QED
      BY <2>2, <3>1, <3>2, <3>3 DEF Kept, Answered
  <2>3. CASE ~(state.pc = "answered" /\ state.ask.key = key)
    <3>1. entry'[key] = entry[key]
      BY <2>3
    <3>2. \A q \in Requests : q \in Answered(key)' <=> q \in Answered(key)
      BY <1>1, <2>3 DEF Answered
    <3>3. Answered(key)' = Answered(key)
      BY <3>2 DEF Answered
    <3>4. \A q \in Answered(key) : request'[q] = request[q]
      BY <1>2 DEF Answered
    <3>5. QED
      BY <2>1, <3>1, <3>3, <3>4 DEF Kept
  <2>4. QED
    BY <2>2, <2>3
<1>5. ReplayIsEarned'
  <2> SUFFICES ASSUME NEW q \in Requests, request'[q].pc = "replayed"
               PROVE  \E p \in Requests :
                         /\ request'[p].pc = "answered"
                         /\ request'[p].ask.key = request'[q].ask.key
                         /\ request'[p].ask.body = request'[q].ask.body
                         /\ request'[p].response = request'[q].response
    BY DEF ReplayIsEarned, Answered
  <2>1. CASE q = r
    BY <1>1, <1>2, <2>1 DEF Answered
  <2>2. CASE q # r
    <3>1. request'[q] = request[q]
      BY <1>1, <2>2
    <3>2. QED
      BY <1>2, <3>1 DEF RequestsInv, ReplayIsEarned, Answered
  <2>3. QED
    BY <2>1, <2>2
<1>6. QED
  BY <1>1, <1>3, <1>4, <1>5 DEF RequestsInv

\* The requests stay while the holds move on.
LEMMA RequestsStay ==
    ASSUME RequestsInv, IInv', UNCHANGED idempotencyVars,
           \A b \in Bookings : Evolves(hold[b], hold'[b])
    PROVE  RequestsInv'
<1>1. UNCHANGED <<request, entry, expired>>
  BY DEF idempotencyVars
<1>2. \A r \in Requests : Replied(r)'
  BY <1>1, ReplyStays
<1>3. ASSUME NEW key \in Keys
      PROVE  Kept(key)'
  <2>1. Kept(key) /\ Answered(key)' = Answered(key)
    BY <1>1 DEF RequestsInv, Answered
  <2>2. QED
    BY <1>1, <2>1 DEF Kept
<1>4. ReplayIsEarned'
  BY <1>1 DEF RequestsInv, ReplayIsEarned, Answered
<1>5. QED
  BY <1>1, <1>2, <1>3, <1>4 DEF RequestsInv

LEMMA HoldsStay ==
    ASSUME RequestsInv, UNCHANGED escrowVars
    PROVE  IInv' /\ \A b \in Bookings : Evolves(hold[b], hold'[b])
<1>1. IInv'
  BY StutterInv DEF RequestsInv
<1>2. hold' = hold
  BY DEF escrowVars
<1>3. ASSUME NEW b \in Bookings
      PROVE  Evolves(hold[b], hold'[b])
  <2>1. hold[b] \in HoldRow
    BY DEF RequestsInv, IInv, TypeOK
  <2>2. QED
    BY <1>2, <2>1 DEF HoldRow, Evolves
<1>4. QED
  BY <1>1, <1>3

-----------------------------------------------------------------------------
(***************************************************************************)
(* The steps, one by one.                                                  *)
(***************************************************************************)

\* The work of a request: an operation on its hold, answered with the row it left.
LEMMA ServeInv ==
    ASSUME RequestsInv, NEW r \in Requests, NEW b \in Bookings,
           request[r].pc = "working", b = request[r].ask.hold,
           Operation(b), hold[b] # NoHold,
           WorkReturns(r, hold'[b])
    PROVE  RequestsInv'
<1> DEFINE ask == request[r].ask
           state == [pc       |-> IF ask.key = NoKey THEN "answered" ELSE "worked",
                     ask      |-> ask,
                     response |-> hold'[b]]
<1>1. IInv /\ IInv' /\ \A c \in Bookings : Evolves(hold[c], hold'[c])
  BY OperationInv, OperationEvolves DEF RequestsInv
<1>2. ask \in Asks /\ hold'[b] \in HoldRow
  BY <1>1, RequestType DEF IInv, TypeOK
<1>3. state \in RequestRow
  BY <1>2 DEF RequestRow, Served
<1>4. /\ state.pc = IF ask.key = NoKey THEN "answered" ELSE "worked"
      /\ state.ask = ask
      /\ state.response = hold'[b]
  OBVIOUS
<1>5. Become(r, state) /\ UNCHANGED <<entry, expired>>
  BY DEF WorkReturns
<1> HIDE DEF state
<1>6. /\ hold'[state.ask.hold] # NoHold
      /\ Stands(state.response, hold'[state.ask.hold])
  BY <1>1, <1>2, <1>4, RowStands DEF Evolves
<1>7. state.pc = "worked" => state.ask.key # NoKey
  BY <1>4
<1>8. \A key \in Keys : ~(state.pc = "answered" /\ state.ask.key = key)
  BY <1>4 DEF Keys
<1>9. state.pc # "replayed" /\ DOMAIN entry' = Keys
  BY <1>4, <1>5 DEF RequestsInv
<1>10. QED
  BY <1>1, <1>3, <1>5, <1>6, <1>7, <1>8, <1>9, RequestStepInv

\* The work of a request is one of the operations on the hold its path names.
LEMMA WorkOperates ==
    ASSUME RequestsInv, NEW r \in Requests,
           \/ ReleaseHold(r)
           \/ RefundHold(r)
           \/ PartialRefundHold(r)
           \/ FreezeHold(r)
           \/ ResolveHoldRelease(r)
           \/ ResolveHoldRefund(r)
           \/ ResolveHoldSplit(r)
    PROVE  LET b == request[r].ask.hold IN
           /\ request[r].pc = "working" /\ WorkReturns(r, hold'[b])
           /\ request[r].ask \in Asks /\ b \in Bookings
           /\ \/ Release(b)
              \/ \E fault \in FaultParties : Refund(b, fault)
              \/ \E cents \in RequestCents, fault \in FaultParties : PartialRefund(b, cents, fault)
              \/ Freeze(b)
              \/ ResolveRelease(b)
              \/ ResolveRefund(b)
              \/ \E artist, client \in RequestCents : ResolveSplit(b, artist, client)
<1>1. PICK b : b = request[r].ask.hold
  OBVIOUS
<1>2. request[r].pc = "working" /\ WorkReturns(r, hold'[b])
  BY <1>1 DEF ReleaseHold, RefundHold, PartialRefundHold, FreezeHold, ResolveHoldRelease,
              ResolveHoldRefund, ResolveHoldSplit, Serve
<1>3. request[r].ask \in Asks /\ b \in Bookings
  BY <1>1, <1>2, RequestType, AsksAssumption
<1> DEFINE body == request[r].ask.body
           endpoint == request[r].ask.endpoint
<1>4. body \in Bodies(endpoint)
  BY <1>3, AsksAssumption
<1>5. \/ Release(b)
      \/ \E fault \in FaultParties : Refund(b, fault)
      \/ \E cents \in RequestCents, fault \in FaultParties : PartialRefund(b, cents, fault)
      \/ Freeze(b)
      \/ ResolveRelease(b)
      \/ ResolveRefund(b)
      \/ \E artist, client \in RequestCents : ResolveSplit(b, artist, client)
  <2>1. CASE RefundHold(r)
    <3>1. endpoint = "refund" /\ Refund(b, FaultOf(body))
      BY <1>1, <2>1 DEF RefundHold, Serve
    <3>2. FaultOf(body) \in FaultParties
      BY <1>4, <3>1 DEF Bodies, FaultOf, OptionalFault, FaultParties
    <3>3. QED
      BY <3>1, <3>2
  <2>2. CASE PartialRefundHold(r)
    <3>1. /\ endpoint = "partial-refund"
          /\ PartialRefund(b, body.amountCents, FaultOf(body))
      BY <1>1, <2>2 DEF PartialRefundHold, Serve
    <3>2. body \in [amountCents : (RequestCents \cap Nat) \ {0}, faultParty : OptionalFault]
      BY <1>4, <3>1 DEF Bodies
    <3>3. body.amountCents \in RequestCents /\ FaultOf(body) \in FaultParties
      BY <3>2 DEF FaultOf, OptionalFault, FaultParties
    <3>4. QED
      BY <3>1, <3>3
  <2>3. CASE ResolveHoldSplit(r)
    <3>1. /\ endpoint = "resolve-split"
          /\ ResolveSplit(b, body.artistCents, body.clientCents)
      BY <1>1, <2>3 DEF ResolveHoldSplit, Serve
    <3>2. body \in [artistCents : RequestCents \cap Nat, clientCents : RequestCents \cap Nat]
      BY <1>4, <3>1 DEF Bodies
    <3>3. QED
      BY <3>1, <3>2
  <2>4. QED
    BY <1>1, <2>1, <2>2, <2>3
       DEF ReleaseHold, FreezeHold, ResolveHoldRelease, ResolveHoldRefund, Serve
<1>6. QED
  BY <1>1, <1>2, <1>3, <1>5

LEMMA WorkInv ==
    ASSUME RequestsInv, NEW r \in Requests,
           \/ ReleaseHold(r)
           \/ RefundHold(r)
           \/ PartialRefundHold(r)
           \/ FreezeHold(r)
           \/ ResolveHoldRelease(r)
           \/ ResolveHoldRefund(r)
           \/ ResolveHoldSplit(r)
    PROVE  RequestsInv'
<1>1. PICK b : b = request[r].ask.hold
  OBVIOUS
<1>2. request[r].pc = "working" /\ WorkReturns(r, hold'[b])
  BY <1>1, WorkOperates
<1>3. request[r].ask \in Asks /\ b \in Bookings
  BY <1>1, WorkOperates
<1>4. \/ Release(b)
      \/ \E fault \in FaultParties : Refund(b, fault)
      \/ \E cents \in RequestCents, fault \in FaultParties : PartialRefund(b, cents, fault)
      \/ Freeze(b)
      \/ ResolveRelease(b)
      \/ ResolveRefund(b)
      \/ \E artist, client \in RequestCents : ResolveSplit(b, artist, client)
  BY <1>1, WorkOperates
<1>5. Operation(b) /\ IInv
  BY <1>4 DEF Operation, EscrowStep, RequestsInv
<1>6. hold[b] # NoHold
  <2>1. CASE \E cents \in RequestCents, fault \in FaultParties : PartialRefund(b, cents, fault)
    BY <1>3, <1>5, <2>1, PartialRefundEvolves, RequestCentsAssumption
  <2>2. CASE \E act \in EscrowActions : MoveHold(b, act)
    BY <1>3, <1>5, <2>2, MoveEvolves
  <2>3. QED
    BY <1>4, <2>1, <2>2
       DEF Release, Refund, Freeze, ResolveRelease, ResolveRefund, ResolveSplit, EscrowActions
<1>7. QED
  BY <1>1, <1>2, <1>3, <1>5, <1>6, ServeInv

LEMMA LookUpInv ==
    ASSUME RequestsInv, NEW r \in Requests, NEW ask \in Asks, LookUp(r, ask), UNCHANGED escrowVars
    PROVE  RequestsInv'
<1> DEFINE state == IF Stored(ask) = NoEntry THEN [pc |-> "working", ask |-> ask]
                    ELSE IF Stored(ask).body # ask.body THEN Over
                    ELSE [pc |-> "replayed", ask |-> ask, response |-> Stored(ask).response]
<1>1. /\ request[r] = Waiting
      /\ Become(r, state)
      /\ UNCHANGED <<entry, expired>>
  BY DEF LookUp
<1>2. /\ IInv'
      /\ \A b \in Bookings : Evolves(hold[b], hold'[b])
      /\ hold' = hold
  BY HoldsStay DEF escrowVars
<1>3. request[r].pc \notin {"answered", "replayed"} /\ DOMAIN entry' = Keys
  BY <1>1 DEF Waiting, RequestsInv
<1>4. CASE ~(Stored(ask) # NoEntry /\ Stored(ask).body = ask.body)
  <2>1. state \in RequestRow /\ state.pc \in {"working", "over"}
    BY <1>4 DEF RequestRow, Over
  <2> HIDE DEF state
  <2>2. state.pc \notin Served
    BY <2>1 DEF Served
  <2>3. QED
    BY <1>1, <1>2, <1>3, <2>1, <2>2, RequestStepInv DEF Served
<1>5. CASE Stored(ask) # NoEntry /\ Stored(ask).body = ask.body
  <2>1. ask.key \in Keys /\ entry[ask.key] # NoEntry /\ Stored(ask) = entry[ask.key]
    BY <1>5 DEF Stored, Keys
  <2>2. PICK q \in Answered(ask.key) :
           entry[ask.key] = [stored   |-> TRUE,
                             body     |-> request[q].ask.body,
                             response |-> request[q].response]
    BY <2>1 DEF RequestsInv, Kept
  <2>3. /\ state.pc = "replayed"
        /\ state.ask = ask
        /\ state.response = request[q].response
        /\ request[q].ask.body = ask.body
    BY <1>5, <2>1, <2>2
  <2>4. /\ q \in Requests
        /\ request[q].pc = "answered"
        /\ request[q].ask.key = ask.key
    BY DEF Answered
  <2>5. request[q].ask \in Asks /\ request[q].response \in HoldRow
    BY <2>4, RequestType DEF Served
  <2>6. request[q].ask.hold = ask.hold
    BY <2>1, <2>4, <2>5, AsksAssumption DEF Keys
  <2>7. state \in RequestRow
    BY <1>5, <2>1, <2>2, <2>5 DEF RequestRow, Served
  <2> HIDE DEF state
  <2>8. /\ hold'[state.ask.hold] # NoHold
        /\ Stands(state.response, hold'[state.ask.hold])
    BY <1>2, <2>3, <2>4, <2>6 DEF RequestsInv, Replied, Served
  <2>9. \E p \in Answered(state.ask.key) :
           /\ request[p].ask.body = state.ask.body
           /\ request[p].response = state.response
    BY <2>2, <2>3
  <2>10. QED
    BY <1>1, <1>2, <1>3, <2>3, <2>7, <2>8, <2>9, RequestStepInv
<1>6. QED
  BY <1>4, <1>5

LEMMA StoreInv ==
    ASSUME RequestsInv, NEW r \in Requests, Store(r), UNCHANGED escrowVars
    PROVE  RequestsInv'
<1> DEFINE state == [request[r] EXCEPT !.pc = "answered"]
<1>1. /\ request[r].pc = "worked"
      /\ Become(r, state)
      /\ entry' = [entry EXCEPT ![request[r].ask.key] =
                      [stored   |-> TRUE,
                       body     |-> request[r].ask.body,
                       response |-> request[r].response]]
      /\ expired' = expired
  BY DEF Store
<1>2. /\ IInv'
      /\ \A b \in Bookings : Evolves(hold[b], hold'[b])
      /\ hold' = hold
  BY HoldsStay DEF escrowVars
<1>3. /\ request[r].ask \in Asks
      /\ request[r].ask.key \in Keys
      /\ hold[request[r].ask.hold] # NoHold
      /\ Stands(request[r].response, hold[request[r].ask.hold])
  BY <1>1, RequestType DEF RequestsInv, Replied, Served, Keys
<1>4. request[r] \in [pc : Served, ask : Asks, response : HoldRow]
  BY <1>1, RequestType DEF RequestRow, Waiting, Over
<1>5. /\ state \in RequestRow
      /\ state.pc = "answered"
      /\ state.ask = request[r].ask
      /\ state.response = request[r].response
  BY <1>4 DEF RequestRow, Served
<1> HIDE DEF state
<1>6. DOMAIN entry' = Keys
  BY <1>1 DEF RequestsInv
<1>7. ASSUME NEW key \in Keys
      PROVE  IF state.pc = "answered" /\ state.ask.key = key
             THEN entry'[key] = Entry(state)
             ELSE entry'[key] = entry[key]
  BY <1>1, <1>3, <1>5 DEF RequestsInv, Entry
<1>8. QED
  BY <1>1, <1>2, <1>3, <1>5, <1>6, <1>7, RequestStepInv

\* Refused, aborted or cut off.
LEMMA OverInv ==
    ASSUME RequestsInv, NEW r \in Requests, Become(r, Over), UNCHANGED <<entry, expired>>,
           request[r].pc \notin {"answered", "replayed"}, UNCHANGED escrowVars
    PROVE  RequestsInv'
<1>1. Over \in RequestRow /\ Over.pc \notin Served
  BY DEF RequestRow, Over, Served
<1>2. QED
  BY <1>1, HoldsStay, RequestStepInv DEF RequestsInv, Served

LEMMA ExpireInv ==
    ASSUME RequestsInv, NEW key \in Keys, Expire(key), UNCHANGED escrowVars
    PROVE  RequestsInv'
<1>1. /\ entry' = [entry EXCEPT ![key] = NoEntry]
      /\ expired' = expired \cup {key}
      /\ request' = request
  BY DEF Expire
<1>2. \A r \in Requests : Replied(r)'
  BY <1>1, HoldsStay, ReplyStays
<1>3. ASSUME NEW k \in Keys
      PROVE  Kept(k)'
  <2>1. Kept(k) /\ Answered(k)' = Answered(k)
    BY <1>1 DEF RequestsInv, Answered
  <2>2. CASE k = key
    BY <1>1, <2>1, <2>2 DEF Kept, RequestsInv
  <2>3. CASE k # key
    <3>1. entry'[k] = entry[k] /\ (k \in expired => k \in expired')
      BY <1>1, <2>3 DEF RequestsInv
    <3>2. QED
      BY <1>1, <2>1, <3>1 DEF Kept
  <2>4. QED
    BY <2>2, <2>3
<1>4. ReplayIsEarned'
  BY <1>1 DEF RequestsInv, ReplayIsEarned, Answered
<1>5. QED
  BY <1>1, <1>2, <1>3, <1>4, HoldsStay DEF RequestsInv

LEMMA OtherRoutesInv ==
    ASSUME RequestsInv, OtherRoutes
    PROVE  RequestsInv'
<1>1. PICK b \in Bookings : EscrowStep(b)
  BY DEF OtherRoutes, Next
<1>2. Operation(b) /\ IInv
  BY <1>1 DEF Operation, RequestsInv
<1>3. IInv' /\ \A c \in Bookings : Evolves(hold[c], hold'[c])
  BY <1>2, OperationInv, OperationEvolves
<1>4. QED
  BY <1>3, RequestsStay DEF OtherRoutes

-----------------------------------------------------------------------------

LEMMA RequestsInitInv == RequestsInit => RequestsInv
<1> SUFFICES ASSUME RequestsInit
             PROVE  RequestsInv
  OBVIOUS
<1>1. /\ IInv
      /\ request = [r \in Requests |-> Waiting]
      /\ entry = [key \in Keys |-> NoEntry]
  BY InitInv DEF RequestsInit, IdempotencyInit
<1>2. \A r \in Requests : request[r].pc = "waiting"
  BY <1>1 DEF Waiting
<1>3. /\ \A r \in Requests : Replied(r)
      /\ ReplayIsEarned
      /\ \A key \in Keys : Answered(key) = {}
  BY <1>2 DEF Replied, ReplayIsEarned, Answered, Served
<1>4. QED
  BY <1>1, <1>3 DEF RequestsInv, RequestRow, Kept

LEMMA RequestsNextInv == RequestsInv /\ [RequestsNext]_requestsVars => RequestsInv'
<1> SUFFICES ASSUME RequestsInv, [RequestsNext]_requestsVars
             PROVE  RequestsInv'
  OBVIOUS
<1>1. CASE \E r \in Requests, ask \in Asks : LookUp(r, ask) /\ UNCHANGED escrowVars
  BY <1>1, LookUpInv
<1>2. ASSUME NEW r \in Requests,
             \/ ReleaseHold(r)
             \/ RefundHold(r)
             \/ PartialRefundHold(r)
             \/ FreezeHold(r)
             \/ ResolveHoldRelease(r)
             \/ ResolveHoldRefund(r)
             \/ ResolveHoldSplit(r)
      PROVE  RequestsInv'
  BY <1>2, WorkInv
<1>3. CASE \E r \in Requests : RequestFails(r)
  BY <1>3, OverInv DEF RequestFails, WorkThrows
<1>4. CASE \E r \in Requests : Store(r) /\ UNCHANGED escrowVars
  BY <1>4, StoreInv
<1>5. CASE \E r \in Requests : Die(r) /\ UNCHANGED escrowVars
  BY <1>5, OverInv DEF Die
<1>6. CASE \E key \in Keys : Expire(key) /\ UNCHANGED escrowVars
  BY <1>6, ExpireInv
<1>7. CASE OtherRoutes
  BY <1>7, OtherRoutesInv
<1>8. CASE UNCHANGED requestsVars
  BY <1>8, HoldsStay, RequestsStay DEF requestsVars
<1>9. QED
  BY <1>1, <1>2, <1>3, <1>4, <1>5, <1>6, <1>7, <1>8 DEF RequestsNext, RequestStep

\* Every response that was made or stored stands, and every entry comes from a request
\* that was answered with it, whatever overlaps, expires or is cut off.
THEOREM RepliesAccounted == RequestsSpec => []RequestsInv
<1>1. RequestsSpec => []RequestsInv
  BY RequestsInitInv, RequestsNextInv, PTL DEF RequestsSpec
<1>2. QED
  BY <1>1

\* A response, given at once or replayed a day later, tells the admin what is still so:
\* it was earned by the same key and body, and what it says was done stays done.
THEOREM RepliesAlwaysStand == RequestsSpec => []RepliesStand
<1>1. RequestsInv => RepliesStand
  BY DEF RequestsInv, RepliesStand, Replied, Served
<1>2. QED
  BY <1>1, RepliesAccounted, PTL

\* Once a request was answered, and until an entry of its key expires, no request that
\* looks up the key goes to work.
THEOREM WorkDoneOnce == RequestsSpec => AnsweredIsRemembered
<1> DEFINE Step == \A r \in Requests :
                      request[r] = Waiting /\ request'[r].pc = "working" =>
                          LET key == request'[r].ask.key IN
                          key = NoKey \/ key \in expired \/ Answered(key) = {}
<1>1. RequestsInv /\ [RequestsNext]_requestsVars => [Step]_idempotencyVars
  <2> SUFFICES ASSUME RequestsInv, RequestsNext, NEW r \in Requests,
                      request[r] = Waiting, request'[r].pc = "working",
                      request'[r].ask.key # NoKey, request'[r].ask.key \notin expired
               PROVE  Answered(request'[r].ask.key) = {}
    BY DEF requestsVars
  <2>1. request[r].pc = "waiting" /\ request'[r] # request[r]
    BY DEF Waiting
  <2>2. PICK ask \in Asks : LookUp(r, ask)
    <3>1. ASSUME NEW q \in Requests, q # r, NEW state, Become(q, state)
          PROVE  request'[r] = request[r]
      BY <3>1 DEF Become, RequestsInv
    <3>2. ASSUME NEW state, Become(r, state)
          PROVE  request'[r] = state
      BY <3>2 DEF Become, RequestsInv
    <3>3. Over.pc = "over"
      BY DEF Over
    <3>4. QED
      BY <2>1, <3>1, <3>2, <3>3
         DEF RequestsNext, RequestStep, OtherRoutes, idempotencyVars, LookUp, ReleaseHold,
             RefundHold, PartialRefundHold, FreezeHold, ResolveHoldRelease, ResolveHoldRefund,
             ResolveHoldSplit, Serve, RequestFails, WorkReturns, WorkThrows, Store, Die, Expire
  <2>3. request'[r] = IF Stored(ask) = NoEntry THEN [pc |-> "working", ask |-> ask]
                      ELSE IF Stored(ask).body # ask.body THEN Over
                      ELSE [pc |-> "replayed", ask |-> ask, response |-> Stored(ask).response]
    BY <2>2 DEF LookUp, Become, RequestsInv
  <2>4. Stored(ask) = NoEntry /\ request'[r].ask = ask
    BY <2>3 DEF Over
  <2>5. ask.key \in Keys /\ entry[ask.key] = NoEntry
    BY <2>4 DEF Stored, Keys
  <2>6. QED
    BY <2>4, <2>5 DEF RequestsInv, Kept
<1>2. QED
  BY <1>1, RepliesAccounted, PTL DEF RequestsSpec, AnsweredIsRemembered

-----------------------------------------------------------------------------
(***************************************************************************)
(* The list of holds: the order of the rows and the page cut from them.    *)
(***************************************************************************)

\* a comes before b in the list.
Before(a, b) == created[a] > created[b] \/ (created[a] = created[b] /\ IdOf(a) > IdOf(b))

LEMMA ListOrder ==
    ASSUME WalkTypeOK
    PROVE  /\ \A a, b \in Bookings : a = b \/ Before(a, b) \/ Before(b, a)
           /\ \A a, b \in Bookings : Before(a, b) => ~Before(b, a)
           /\ \A a, b, c \in Bookings : Before(a, b) /\ Before(b, c) => Before(a, c)
           /\ \A a, b \in Bookings : After(b, created[a], IdOf(a)) <=> Before(a, b)
<1>1. /\ \A b \in Bookings : created[b] \in Nat /\ IdOf(b) \in Nat
      /\ \A a, b \in Bookings : IdOf(a) = IdOf(b) => a = b
  <2>1. Times \cup {0} \subseteq Nat
    BY ListingAssumption
  <2>2. \A b \in Bookings : created[b] \in Nat
    BY <2>1 DEF WalkTypeOK
  <2>3. \A b \in Bookings : IdOf(b) \in Nat
    BY ListingAssumption
  <2>4. \A a, b \in Bookings : IdOf(a) = IdOf(b) => a = b
    BY ListingAssumption
  <2>5. QED
    BY <2>2, <2>3, <2>4
<1>2. ASSUME NEW a \in Bookings, NEW b \in Bookings
      PROVE  /\ a = b \/ Before(a, b) \/ Before(b, a)
             /\ Before(a, b) => ~Before(b, a)
             /\ After(b, created[a], IdOf(a)) <=> Before(a, b)
  <2>1. /\ created[a] \in Nat /\ created[b] \in Nat /\ IdOf(a) \in Nat /\ IdOf(b) \in Nat
        /\ IdOf(a) = IdOf(b) => a = b
    BY <1>1
  <2>2. QED
    BY <2>1 DEF Before, After
<1>3. ASSUME NEW a \in Bookings, NEW b \in Bookings, NEW c \in Bookings,
             Before(a, b), Before(b, c)
      PROVE  Before(a, c)
  <2>1. /\ created[a] \in Nat /\ created[b] \in Nat /\ created[c] \in Nat
        /\ IdOf(a) \in Nat /\ IdOf(b) \in Nat /\ IdOf(c) \in Nat
    BY <1>1
  <2>2. QED
    BY <1>3, <2>1 DEF Before
<1>4. QED
  BY <1>2, <1>3

LEMMA NewerRows ==
    ASSUME NEW rows \in SUBSET Bookings
    PROVE  /\ \A b : Newer(b, rows) = {a \in rows : Before(a, b)}
           /\ \A b : IsFiniteSet(Newer(b, rows)) /\ Cardinality(Newer(b, rows)) \in Nat
<1>1. IsFiniteSet(rows)
  BY ListingAssumption, FS_Subset
<1>2. ASSUME NEW b
      PROVE  /\ Newer(b, rows) = {a \in rows : Before(a, b)}
             /\ IsFiniteSet(Newer(b, rows)) /\ Cardinality(Newer(b, rows)) \in Nat
  <2>1. Newer(b, rows) = {a \in rows : Before(a, b)}
    BY DEF Newer, Before
  <2>2. Newer(b, rows) \subseteq rows
    BY <2>1
  <2>3. QED
    BY <1>1, <2>1, <2>2, FS_Subset, FS_CardinalityType
<1>3. QED
  BY <1>2

\* What comes earlier has fewer rows before it.
LEMMA EarlierHasFewer ==
    ASSUME WalkTypeOK, NEW rows \in SUBSET Bookings, NEW a \in rows, NEW b \in rows, Before(a, b)
    PROVE  Cardinality(Newer(a, rows)) < Cardinality(Newer(b, rows))
<1> DEFINE early == Newer(a, rows)
           late  == Newer(b, rows)
<1>1. /\ early = {c \in rows : Before(c, a)} /\ late = {c \in rows : Before(c, b)}
      /\ IsFiniteSet(late) /\ Cardinality(early) \in Nat /\ Cardinality(late) \in Nat
  BY NewerRows
<1>2. early \subseteq late
  <2> SUFFICES ASSUME NEW c \in early PROVE c \in late
    OBVIOUS
  <2>1. c \in rows /\ Before(c, a) /\ c \in Bookings /\ a \in Bookings /\ b \in Bookings
    BY <1>1
  <2>2. Before(c, b)
    BY <2>1, ListOrder
  <2>3. QED
    BY <1>1, <2>1, <2>2
<1>3. a \in late /\ a \notin early
  <2>1. a \in Bookings
    OBVIOUS
  <2>2. ~Before(a, a)
    BY <2>1, ListOrder
  <2>3. QED
    BY <1>1, <2>2
<1> HIDE DEF early, late
<1>4. Cardinality(early) <= Cardinality(late) /\ Cardinality(early) # Cardinality(late)
  BY <1>1, <1>2, <1>3, FS_Subset
<1>5. Cardinality(early) < Cardinality(late)
  BY <1>1, <1>4
<1>6. QED
  BY <1>5 DEF early, late

Page(rows) == {b \in rows : Cardinality(Newer(b, rows)) < Limit}

\* A page is the first rows, and it has a last one when rows are left.
LEMMA PageIsFirst ==
    ASSUME WalkTypeOK, NEW rows \in SUBSET Bookings
    PROVE  \A a \in Page(rows), b \in rows \ Page(rows) : Before(a, b)
<1> SUFFICES ASSUME NEW a \in Page(rows), NEW b \in rows \ Page(rows), ~Before(a, b)
             PROVE  FALSE
  OBVIOUS
<1>1. /\ a \in rows /\ b \in rows /\ a # b
      /\ Cardinality(Newer(a, rows)) < Limit /\ ~(Cardinality(Newer(b, rows)) < Limit)
  BY DEF Page
<1>2. Before(b, a)
  BY <1>1, ListOrder
<1> DEFINE m == Cardinality(Newer(a, rows))
           n == Cardinality(Newer(b, rows))
<1>3. n < m /\ m \in Nat /\ n \in Nat /\ m < Limit /\ ~(n < Limit)
  BY <1>1, <1>2, EarlierHasFewer, NewerRows
<1> HIDE DEF m, n
<1>4. QED
  BY <1>3, ListingAssumption

LEMMA PageHasLast ==
    ASSUME WalkTypeOK, NEW rows \in SUBSET Bookings, rows # Page(rows)
    PROVE  \E b \in Page(rows) : Page(rows) \subseteq Newer(b, rows) \cup {b}
<1> DEFINE count(b) == Cardinality(Newer(b, rows))
<1>1. /\ \A b : count(b) \in Nat
      /\ \A a, b \in rows : Before(a, b) => count(a) < count(b)
      /\ \A a, b \in rows : a = b \/ Before(a, b) \/ Before(b, a)
      /\ Limit \in Nat \ {0}
  BY NewerRows, EarlierHasFewer, ListOrder, ListingAssumption
<1>2. /\ Page(rows) = {b \in rows : count(b) < Limit}
      /\ \A b : Newer(b, rows) = {a \in rows : Before(a, b)}
  BY NewerRows DEF Page
<1>3. PICK other \in rows : TRUE
  BY DEF Page
<1>4. PICK first \in rows : \A b \in rows : count(first) <= count(b)
  <2> DEFINE T == {count(b) : b \in rows}
  <2>1. T \in SUBSET Nat /\ T # {}
    BY <1>1, <1>3
  <2> HIDE DEF T
  <2>2. PICK n \in T : \A m \in T : n <= m
    BY <2>1, LeastNumber
  <2>3. QED
    BY <2>2 DEF T
<1>5. first \in Page(rows)
  <2>1. ASSUME NEW a \in Newer(first, rows) PROVE FALSE
    <3>1. a \in rows /\ Before(a, first)
      BY <1>2
    <3>2. count(a) < count(first) /\ count(first) <= count(a)
          /\ count(a) \in Nat /\ count(first) \in Nat
      BY <1>1, <1>4, <3>1
    <3> HIDE DEF count
    <3>3. QED
      BY <3>2
  <2>2. Newer(first, rows) = {}
    BY <2>1
  <2>3. count(first) = 0
    BY <2>2, FS_EmptySet
  <2> HIDE DEF count
  <2>4. QED
    BY <1>1, <1>2, <2>3
<1>6. PICK last \in Page(rows) : \A b \in Page(rows) : count(b) <= count(last)
  <2> DEFINE T == {Limit - count(b) : b \in Page(rows)}
  <2> HIDE DEF count
  <2>1. \A b \in Page(rows) : Limit - count(b) \in Nat
    BY <1>1, <1>2
  <2>2. T \in SUBSET Nat /\ T # {}
    BY <1>5, <2>1
  <2> HIDE DEF T
  <2>3. PICK n \in T : \A m \in T : n <= m
    BY <2>2, LeastNumber
  <2>4. PICK b \in Page(rows) : n = Limit - count(b)
    BY <2>3 DEF T
  <2>5. ASSUME NEW a \in Page(rows) PROVE count(a) <= count(b)
    <3>1. Limit - count(b) <= Limit - count(a)
      BY <2>3, <2>4 DEF T
    <3>2. QED
      BY <1>1, <3>1
  <2>6. QED
    BY <2>5
<1> HIDE DEF count
<1>7. ASSUME NEW b \in Page(rows), b # last PROVE b \in Newer(last, rows)
  <2>1. b \in rows /\ last \in rows
    BY <1>2
  <2>2. ~Before(last, b)
    <3>1. count(b) <= count(last) /\ count(b) \in Nat /\ count(last) \in Nat
      BY <1>1, <1>6
    <3>2. Before(last, b) => count(last) < count(b)
      BY <1>1, <2>1
    <3>3. QED
      BY <3>1, <3>2
  <2>3. QED
    BY <1>1, <1>2, <1>7, <2>1, <2>2
<1>8. QED
  BY <1>7

-----------------------------------------------------------------------------

LEMMA ListingInitInv == ListingInit => ListingInv
<1> SUFFICES ASSUME ListingInit PROVE ListingInv
  OBVIOUS
<1>1. IInv /\ \A b \in Bookings : hold[b] = NoHold
  BY InitInv DEF ListingInit, Init
<1>2. created = [b \in Bookings |-> 0] /\ walk = NoWalk
  BY DEF ListingInit
<1>3. WalkTypeOK
  BY <1>2 DEF WalkTypeOK, NoWalk, NoCursor, AnyState
<1>4. WalkKept /\ PagesComplete
  BY <1>1, <1>2 DEF WalkKept, PagesComplete, NoWalk
<1>5. QED
  BY <1>1, <1>3, <1>4 DEF ListingInv

\* A hold never returns to a state it has left.
LEMMA NeverReturns ==
    ASSUME NEW row \in HoldRow, NEW next \in HoldRow, row # NoHold, Evolves(row, next),
           row.state = "ABSENT" => row = NoHold, next.state = "ABSENT" => next = NoHold,
           NEW state \in HoldStates,
           row.state \in {state} \cup LaterStates(state)
    PROVE  /\ next.state \in {state} \cup LaterStates(state)
           /\ next.state = state => row.state = state
<1>1. row.state \in HoldStates /\ next.state \in HoldStates
  BY DEF HoldRow, Evolves
<1>2. /\ next.state = "HELD" => row.state = "HELD"
      /\ row.state = "DISPUTED" => next.state \in {"DISPUTED", "RELEASED", "REFUNDED"}
      /\ row.state \in {"RELEASED", "REFUNDED"} => next.state = row.state
  BY DEF Evolves
<1>3. QED
  BY <1>1, <1>2 DEF LaterStates, HoldStates

LEMMA BooksStepListed ==
    ASSUME ListingInv, BooksStep
    PROVE  ListingInv'
<1>1. PICK b \in Bookings : EscrowStep(b)
  BY DEF BooksStep, Next
<1> DEFINE opened == {c \in Bookings : hold[c] = NoHold /\ hold'[c] # NoHold}
<1>2. IInv /\ WalkTypeOK /\ WalkKept /\ PagesComplete /\ walk' = walk
  BY DEF ListingInv, BooksStep
<1>3. IInv' /\ \A c \in Bookings : Evolves(hold[c], hold'[c])
  BY <1>1, <1>2, OperationInv, OperationEvolves DEF Operation
<1>4. PICK stamp \in [opened -> Times] :
         created' = [c \in Bookings |-> IF c \in opened THEN stamp[c] ELSE created[c]]
  BY DEF BooksStep
<1>5. /\ \A c \in Bookings : hold[c] # NoHold => hold'[c] # NoHold /\ created'[c] = created[c]
      /\ \A c \in Bookings : hold'[c] # NoHold => created'[c] # 0
      /\ created' \in [Bookings -> Times \cup {0}]
  <2>1. \A c \in opened : stamp[c] \in Times /\ stamp[c] # 0
    BY ListingAssumption
  <2>2. \A c \in Bookings : created'[c] = IF c \in opened THEN stamp[c] ELSE created[c]
    BY <1>4
  <2>3. \A c \in Bookings : hold[c] # NoHold => hold'[c] # NoHold /\ created'[c] = created[c]
    BY <1>3, <2>2 DEF Evolves
  <2>4. \A c \in Bookings : hold'[c] # NoHold => created'[c] # 0
    BY <1>2, <2>1, <2>2 DEF WalkKept
  <2>5. created' \in [Bookings -> Times \cup {0}]
    BY <1>2, <1>4, <2>1 DEF WalkTypeOK
  <2>6. QED
    BY <2>3, <2>4, <2>5
<1>6. WalkTypeOK'
  BY <1>2, <1>5 DEF WalkTypeOK
<1>7. \A c \in Bookings : hold[c] # NoHold =>
         \A time, id : After(c, time, id)' <=> After(c, time, id)
  BY <1>5 DEF After
<1>8. \A c \in walk.owed : c \in Bookings /\ hold[c] # NoHold
  BY <1>2 DEF WalkTypeOK, WalkKept
<1>9. ASSUME NEW c \in walk.owed
      PROVE  /\ hold'[c] # NoHold
             /\ walk.filter = AnyState
                \/ hold'[c].state \in {walk.filter} \cup LaterStates(walk.filter)
             /\ Matches(c, walk.filter)' => Matches(c, walk.filter)
  <2>1. hold'[c] # NoHold
    BY <1>5, <1>8
  <2>2. CASE walk.filter = AnyState
    BY <1>2, <1>8, <2>1, <2>2 DEF Matches
  <2>3. CASE walk.filter # AnyState
    <3>1. walk.filter \in HoldStates
      BY <1>2, <2>3 DEF WalkTypeOK
    <3>2. hold[c].state \in {walk.filter} \cup LaterStates(walk.filter)
      BY <1>2, <2>3 DEF WalkKept
    <3>3. /\ hold[c] \in HoldRow /\ hold'[c] \in HoldRow
          /\ hold[c].state = "ABSENT" => hold[c] = NoHold
          /\ hold'[c].state = "ABSENT" => hold'[c] = NoHold
      BY <1>2, <1>3, <1>8 DEF IInv, TypeOK, FundsAccounted
    <3>4. /\ hold'[c].state \in {walk.filter} \cup LaterStates(walk.filter)
          /\ hold'[c].state = walk.filter => hold[c].state = walk.filter
      BY <1>3, <1>8, <3>1, <3>2, <3>3, NeverReturns
    <3>5. QED
      BY <1>2, <1>8, <2>1, <2>3, <3>4 DEF Matches
  <2>4. QED
    BY <2>2, <2>3
<1>10. WalkKept'
  <2>1. \A c \in walk.given : c \in Bookings /\ hold[c] # NoHold
    BY <1>2 DEF WalkTypeOK, WalkKept
  <2>2. \A c \in walk.given : hold'[c] # NoHold
    BY <1>5, <2>1
  <2>3. ASSUME NEW c \in walk.owed, Matches(c, walk.filter)'
        PROVE  \/ c \in walk.given
               \/ /\ walk.cursor # NoCursor
                  /\ After(c, walk.cursor.createdAt, walk.cursor.id)'
    BY <1>2, <1>7, <1>8, <1>9, <2>3 DEF WalkKept
  <2>4. walk.cursor # NoCursor =>
          \A c \in walk.given : ~After(c, walk.cursor.createdAt, walk.cursor.id)'
    BY <1>2, <1>7, <2>1 DEF WalkKept
  <2>5. QED
    BY <1>2, <1>5, <1>9, <2>2, <2>3, <2>4 DEF WalkKept
<1>11. PagesComplete'
  BY <1>2, <1>9 DEF PagesComplete
<1>12. QED
  BY <1>3, <1>6, <1>10, <1>11 DEF ListingInv

\* The rows after the cursor are cut into a page: it gives nothing again, and what is
\* left comes after the new cursor.
LEMMA GetPageListed ==
    ASSUME ListingInv, NEW filter \in HoldStates \cup {AnyState},
           NEW cursor \in [createdAt : Nat, id : Nat],
           NEW owed \in SUBSET Bookings, NEW given \in SUBSET Bookings,
           GetPage(filter, cursor, owed, given, {}),
           \A b \in given : hold[b] # NoHold,
           cursor = NoCursor => given = {},
           cursor # NoCursor => \A b \in given : ~After(b, cursor.createdAt, cursor.id),
           \A b \in owed :
              /\ hold[b] # NoHold
              /\ filter = AnyState \/ hold[b].state \in {filter} \cup LaterStates(filter)
              /\ Matches(b, filter) =>
                    \/ b \in given
                    \/ cursor = NoCursor
                    \/ After(b, cursor.createdAt, cursor.id)
    PROVE  ListingInv'
<1> DEFINE rows == RowsAfter(filter, cursor)
           page == Page(rows)
           last == CHOOSE b \in page : page \subseteq Newer(b, rows) \cup {b}
           next == IF rows = page THEN NoCursor
                   ELSE [createdAt |-> created[last], id |-> IdOf(last)]
<1>1. IInv /\ WalkTypeOK /\ WalkKept /\ UNCHANGED <<escrowVars, created>>
  BY DEF ListingInv, GetPage
<1>2. walk' = [filter |-> filter, cursor |-> next, owed |-> owed,
               given |-> given \cup page, twice |-> given \cap page]
  BY DEF GetPage, Page
<1>3. /\ rows \in SUBSET Bookings /\ page \subseteq rows
      /\ \A b \in rows : hold[b] # NoHold
      /\ \A b \in Bookings : b \in rows <=>
            /\ Matches(b, filter)
            /\ cursor # NoCursor => After(b, cursor.createdAt, cursor.id)
  BY DEF RowsAfter, Matches, Page
<1>4. given \cap page = {}
  BY <1>3
<1>5. ASSUME rows # page
      PROVE  last \in page /\ \A b \in page : b = last \/ Before(b, last)
  <2>1. \E b \in page : page \subseteq Newer(b, rows) \cup {b}
    BY <1>1, <1>3, <1>5, PageHasLast
  <2>2. last \in page /\ page \subseteq Newer(last, rows) \cup {last}
    BY <2>1
  <2> HIDE DEF page, last
  <2>3. QED
    BY <1>3, <2>2, NewerRows
<1>6. \A a \in page, b \in rows \ page : Before(a, b)
  BY <1>1, <1>3, PageIsFirst
<1> HIDE DEF rows, page, last, next
<1>7. rows = page => next = NoCursor
  BY DEF next
<1>8. ASSUME rows # page
      PROVE  /\ last \in Bookings
             /\ next \in [createdAt : Nat, id : Nat]
             /\ next.createdAt = created[last] /\ next.id = IdOf(last)
             /\ next.createdAt # 0 /\ next # NoCursor
             /\ \A b \in Bookings : After(b, next.createdAt, next.id) <=> Before(last, b)
  <2>1. last \in page /\ last \in Bookings /\ hold[last] # NoHold
    BY <1>3, <1>5, <1>8
  <2>2. created[last] # 0
    BY <1>1, <2>1 DEF WalkKept
  <2>3. created[last] \in Nat /\ IdOf(last) \in Nat
    <3>1. Times \cup {0} \subseteq Nat
      BY ListingAssumption
    <3>2. QED
      BY <1>1, <2>1, <3>1, ListingAssumption DEF WalkTypeOK
  <2>4. next = [createdAt |-> created[last], id |-> IdOf(last)]
    BY <1>8 DEF next
  <2>5. /\ next \in [createdAt : Nat, id : Nat]
        /\ next.createdAt = created[last] /\ next.id = IdOf(last)
        /\ next # NoCursor
    BY <2>2, <2>3, <2>4 DEF NoCursor
  <2>6. \A b \in Bookings : After(b, created[last], IdOf(last)) <=> Before(last, b)
    BY <1>1, <2>1, ListOrder
  <2>7. QED
    BY <2>1, <2>2, <2>5, <2>6
<1>9. next \in [createdAt : Nat, id : Nat] /\ (next # NoCursor => next.createdAt # 0)
  BY <1>7, <1>8 DEF NoCursor
<1>10. /\ walk'.filter = filter /\ walk'.cursor = next /\ walk'.owed = owed
       /\ walk'.given = given \cup page /\ walk'.twice = {}
  BY <1>2, <1>4
<1>11. /\ hold' = hold /\ created' = created
       /\ \A b, time, id : After(b, time, id)' <=> After(b, time, id)
       /\ \A b, state : Matches(b, state)' <=> Matches(b, state)
  BY <1>1 DEF escrowVars, After, Matches
<1>12. WalkTypeOK'
  BY <1>1, <1>2, <1>3, <1>4, <1>9, <1>11 DEF WalkTypeOK
<1>13. \A b \in given \cup page : b \in Bookings /\ hold[b] # NoHold
  BY <1>3
<1>14. ASSUME next # NoCursor, NEW b \in given \cup page
       PROVE  ~After(b, next.createdAt, next.id)
  <2>1. rows # page
    BY <1>7, <1>14
  <2>2. last \in page /\ \A a \in page : a = last \/ Before(a, last)
    BY <1>5, <2>1
  <2>3. b \in Bookings /\ last \in Bookings
    BY <1>8, <1>13, <2>1
  <2>4. ~Before(last, b)
    <3>1. CASE b \in page
      BY <1>1, <2>2, <2>3, <3>1, ListOrder
    <3>2. CASE b \notin page
      <4>1. b \in given /\ cursor # NoCursor
        BY <3>2
      <4>2. ~After(b, cursor.createdAt, cursor.id) /\ After(last, cursor.createdAt, cursor.id)
        BY <1>3, <2>2, <2>3, <4>1
      <4>3. \A c \in Bookings : created[c] \in Nat /\ IdOf(c) \in Nat
        <5>1. Times \cup {0} \subseteq Nat
          BY ListingAssumption
        <5>2. QED
          BY <1>1, <5>1, ListingAssumption DEF WalkTypeOK
      <4>4. /\ created[b] \in Nat /\ IdOf(b) \in Nat
            /\ created[last] \in Nat /\ IdOf(last) \in Nat
            /\ cursor.createdAt \in Nat /\ cursor.id \in Nat
        BY <2>3, <4>3
      <4>5. QED
        BY <4>2, <4>4 DEF After, Before
    <3>3. QED
      BY <3>1, <3>2
  <2>5. QED
    BY <1>8, <2>1, <2>3, <2>4
<1>15. ASSUME NEW b \in owed, Matches(b, filter)
       PROVE  \/ b \in given \cup page
              \/ next # NoCursor /\ After(b, next.createdAt, next.id)
  <2>1. b \in given \/ b \in rows
    BY <1>3, <1>15
  <2>2. CASE b \in rows \ page
    <3>1. rows # page /\ b \in Bookings
      BY <1>3, <2>2
    <3>2. Before(last, b)
      BY <1>5, <1>6, <2>2, <3>1
    <3>3. QED
      BY <1>8, <3>1, <3>2
  <2>3. QED
    BY <2>1, <2>2
<1>16. WalkKept'
  BY <1>1, <1>10, <1>11, <1>13, <1>14, <1>15 DEF WalkKept
<1>17. PagesComplete'
  BY <1>10, <1>11, <1>15 DEF PagesComplete
<1>18. IInv'
  BY <1>1, StutterInv
<1>19. QED
  BY <1>12, <1>16, <1>17, <1>18 DEF ListingInv

LEMMA ListingNextInv ==
    ASSUME ListingInv, [ListingNext]_listingVars
    PROVE  ListingInv'
<1>1. CASE BooksStep
  BY <1>1, BooksStepListed
<1>2. ASSUME NEW filter \in Filters, FirstPage(filter) PROVE ListingInv'
  <2> DEFINE owed == {b \in Bookings : Matches(b, filter)}
  <2>1. GetPage(filter, NoCursor, owed, {}, {})
    BY <1>2 DEF FirstPage
  <2>2. filter \in HoldStates \cup {AnyState}
    BY ListingAssumption DEF AnyState
  <2>3. NoCursor \in [createdAt : Nat, id : Nat]
    BY DEF NoCursor
  <2>4. /\ owed \in SUBSET Bookings
        /\ \A b \in owed :
              hold[b] # NoHold /\ (filter = AnyState \/ hold[b].state = filter)
    BY DEF Matches
  <2> HIDE DEF owed
  <2>5. QED
    BY <2>1, <2>2, <2>3, <2>4, GetPageListed
<1>3. CASE NextPage
  <2>1. /\ GetPage(walk.filter, walk.cursor, walk.owed, walk.given, walk.twice)
        /\ walk.cursor # NoCursor
    BY <1>3 DEF NextPage
  <2>2. WalkTypeOK /\ WalkKept /\ walk.twice = {}
    BY DEF ListingInv, PagesComplete
  <2>3. /\ walk.filter \in HoldStates \cup {AnyState}
        /\ walk.cursor \in [createdAt : Nat, id : Nat]
        /\ walk.owed \in SUBSET Bookings /\ walk.given \in SUBSET Bookings
    BY <2>2 DEF WalkTypeOK
  <2>4. GetPage(walk.filter, walk.cursor, walk.owed, walk.given, {})
    BY <2>1, <2>2
  <2>5. /\ \A b \in walk.given : hold[b] # NoHold
        /\ \A b \in walk.given : ~After(b, walk.cursor.createdAt, walk.cursor.id)
    BY <2>1, <2>2 DEF WalkKept
  <2>6. \A b \in walk.owed :
           /\ hold[b] # NoHold
           /\ walk.filter = AnyState
              \/ hold[b].state \in {walk.filter} \cup LaterStates(walk.filter)
           /\ Matches(b, walk.filter) =>
                 \/ b \in walk.given
                 \/ walk.cursor = NoCursor
                 \/ After(b, walk.cursor.createdAt, walk.cursor.id)
    BY <2>1, <2>2 DEF WalkKept
  <2>7. QED
    BY <2>1, <2>3, <2>4, <2>5, <2>6, GetPageListed
<1>4. CASE UNCHANGED listingVars
  <2>1. UNCHANGED <<escrowVars, created, walk>> /\ hold' = hold
    BY <1>4 DEF listingVars, escrowVars
  <2>2. /\ \A b, time, id : After(b, time, id)' <=> After(b, time, id)
        /\ \A b, state : Matches(b, state)' <=> Matches(b, state)
    BY <2>1 DEF After, Matches
  <2>3. IInv' /\ WalkTypeOK'
    BY <2>1, StutterInv DEF ListingInv, WalkTypeOK
  <2>4. WalkKept' /\ PagesComplete'
    BY <2>1, <2>2 DEF ListingInv, WalkKept, PagesComplete
  <2>5. QED
    BY <2>3, <2>4 DEF ListingInv
<1>5. QED
  BY <1>1, <1>2, <1>3, <1>4 DEF ListingNext

\* A client that walks the pages of the list gets no hold twice and misses none that
\* matched its filter all the time, whatever the operations do between two pages.
THEOREM ListingComplete == ListingSpec => []PagesComplete
<1>1. ListingInv => PagesComplete
  BY DEF ListingInv
<1>2. QED
  BY <1>1, ListingInitInv, ListingNextInv, PTL DEF ListingSpec

-----------------------------------------------------------------------------
(***************************************************************************)
(* Requests and lists leave the tables of the escrow component to it.      *)
(***************************************************************************)

LEMMA RequestsOperate ==
    ASSUME RequestsInv, [RequestsNext]_requestsVars
    PROVE  [OperationsNext]_escrowVars
<1>1. ASSUME NEW r \in Requests,
             \/ ReleaseHold(r)
             \/ RefundHold(r)
             \/ PartialRefundHold(r)
             \/ FreezeHold(r)
             \/ ResolveHoldRelease(r)
             \/ ResolveHoldRefund(r)
             \/ ResolveHoldSplit(r)
      PROVE  OperationsNext
  <2>1. PICK b \in Bookings : b = request[r].ask.hold
    BY <1>1, WorkOperates
  <2>2. EscrowStep(b)
    BY <1>1, <2>1, WorkOperates DEF EscrowStep
  <2>3. QED
    BY <2>2 DEF Operation, OperationsNext
<1>2. CASE OtherRoutes
  BY <1>2 DEF OtherRoutes, Next, Operation, OperationsNext
<1>3. CASE UNCHANGED requestsVars
  BY <1>3 DEF requestsVars
<1>4. QED
  BY <1>1, <1>2, <1>3 DEF RequestsNext, RequestStep, RequestFails

\* What the escrow component promises of its holds, whatever is requested, repeated and
\* replayed under one key.
THEOREM PromisesInRequests == RequestsSpec => EscrowPromises
<1>1. RequestsInit => Init
  BY DEF RequestsInit
<1>2. QED
  BY <1>1, RepliesAccounted, RequestsOperate, PromisesKept, PTL DEF RequestsSpec, OperationsSpec

\* And while a client walks through the holds.
THEOREM PromisesInListing == ListingSpec => EscrowPromises
<1>1. ListingInit => Init
  BY DEF ListingInit
<1>2. [ListingNext]_listingVars => [OperationsNext]_escrowVars
  <2>1. CASE BooksStep
    BY <2>1 DEF BooksStep, Next, Operation, OperationsNext
  <2>2. CASE NextPage \/ \E filter \in Filters : FirstPage(filter)
    BY <2>2 DEF NextPage, FirstPage, GetPage
  <2>3. CASE UNCHANGED listingVars
    BY <2>3 DEF listingVars
  <2>4. QED
    BY <2>1, <2>2, <2>3 DEF ListingNext
<1>3. QED
  BY <1>1, <1>2, PromisesKept, PTL DEF ListingSpec, OperationsSpec
=============================================================================
