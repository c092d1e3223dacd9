---------------------------- MODULE HoldRequests ----------------------------
(***************************************************************************)
(* The admin's requests on holds (EscrowController): each mutation runs an *)
(* operation of the escrow component under IdempotencyService.run and      *)
(* answers with the hold as that operation left it.  Requests overlap, are *)
(* repeated and are cut off, while the events of bookings and disputes and *)
(* the ITNs reach the same holds by other routes.                          *)
(***************************************************************************)
EXTENDS Escrow, Idempotency

requestsVars == <<escrowVars, idempotencyVars>>

Endpoints == {"release", "refund", "partial-refund", "freeze",
              "resolve-release", "resolve-refund", "resolve-split"}

\* The bodies that pass the validation of their DTO; a text is one of many.
Texts == {"note", "other note"}
OptionalFault == FaultParties \cup {"none"}
Bodies(endpoint) ==
    CASE endpoint = "refund"         -> [faultParty : OptionalFault]
      [] endpoint = "partial-refund" -> [amountCents : (RequestCents \cap Nat) \ {0},
                                         faultParty  : OptionalFault]
      [] endpoint = "resolve-split"  -> [artistCents : RequestCents \cap Nat,
                                         clientCents : RequestCents \cap Nat]
      [] OTHER                       -> [note : Texts]

\* A request as IdempotencyService sees it: the endpoint's path names the hold, and
\* the header stands for the user and the Idempotency-Key they sent.
Ask(endpoint, b, body, header) ==
    [endpoint |-> endpoint,
     hold     |-> b,
     body     |-> body,
     key      |-> IF header = NoKey THEN NoKey ELSE <<endpoint, b, header>>]

ASSUME AsksAssumption ==
    \A ask \in Asks :
        /\ ask.endpoint \in Endpoints
        /\ ask.hold \in Bookings
        /\ ask.body \in Bodies(ask.endpoint)
        /\ ask.key # NoKey => ask.key[1] = ask.endpoint /\ ask.key[2] = ask.hold

FaultOf(body) == IF body.faultParty = "none" THEN "CLIENT" ELSE body.faultParty

\* The work of a request is one transaction of the escrow component; its response is
\* the updated row.
Serve(r, endpoint, Operation) ==
    /\ request[r].pc = "working"
    /\ request[r].ask.endpoint = endpoint
    /\ Operation
    /\ WorkReturns(r, hold'[request[r].ask.hold])

-----------------------------------------------------------------------------

ReleaseHold(r) == Serve(r, "release", Release(request[r].ask.hold))

RefundHold(r) ==
    Serve(r, "refund", Refund(request[r].ask.hold, FaultOf(request[r].ask.body)))

PartialRefundHold(r) ==
    Serve(r, "partial-refund",
          PartialRefund(request[r].ask.hold, request[r].ask.body.amountCents,
                        FaultOf(request[r].ask.body)))

FreezeHold(r) == Serve(r, "freeze", Freeze(request[r].ask.hold))

ResolveHoldRelease(r) == Serve(r, "resolve-release", ResolveRelease(request[r].ask.hold))

ResolveHoldRefund(r) == Serve(r, "resolve-refund", ResolveRefund(request[r].ask.hold))

ResolveHoldSplit(r) ==
    Serve(r, "resolve-split",
          ResolveSplit(request[r].ask.hold, request[r].ask.body.artistCents,
                       request[r].ask.body.clientCents))

\* The operation refuses, or its transaction aborts: nothing is changed.
RequestFails(r) == WorkThrows(r) /\ UNCHANGED escrowVars

-----------------------------------------------------------------------------

RequestsInit ==
    /\ Init
    /\ IdempotencyInit

RequestStep(r) ==
    \/ \E ask \in Asks : LookUp(r, ask) /\ UNCHANGED escrowVars
    \/ ReleaseHold(r)
    \/ RefundHold(r)
    \/ PartialRefundHold(r)
    \/ FreezeHold(r)
    \/ ResolveHoldRelease(r)
    \/ ResolveHoldRefund(r)
    \/ ResolveHoldSplit(r)
    \/ RequestFails(r)
    \/ Store(r) /\ UNCHANGED escrowVars
    \/ Die(r) /\ UNCHANGED escrowVars

OtherRoutes == Next /\ UNCHANGED idempotencyVars

RequestsNext ==
    \/ \E r \in Requests : RequestStep(r)
    \/ \E key \in Keys : Expire(key) /\ UNCHANGED escrowVars
    \/ OtherRoutes

RequestsSpec == RequestsInit /\ [][RequestsNext]_requestsVars

-----------------------------------------------------------------------------

\* What a row of a hold told its reader was done stays done: the refunds it counts are
\* not taken back, and a settled hold is, to the cent, the one it showed.
Stands(reply, row) ==
    /\ reply.partial <= row.partial
    /\ reply.state = "HELD" \/ row.state # "HELD"
    /\ reply.state \in {"RELEASED", "REFUNDED"} => row = reply

\* A response may be a day old when it is replayed, and the hold has moved on since.
\* Still, what it told the admin was done stays done.
RepliesStand ==
    /\ ReplayIsEarned
    /\ \A r \in Requests :
          request[r].pc \in {"answered", "replayed"} =>
              Stands(request[r].response, hold[request[r].ask.hold])

-----------------------------------------------------------------------------
(***************************************************************************)
(* The inductive invariant behind it.                                      *)
(***************************************************************************)

Served == {"worked", "answered", "replayed"}

RequestRow ==
    {Waiting, Over} \cup [pc : {"working"}, ask : Asks]
                    \cup [pc : Served, ask : Asks, response : HoldRow]

\* A response that was made, and perhaps not given yet, stands.
Replied(r) ==
    /\ request[r].pc \in Served =>
          /\ hold[request[r].ask.hold] # NoHold
          /\ Stands(request[r].response, hold[request[r].ask.hold])
    /\ request[r].pc = "worked" => request[r].ask.key # NoKey

\* An entry was stored by a request that was answered, and is there unless it expired.
Kept(key) ==
    /\ \/ entry[key] = NoEntry
       \/ \E q \in Answered(key) :
             entry[key] = [stored   |-> TRUE,
                           body     |-> request[q].ask.body,
                           response |-> request[q].response]
    /\ key \in expired \/ entry[key] # NoEntry \/ Answered(key) = {}

\* Entries, the requests they came from and the holds they speak of agree.
RequestsInv ==
    /\ IInv
    /\ request \in [Requests -> RequestRow]
    /\ DOMAIN entry = Keys
    /\ \A r \in Requests : Replied(r)
    /\ \A key \in Keys : Kept(key)
    /\ ReplayIsEarned
=============================================================================
