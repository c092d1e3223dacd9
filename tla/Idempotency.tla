---------------------------- MODULE Idempotency ----------------------------
(***************************************************************************)
(* IdempotencyService.run: requests, each with a body and perhaps an       *)
(* Idempotency-Key, and the Redis entry of every key.  A key stands for    *)
(* the endpoint, the user and the header together.  The entry is looked    *)
(* up, the work is done, the entry is written: three steps, with other     *)
(* requests, an expiry or the death of the process between them.  What the *)
(* work is belongs to the module that extends this one.                    *)
(***************************************************************************)
EXTENDS Integers, FiniteSets

CONSTANTS
    Requests,
    Asks,       \* what may be requested: records with a key, a body and more
    NoKey       \* no Idempotency-Key header

VARIABLES
    request,   \* request -> where run is, and how it ended
    entry,     \* Redis: key -> the stored body and response
    expired    \* the keys of which an entry has expired

idempotencyVars == <<request, entry, expired>>

Keys == {ask.key : ask \in Asks} \ {NoKey}

NoEntry == [stored |-> FALSE]
Waiting == [pc |-> "waiting"]
Over    == [pc |-> "over"]

Become(r, state) == request' = [request EXCEPT ![r] = state]

-----------------------------------------------------------------------------

Stored(ask) == IF ask.key = NoKey THEN NoEntry ELSE entry[ask.key]

\* Mutant: the body is not compared.
LookUpAnyBody(r, ask) ==
    /\ request[r] = Waiting
    /\ Become(r, IF Stored(ask) = NoEntry THEN [pc |-> "working", ask |-> ask]
                 ELSE [pc |-> "replayed", ask |-> ask, response |-> Stored(ask).response])
    /\ UNCHANGED <<entry, expired>>

\* GET: replay the response, refuse another body, or go to work.
LookUp(r, ask) ==
    /\ request[r] = Waiting
    /\ Become(r, IF Stored(ask) = NoEntry THEN [pc |-> "working", ask |-> ask]
                 ELSE IF Stored(ask).body # ask.body THEN Over
                 ELSE [pc |-> "replayed", ask |-> ask, response |-> Stored(ask).response])
    /\ UNCHANGED <<entry, expired>>

\* work() has returned.  Without a key the caller is answered at once.
WorkReturns(r, response) ==
    /\ request[r].pc = "working"
    /\ Become(r, [pc       |-> IF request[r].ask.key = NoKey THEN "answered" ELSE "worked",
                  ask      |-> request[r].ask,
                  response |-> response])
    /\ UNCHANGED <<entry, expired>>

\* work() throws: nothing is stored, so the key may be used again.
WorkThrows(r) ==
    /\ request[r].pc = "working"
    /\ Become(r, Over)
    /\ UNCHANGED <<entry, expired>>

\* Mutant: the caller is answered without storing the response.
StoreNothing(r) ==
    /\ request[r].pc = "worked"
    /\ Become(r, [request[r] EXCEPT !.pc = "answered"])
    /\ UNCHANGED <<entry, expired>>

\* SET, whatever the entry is by now.
Store(r) ==
    /\ request[r].pc = "worked"
    /\ Become(r, [request[r] EXCEPT !.pc = "answered"])
    /\ entry' = [entry EXCEPT ![request[r].ask.key] =
                    [stored   |-> TRUE,
                     body     |-> request[r].ask.body,
                     response |-> request[r].response]]
    /\ UNCHANGED expired

Expire(key) ==
    /\ entry[key] # NoEntry
    /\ entry' = [entry EXCEPT ![key] = NoEntry]
    /\ expired' = expired \cup {key}
    /\ UNCHANGED request

Die(r) ==
    /\ request[r].pc \in {"waiting", "working", "worked"}
    /\ Become(r, Over)
    /\ UNCHANGED <<entry, expired>>

-----------------------------------------------------------------------------

IdempotencyInit ==
    /\ request = [r \in Requests |-> Waiting]
    /\ entry = [key \in Keys |-> NoEntry]
    /\ expired = {}

-----------------------------------------------------------------------------
(***************************************************************************)
(* Properties.                                                             *)
(***************************************************************************)

Answered(key) == {r \in Requests : request[r].pc = "answered" /\ request[r].ask.key = key}

\* Whatever is lost, expires or races, a replayed response is the one that a request
\* with the same key and the same body was given for its own work.
ReplayIsEarned ==
    \A r \in Requests :
        request[r].pc = "replayed" =>
            \E q \in Answered(request[r].ask.key) :
                /\ request[q].ask.body = request[r].ask.body
                /\ request[q].response = request[r].response

\* "Execute work at most once per (endpoint, user, key)", for requests that do not
\* overlap: once one of them was answered, and until an entry expires,
\* no request that looks up the key from then on goes to work.
AnsweredIsRemembered ==
    [][\A r \in Requests :
          request[r] = Waiting /\ request'[r].pc = "working" =>
              LET key == request'[r].ask.key IN
              key = NoKey \/ key \in expired \/ Answered(key) = {}]_idempotencyVars
=============================================================================
