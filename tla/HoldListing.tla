---------------------------- MODULE HoldListing ----------------------------
(***************************************************************************)
(* The paginated list of holds (EscrowService.list and the keyset cursor   *)
(* of common/pagination.ts) next to the operations that change the holds   *)
(* it lists.  A client walks the pages one request at a time; between two  *)
(* pages holds are opened and change state.  Every other list of the       *)
(* service pages its table in the same way.                                *)
(***************************************************************************)
EXTENDS Escrow

CONSTANTS
    Times,      \* created_at, in milliseconds
    IdOf(_),    \* the order of the holds' ids: booking -> number
    Filters,    \* the states a client asks for, or AnyState
    Limit       \* rows of a page

ASSUME ListingAssumption ==
    /\ IsFiniteSet(Bookings)
    /\ Times \subseteq Nat \ {0}
    /\ \A b \in Bookings : IdOf(b) \in Nat
    /\ \A a, b \in Bookings : IdOf(a) = IdOf(b) => a = b
    /\ Filters \subseteq HoldStates \cup {"ANY"}
    /\ Limit \in Nat \ {0}

VARIABLES
    created,   \* escrow_holds.created_at: booking -> time, 0 for no row
    walk       \* the client: its filter, its cursor, and what it was given

listingVars == <<escrowVars, created, walk>>

AnyState == "ANY"
NoCursor == [createdAt |-> 0, id |-> 0]
NoWalk   == [filter |-> AnyState, cursor |-> NoCursor, owed |-> {}, given |-> {}, twice |-> {}]

Matches(b, filter) ==
    hold[b] # NoHold /\ (filter = AnyState \/ hold[b].state = filter)

\* Mutant: holds of the same millisecond are not told apart.
AfterByTime(b, createdAt, id) == created[b] < createdAt

\* The keyset order: created_at desc, then id desc.
After(b, createdAt, id) ==
    \/ created[b] < createdAt
    \/ created[b] = createdAt /\ IdOf(b) < id

-----------------------------------------------------------------------------

\* A hold is stamped when its transaction starts; commits may come in another order.
BooksStep ==
    /\ Next
    /\ LET opened == {b \in Bookings : hold[b] = NoHold /\ hold'[b] # NoHold} IN
       \E stamp \in [opened -> Times] :
          created' = [b \in Bookings |-> IF b \in opened THEN stamp[b] ELSE created[b]]
    /\ UNCHANGED walk

\* A request for the rows after a cursor.  One more row than the page holds is
\* fetched, to know whether a page follows.
RowsAfter(filter, cursor) ==
    {b \in Bookings :
        /\ Matches(b, filter)
        /\ cursor # NoCursor => After(b, cursor.createdAt, cursor.id)}

Newer(b, rows) ==
    {a \in rows : \/ created[a] > created[b]
                  \/ created[a] = created[b] /\ IdOf(a) > IdOf(b)}

\* What the client has after the page: the cursor for the next one, or all there is.
\* The holds it was owed, those it was given and those it was given twice are
\* remembered for PagesComplete.
GetPage(filter, cursor, owed, given, twice) ==
    LET rows == RowsAfter(filter, cursor)
        page == {b \in rows : Cardinality(Newer(b, rows)) < Limit}
        last == CHOOSE b \in page : page \subseteq Newer(b, rows) \cup {b}
    IN  /\ walk' = [filter |-> filter,
                    cursor |-> IF rows = page THEN NoCursor
                               ELSE [createdAt |-> created[last], id |-> IdOf(last)],
                    owed   |-> owed,
                    given  |-> given \cup page,
                    twice  |-> twice \cup (given \cap page)]
        /\ UNCHANGED <<escrowVars, created>>

FirstPage(filter) ==
    /\ walk.cursor = NoCursor
    /\ GetPage(filter, NoCursor, {b \in Bookings : Matches(b, filter)}, {}, {})

NextPage ==
    /\ walk.cursor # NoCursor
    /\ GetPage(walk.filter, walk.cursor, walk.owed, walk.given, walk.twice)

-----------------------------------------------------------------------------

ListingInit ==
    /\ Init
    /\ created = [b \in Bookings |-> 0]
    /\ walk = NoWalk

ListingNext ==
    \/ BooksStep
    \/ \E filter \in Filters : FirstPage(filter)
    \/ NextPage

ListingSpec == ListingInit /\ [][ListingNext]_listingVars

-----------------------------------------------------------------------------

\* Whatever is opened, refunded, frozen or settled between two pages, and however many
\* holds share a millisecond, a walk gives no hold twice, and gives every hold that
\* matched its filter from the first page to the last.
PagesComplete ==
    /\ walk.twice = {}
    /\ walk.cursor = NoCursor =>
          \A b \in walk.owed : Matches(b, walk.filter) => b \in walk.given

-----------------------------------------------------------------------------
(***************************************************************************)
(* The inductive invariant behind it.                                      *)
(***************************************************************************)

WalkTypeOK ==
    /\ created \in [Bookings -> Times \cup {0}]
    /\ walk \in [filter : HoldStates \cup {AnyState},
                 cursor : [createdAt : Nat, id : Nat],
                 owed   : SUBSET Bookings,
                 given  : SUBSET Bookings,
                 twice  : SUBSET Bookings]
    /\ walk.cursor # NoCursor => walk.cursor.createdAt # 0

\* The states of a hold that has left a state, to which it never returns.
LaterStates(state) ==
    CASE state = "HELD"               -> HoldStates \ {"HELD"}
      [] state = "PARTIALLY_REFUNDED" -> {"DISPUTED", "RELEASED", "REFUNDED"}
      [] state = "DISPUTED"           -> {"RELEASED", "REFUNDED"}
      [] OTHER                        -> {}

\* The client was given what comes before its cursor, and what it is still owed comes
\* after it.
WalkKept ==
    /\ \A b \in Bookings : hold[b] # NoHold => created[b] # 0
    /\ \A b \in walk.given : hold[b] # NoHold
    /\ \A b \in walk.owed :
          /\ hold[b] # NoHold
          /\ walk.filter = AnyState
             \/ hold[b].state \in {walk.filter} \cup LaterStates(walk.filter)
          /\ Matches(b, walk.filter) =>
                \/ b \in walk.given
                \/ walk.cursor # NoCursor /\ After(b, walk.cursor.createdAt, walk.cursor.id)
    /\ walk.cursor # NoCursor =>
          \A b \in walk.given : ~After(b, walk.cursor.createdAt, walk.cursor.id)

ListingInv ==
    /\ IInv
    /\ WalkTypeOK
    /\ WalkKept
    /\ PagesComplete
=============================================================================
