--------------------------- MODULE PayoutMethods ---------------------------
(***************************************************************************)
(* artist_payout_methods (PayoutMethodsService): whether an artist has     *)
(* given a bank account and whether an admin has verified it.  verify and  *)
(* reject read the row and then update it unconditionally, in two          *)
(* statements.                                                             *)
(***************************************************************************)
EXTENDS Integers

CONSTANTS
    Artists,
    Reviewers      \* verify and reject calls in flight

VARIABLES
    method,   \* artist_payout_methods: artist -> row
    review    \* reviewer -> where its call is

methodVars == <<method, review>>

\* The row of an artist: is_verified, if there is one.
Method == {"none", "unverified", "verified"}

NoReview == [pc |-> "idle"]

\* Every write of the bank details needs verification again.
Upsert(a) ==
    /\ method' = [method EXCEPT ![a] = "unverified"]
    /\ UNCHANGED review

\* verify or reject: the call reads the row and goes on if it would change it.
Decide(r, a) ==
    /\ review[r] = NoReview
    /\ method[a] # "none"
    /\ review' = [review EXCEPT ![r] =
                    [pc     |-> IF method[a] = "verified" THEN "rejecting" ELSE "verifying",
                     artist |-> a]]
    /\ UNCHANGED method

\* The update of the call, whatever the row has become since.
ApplyVerdict(r) ==
    /\ review[r] # NoReview
    /\ method' = [method EXCEPT ![review[r].artist] =
                    IF review[r].pc = "verifying" THEN "verified" ELSE "unverified"]
    /\ review' = [review EXCEPT ![r] = NoReview]

MethodsInit ==
    /\ method = [a \in Artists |-> "none"]
    /\ review = [r \in Reviewers |-> NoReview]

MethodsNext ==
    \/ \E a \in Artists : Upsert(a)
    \/ \E r \in Reviewers : ApplyVerdict(r) \/ \E a \in Artists : Decide(r, a)

-----------------------------------------------------------------------------

\* Rows and calls; a call in flight is about an account that exists.
MethodsTypeOK ==
    /\ method \in [Artists -> Method]
    /\ review \in [Reviewers -> {NoReview} \cup [pc : {"verifying", "rejecting"}, artist : Artists]]
    /\ \A r \in Reviewers : review[r] # NoReview => method[review[r].artist] # "none"
=============================================================================
