--------------------------------- MODULE Fx ---------------------------------
(***************************************************************************)
(* Exchange rates (FxService): the refresh that fetches a provider's       *)
(* quotes and writes one row per pair of currencies, statement by          *)
(* statement; the overrides an admin pins on a pair; and the conversions   *)
(* that read both.  Every replica runs the refresh, so several may run at  *)
(* once.  PaymentIntentsService.lock converts the total and then the fee   *)
(* of an intent, each with a look at the override and a look at the rows.  *)
(*                                                                         *)
(* A rate is a whole number of 1/Scale, as the column keeps 8 decimals.    *)
(* Time is counted in quotes published: the n-th carries as_of n.          *)
(***************************************************************************)
EXTENDS Integers, Sequences

CONSTANTS
    SUPPORTED,      \* the currencies, in the order of the code
    Base,           \* the currency all the provider's quotes are anchored on
    Scale,          \* 10^8 in the code
    Publications,   \* what the provider may publish: currency -> rate from Base, 0 if none
    MaxPublished,   \* bound: how often it does
    PinnedPairs,    \* bound: the pairs an admin may pin
    OverrideRates,  \* and the rates
    Refreshers,     \* replicas that run the refresh
    Locks,          \* invocations of lock
    Amounts         \* [currency, total, fee] of an intent

Currencies == {SUPPORTED[i] : i \in DOMAIN SUPPORTED}
Pairs == Currencies \X Currencies

ASSUME FxAssumption ==
    /\ Base \in Currencies
    /\ Scale \in Nat \ {0}
    /\ Publications \subseteq [Currencies -> Nat]
    /\ \A quotes \in Publications : quotes[Base] = Scale
    /\ MaxPublished \in Nat
    /\ PinnedPairs \subseteq Pairs
    /\ OverrideRates \subseteq Nat \ {0}
    /\ Amounts \subseteq [currency : Currencies \ {Base}, total : Nat, fee : Nat]

VARIABLES
    published,  \* the provider: its quotes, in order
    rates,      \* exchange_rates: pair -> as_of -> rate, 0 for no row
    override,   \* fx_rate_overrides: pair -> rate, 0 for no row
    refresher,  \* replica -> the rows its refresh has still to write
    known,      \* pair -> as_of of the newest row that a finished refresh or quote has seen
    lock        \* invocation -> where lock is, and its quotes

fxVars == <<published, rates, override, refresher, known, lock>>

Resting == [pc |-> "idle", asOf |-> 0, rows |-> {}]
NoLock  == [pc |-> "idle"]

Now == Len(published)

Larger(m, n) == IF m > n THEN m ELSE n

-----------------------------------------------------------------------------

\* Mutant: a tie is rounded up.
RoundHalfUp(num, den) == (2 * num + den) \div (2 * den)

\* A quotient rounded to the nearest integer, ties to the even one.
RoundHalfToEven(num, den) ==
    LET abs     == IF num < 0 THEN -num ELSE num
        floor   == abs \div den
        frac    == abs % den
        rounded == IF 2 * frac < den THEN floor
                   ELSE IF 2 * frac > den THEN floor + 1
                   ELSE floor + (floor % 2)
    IN  IF num < 0 THEN -rounded ELSE rounded

\* The amount of the other currency, in whole cents.
Convert(cents, rate) == RoundHalfToEven(cents * rate, Scale)

\* How the column rounds the rate it is given.
StoredRate(bFromBase, aFromBase) == (2 * bFromBase * Scale + aFromBase) \div (2 * aFromBase)

\* The turns of the two loops over SUPPORTED, a currency with itself included, and their
\* order.
Turns == (DOMAIN SUPPORTED) \X (DOMAIN SUPPORTED)
PairOf(turn) == <<SUPPORTED[turn[1]], SUPPORTED[turn[2]]>>
Before(t, u) == t[1] < u[1] \/ (t[1] = u[1] /\ t[2] < u[2])

Usable(quotes, pair) == quotes[pair[1]] > 0 /\ quotes[pair[2]] > 0

\* A row for every pair of which both anchors are usable.
ExpandPairs(quotes) == {turn \in Turns : Usable(quotes, PairOf(turn))}

\* No rate is so small that the column would round it to 0.
ASSUME RatesAssumption ==
    \A quotes \in Publications, pair \in Pairs :
        Usable(quotes, pair) => StoredRate(quotes[pair[2]], quotes[pair[1]]) > 0

\* A lock in progress has a rate of its pair changed under it.
Moves(pair) ==
    lock' = [l \in Locks |->
                IF lock[l].pc \in {"override", "rows"} /\ lock[l].pair = pair
                THEN [lock[l] EXCEPT !.moved = TRUE] ELSE lock[l]]

-----------------------------------------------------------------------------

Publish(quotes) ==
    /\ Len(published) < MaxPublished
    /\ published' = Append(published, quotes)
    /\ UNCHANGED <<rates, override, refresher, known, lock>>

\* A request that fails ends the refresh before it writes: nothing changes.
Fetch(r) ==
    /\ refresher[r] = Resting
    /\ published # <<>>
    /\ refresher' = [refresher EXCEPT ![r] =
                        [pc |-> "writing", asOf |-> Now, rows |-> ExpandPairs(published[Now])]]
    /\ UNCHANGED <<published, rates, override, known, lock>>

\* The next row, keyed by its pair and the quotes' as_of.
Upsert(r) ==
    \E turn \in refresher[r].rows :
        LET pair   == PairOf(turn)
            quotes == published[refresher[r].asOf]
        IN
        /\ \A other \in refresher[r].rows : ~Before(other, turn)
        /\ refresher' = [refresher EXCEPT ![r].rows = @ \ {turn}]
        /\ rates' = [rates EXCEPT ![pair][refresher[r].asOf] =
                        StoredRate(quotes[pair[2]], quotes[pair[1]])]
        /\ IF rates' = rates THEN UNCHANGED lock ELSE Moves(pair)
        /\ UNCHANGED <<published, override, known>>

RefreshEnds(r) ==
    /\ refresher[r].pc = "writing"
    /\ refresher[r].rows = {}
    /\ refresher' = [refresher EXCEPT ![r] = Resting]
    /\ known' = [pair \in Pairs |->
                    IF Usable(published[refresher[r].asOf], pair)
                    THEN Larger(known[pair], refresher[r].asOf) ELSE known[pair]]
    /\ UNCHANGED <<published, rates, override, lock>>

\* A write fails, or the process dies: the rows written so far stay.
RefreshBreaks(r) ==
    /\ refresher[r].pc = "writing"
    /\ refresher' = [refresher EXCEPT ![r] = Resting]
    /\ UNCHANGED <<published, rates, override, known, lock>>

-----------------------------------------------------------------------------

\* An admin pins a pair; the pair in the other direction is a row of its own.
PutOverride(pair, rate) ==
    /\ pair[1] # pair[2]
    /\ override' = [override EXCEPT ![pair] = rate]
    /\ IF override' = override THEN UNCHANGED lock ELSE Moves(pair)
    /\ UNCHANGED <<published, rates, refresher, known>>

DeleteOverride(pair) ==
    /\ override' = [override EXCEPT ![pair] = 0]
    /\ IF override' = override THEN UNCHANGED lock ELSE Moves(pair)
    /\ UNCHANGED <<published, rates, refresher, known>>

-----------------------------------------------------------------------------

\* lock has the total converted, from now on.
Begin(l, amounts) ==
    /\ lock[l] = NoLock
    /\ lock' = [lock EXCEPT ![l] = [pc     |-> "override",
                                    pair   |-> <<amounts.currency, Base>>,
                                    cents  |-> <<amounts.total, amounts.fee>>,
                                    at     |-> Now,
                                    floor  |-> known[<<amounts.currency, Base>>],
                                    moved  |-> FALSE,
                                    quotes |-> <<>>]]
    /\ UNCHANGED <<published, rates, override, refresher, known>>

\* A quote is in; the conversion of the fee, if it is still to come, starts at once.
Quoted(l, rate, asOf, newKnown) ==
    LET state  == lock[l]
        quote  == [rate |-> rate, asOf |-> asOf, floor |-> state.floor,
                   amount |-> Convert(state.cents[Len(state.quotes) + 1], rate)]
        quotes == Append(state.quotes, quote)
    IN  lock' = [lock EXCEPT ![l] =
                    [state EXCEPT !.quotes = quotes,
                                  !.at     = Now,
                                  !.floor  = newKnown,
                                  !.pc     = IF Len(quotes) = 2 THEN "done" ELSE "override"]]

\* Mutant: an override of the pair in the other direction is taken.
OverrideOfReverse(pair) == override[<<pair[2], pair[1]>>]

OverrideOf(pair) == override[pair]

\* The override of the pair beats every row.
ReadOverride(l) ==
    LET pair == lock[l].pair IN
    /\ lock[l].pc = "override"
    /\ IF OverrideOf(pair) # 0
       THEN Quoted(l, OverrideOf(pair), 0, known[pair])
       ELSE lock' = [lock EXCEPT ![l].pc = "rows"]
    /\ UNCHANGED <<published, rates, override, refresher, known>>

\* Mutant: the rows are not ordered.
ReadAnyRow(l) ==
    LET pair == lock[l].pair
        rows == {n \in 1 .. lock[l].at : rates[pair][n] # 0}
    IN  /\ lock[l].pc = "rows"
        /\ \E n \in rows :
              /\ Quoted(l, rates[pair][n], n, Larger(known[pair], n))
              /\ known' = [known EXCEPT ![pair] = Larger(@, n)]
        /\ UNCHANGED <<published, rates, override, refresher>>

\* The newest row that is not of the future.
ReadRows(l) ==
    LET pair == lock[l].pair
        rows == {n \in 1 .. lock[l].at : rates[pair][n] # 0}
    IN  /\ lock[l].pc = "rows"
        /\ \E n \in rows :
              /\ \A m \in rows : m <= n
              /\ Quoted(l, rates[pair][n], n, Larger(known[pair], n))
              /\ known' = [known EXCEPT ![pair] = Larger(@, n)]
        /\ UNCHANGED <<published, rates, override, refresher>>

\* FX_RATE_UNAVAILABLE.
NoRate(l) ==
    /\ lock[l].pc = "rows"
    /\ \A n \in 1 .. lock[l].at : rates[lock[l].pair][n] = 0
    /\ lock' = [lock EXCEPT ![l].pc = "refused"]
    /\ UNCHANGED <<published, rates, override, refresher, known>>

-----------------------------------------------------------------------------

FxInit ==
    /\ published = <<>>
    /\ rates     = [pair \in Pairs |-> [n \in 1 .. MaxPublished |-> 0]]
    /\ override  = [pair \in Pairs |-> 0]
    /\ refresher = [r \in Refreshers |-> Resting]
    /\ known     = [pair \in Pairs |-> 0]
    /\ lock      = [l \in Locks |-> NoLock]

FxNext ==
    \/ \E quotes \in Publications : Publish(quotes)
    \/ \E r \in Refreshers : Fetch(r) \/ Upsert(r) \/ RefreshEnds(r) \/ RefreshBreaks(r)
    \/ \E pair \in PinnedPairs :
          DeleteOverride(pair) \/ \E rate \in OverrideRates : PutOverride(pair, rate)
    \/ \E l \in Locks :
          \/ \E amounts \in Amounts : Begin(l, amounts)
          \/ ReadOverride(l)
          \/ ReadRows(l)
          \/ NoRate(l)

FxSpec == FxInit /\ [][FxNext]_fxVars

-----------------------------------------------------------------------------
(***************************************************************************)
(* Properties.                                                             *)
(***************************************************************************)

Quotes(l) == IF lock[l].pc = "idle" THEN <<>> ELSE lock[l].quotes

\* Refreshes overlap, break off between two pairs and write the quotes of different
\* moments; still, prices do not go back in time.  A quote that no override beats is at
\* least as recent as every refresh that was over, and every quote of the pair that had
\* been given, when it was asked for; and once there is a rate, no quote is refused.
QuotesAdvance ==
    \A l \in Locks :
        /\ \A i \in DOMAIN Quotes(l) :
              LET quote == Quotes(l)[i] IN quote.asOf # 0 => quote.asOf >= quote.floor
        /\ lock[l].pc = "refused" => lock[l].floor = 0

\* "Convert the platform fee separately so the ZAR-locked fee is consistent with the
\* rate used for the total": the two conversions look the rate up on their own, so it is
\* consistent unless a refresh or an admin wrote a rate of this very pair in between.
FeeAtRateOfTotal ==
    \A l \in Locks :
        lock[l].pc = "done" /\ ~lock[l].moved => lock[l].quotes[1].rate = lock[l].quotes[2].rate

\* The one rounding rule of the platform: a quoted amount is a whole number of cents
\* nearest to the exact product, and of two that are as near it is the even one.
NearestCents ==
    \A l \in Locks : \A i \in DOMAIN Quotes(l) :
        LET quote == Quotes(l)[i]
            error == 2 * (quote.amount * Scale - lock[l].cents[i] * quote.rate)
        IN  /\ error \in -Scale .. Scale
            /\ error \in {-Scale, Scale} => quote.amount % 2 = 0

-----------------------------------------------------------------------------
(***************************************************************************)
(* The inductive invariant behind them.                                    *)
(***************************************************************************)

QuoteRow == [rate : Nat, asOf : Nat, floor : Nat, amount : Nat]

LockRow == [pc : {"override", "rows", "done", "refused"}, pair : Pairs, cents : Nat \X Nat,
            at : Nat, floor : Nat, moved : BOOLEAN, quotes : Seq(QuoteRow)]

FxTypeOK ==
    /\ published \in Seq(Publications)
    /\ Now <= MaxPublished
    /\ rates \in [Pairs -> [1 .. MaxPublished -> Nat]]
    /\ override \in [Pairs -> Nat]
    /\ refresher \in [Refreshers -> {Resting} \cup [pc : {"writing"}, asOf : 1 .. Now,
                                                    rows : SUBSET Turns]]
    /\ known \in [Pairs -> Nat]
    /\ lock \in [Locks -> {NoLock} \cup LockRow]

Written(pair, n) == n \in 1 .. MaxPublished /\ rates[pair][n] # 0

\* A row of a pair carries quotes that were published; what was known of it was written.
RowsPublished ==
    \A pair \in Pairs :
        /\ \A n \in 1 .. MaxPublished : rates[pair][n] # 0 => n <= Now
        /\ known[pair] # 0 => Written(pair, known[pair])

\* A refresh has written every row it does not have before it.
RefreshAccounted(r) ==
    refresher[r].pc = "writing" =>
        /\ refresher[r].rows \subseteq ExpandPairs(published[refresher[r].asOf])
        /\ \A pair \in Pairs :
              Usable(published[refresher[r].asOf], pair) =>
                  \/ Written(pair, refresher[r].asOf)
                  \/ \E turn \in refresher[r].rows : PairOf(turn) = pair

\* What a conversion would take now.
Prevails(pair, rate) ==
    IF override[pair] # 0 THEN rate = override[pair]
    ELSE \E n \in 1 .. MaxPublished :
            /\ Written(pair, n)
            /\ \A m \in 1 .. MaxPublished : Written(pair, m) => m <= n
            /\ rate = rates[pair][n]

\* A lock under which nothing moved sees all there is of its pair.
SeesAll(l) ==
    /\ \A n \in 1 .. MaxPublished : Written(lock[l].pair, n) => n <= lock[l].at
    /\ lock[l].pc = "rows" => override[lock[l].pair] = 0
    /\ lock[l].quotes # <<>> => Prevails(lock[l].pair, lock[l].quotes[1].rate)

Converting(l) == lock[l].pc \in {"override", "rows"}

LockAccounted(l) ==
    lock[l].pc # "idle" =>
        /\ lock[l].at <= Now
        /\ Len(lock[l].quotes) \in IF lock[l].pc = "done" THEN {2} ELSE {0, 1}
        /\ \A i \in DOMAIN lock[l].quotes :
              LET quote == lock[l].quotes[i] IN
              /\ quote.asOf # 0 => quote.asOf >= quote.floor
              /\ quote.amount = Convert(lock[l].cents[i], quote.rate)
        /\ Converting(l) /\ lock[l].floor # 0 =>
              lock[l].floor <= lock[l].at /\ Written(lock[l].pair, lock[l].floor)
        /\ Converting(l) /\ ~lock[l].moved => SeesAll(l)
        /\ lock[l].pc = "refused" => lock[l].floor = 0
        /\ lock[l].pc = "done" /\ ~lock[l].moved =>
              lock[l].quotes[1].rate = lock[l].quotes[2].rate

\* Rows, refreshes, overrides and locks agree on what was written, seen and quoted.
FxInv ==
    /\ FxTypeOK
    /\ RowsPublished
    /\ \A r \in Refreshers : RefreshAccounted(r)
    /\ \A l \in Locks : LockAccounted(l)
=============================================================================
