------------------------------ MODULE FxProofs ------------------------------
(***************************************************************************)
(* Proofs about Fx, for any currencies, rates, amounts and numbers of      *)
(* replicas and locks: how a quote is rounded, that quotes do not go back  *)
(* in time, and when the fee is converted at the rate of the total.        *)
(***************************************************************************)
EXTENDS Fx, TLAPS

LEMMA DivMod ==
    ASSUME NEW a \in Nat, NEW d \in Nat \ {0}
    PROVE  /\ a \div d \in Nat
           /\ a % d \in 0 .. d - 1
           /\ a % d = a - (a \div d) * d
  OBVIOUS


\* Half to even: at most half a unit off, and even where it is half a unit.
LEMMA RoundsToNearest ==
    ASSUME NEW num \in Nat, NEW den \in Nat \ {0}
    PROVE  /\ RoundHalfToEven(num, den) \in Nat
           /\ 2 * (RoundHalfToEven(num, den) * den - num) \in -den .. den
           /\ 2 * (RoundHalfToEven(num, den) * den - num) \in {-den, den} =>
                 RoundHalfToEven(num, den) % 2 = 0
<1> DEFINE floor == num \div den
           frac == num % den
<1>1. /\ floor \in Nat
      /\ frac \in 0 .. den - 1
      /\ frac = num - floor * den
  BY DivMod
<1>2. ~(num < 0)
  OBVIOUS
<1>3. RoundHalfToEven(num, den) =
         IF 2 * frac < den THEN floor
         ELSE IF 2 * frac > den THEN floor + 1
         ELSE floor + (floor % 2)
  BY <1>2 DEF RoundHalfToEven
<1> HIDE DEF floor, frac
<1>4. floor % 2 \in {0, 1} /\ (floor + (floor % 2)) % 2 = 0 /\ floor + (floor % 2) \in Nat
  BY <1>1
<1>5. (floor + 1) * den = floor * den + den
  BY <1>1
<1> DEFINE product == floor * den
<1>6. product \in Nat
  BY <1>1
<1>7. floor * den = product /\ (floor + 1) * den = product + den /\ num = product + frac
  BY <1>1, <1>5
<1> HIDE DEF product
<1>8. CASE 2 * frac < den
  <2>1. RoundHalfToEven(num, den) = floor
    BY <1>3, <1>8
  <2>2. 2 * (floor * den - num) = -(2 * frac)
    BY <1>1, <1>6, <1>7
  <2>3. QED
    BY <1>1, <1>8, <2>1, <2>2
<1>9. CASE 2 * frac > den
  <2>1. RoundHalfToEven(num, den) = floor + 1
    BY <1>1, <1>3, <1>9
  <2>2. 2 * ((floor + 1) * den - num) = 2 * den - 2 * frac
    BY <1>1, <1>6, <1>7
  <2>3. QED
    BY <1>1, <1>9, <2>1, <2>2
<1>10. CASE 2 * frac = den
  <2>1. RoundHalfToEven(num, den) = floor + (floor % 2)
    BY <1>1, <1>3, <1>10
  <2>2. CASE floor % 2 = 0
    <3>1. 2 * (floor * den - num) = -den
      BY <1>1, <1>6, <1>7, <1>10
    <3>2. QED
      BY <1>1, <1>4, <2>1, <2>2, <3>1
  <2>3. CASE floor % 2 = 1
    <3>1. 2 * ((floor + 1) * den - num) = den
      BY <1>1, <1>6, <1>7, <1>10
    <3>2. QED
      BY <1>1, <1>4, <2>1, <2>3, <3>1
  <2>4. QED
    BY <1>4, <2>2, <2>3
<1>11. QED
  BY <1>1, <1>8, <1>9, <1>10

LEMMA ConvertRounds ==
    ASSUME NEW cents \in Nat, NEW rate \in Nat
    PROVE  /\ Convert(cents, rate) \in Nat
           /\ LET error == 2 * (Convert(cents, rate) * Scale - cents * rate)
              IN  /\ error \in -Scale .. Scale
                  /\ error \in {-Scale, Scale} => Convert(cents, rate) % 2 = 0
<1>1. cents * rate \in Nat /\ Scale \in Nat \ {0}
  BY FxAssumption
<1>2. QED
  BY <1>1, RoundsToNearest DEF Convert

-----------------------------------------------------------------------------

LEMMA LockType ==
    ASSUME FxInv, NEW l \in Locks
    PROVE  /\ lock[l].pc = "idle" => lock[l] = NoLock
           /\ lock[l].pc # "idle" => lock[l] \in LockRow
           /\ Converting(l) => lock[l] \in LockRow
<1>1. lock[l] \in {NoLock} \cup LockRow
  BY DEF FxInv, FxTypeOK
<1>2. QED
  BY <1>1 DEF NoLock, LockRow, Converting

\* Nothing that a lock depends on has changed, but there may be more quotes.
LEMMA LockStays ==
    ASSUME FxInv, NEW l \in Locks, lock'[l] = lock[l], Now <= Now', Now' \in Nat,
           UNCHANGED <<rates, override>>
    PROVE  LockAccounted(l)'
<1>1. CASE lock[l].pc = "idle"
  BY <1>1 DEF LockAccounted
<1>2. CASE lock[l].pc # "idle"
  <2>1. lock[l] \in LockRow /\ Now \in Nat
    BY <1>2, LockType DEF FxInv, FxTypeOK, Now
  <2>2. lock[l].at \in Nat /\ LockAccounted(l)
    BY <2>1 DEF FxInv, LockRow
  <2>3. lock'[l].at <= Now'
    BY <1>2, <2>1, <2>2 DEF LockAccounted
  <2>4. SeesAll(l) => SeesAll(l)'
    BY DEF SeesAll, Written, Prevails
  <2>5. QED
    BY <1>2, <2>2, <2>3, <2>4 DEF LockAccounted, Converting, Written
<1>3. QED
  BY <1>1, <1>2

\* A rate of a pair has moved: the locks that are converting it know.
LEMMA MovesInv ==
    ASSUME FxInv, NEW pair \in Pairs, Moves(pair), published' = published,
           \A p \in Pairs \ {pair} : rates'[p] = rates[p] /\ override'[p] = override[p],
           \A n \in 1 .. MaxPublished : Written(pair, n) => Written(pair, n)'
    PROVE  /\ lock' \in [Locks -> {NoLock} \cup LockRow]
           /\ \A l \in Locks : LockAccounted(l)'
<1>1. ASSUME NEW l \in Locks
      PROVE  lock'[l] \in {NoLock} \cup LockRow /\ LockAccounted(l)'
  <2>1. LockAccounted(l) /\ lock[l] \in {NoLock} \cup LockRow /\ Now' = Now
    BY DEF FxInv, FxTypeOK, Now
  <2>2. CASE Converting(l) /\ lock[l].pair = pair
    <3> DEFINE next == [lock[l] EXCEPT !.moved = TRUE]
    <3>1. lock[l] \in LockRow /\ lock'[l] = next
      BY <2>2, LockType DEF Moves, Converting
    <3>2. /\ next \in LockRow
          /\ next.pc = lock[l].pc
          /\ next.pair = lock[l].pair
          /\ next.cents = lock[l].cents
          /\ next.at = lock[l].at
          /\ next.floor = lock[l].floor
          /\ next.quotes = lock[l].quotes
          /\ next.moved = TRUE
      BY <3>1 DEF LockRow
    <3> HIDE DEF next
    <3>3. PICK floor \in Nat : floor = lock[l].floor
      BY <3>1 DEF LockRow
    <3>4. floor # 0 => floor <= lock[l].at /\ Written(pair, floor)'
      <4>1. floor # 0 => floor <= lock[l].at /\ Written(pair, floor)
        BY <2>1, <2>2, <3>3 DEF LockAccounted, Converting
      <4>2. QED
        BY <4>1 DEF Written
    <3>5. LockAccounted(l)'
      BY <2>1, <2>2, <3>1, <3>2, <3>3, <3>4 DEF LockAccounted, Converting
    <3>6. QED
      BY <3>1, <3>2, <3>5
  <2>3. CASE ~(Converting(l) /\ lock[l].pair = pair)
    <3>1. lock'[l] = lock[l]
      BY <2>3 DEF Moves, Converting
    <3>2. CASE Converting(l)
      <4>1. lock[l].pair \in Pairs \ {pair}
        BY <2>3, <3>2, LockType DEF LockRow
      <4>2. \A n : Written(lock[l].pair, n)' <=> Written(lock[l].pair, n)
        BY <3>1, <4>1 DEF Written
      <4>3. SeesAll(l) => SeesAll(l)'
        BY <3>1, <4>1, <4>2 DEF SeesAll, Prevails
      <4>4. QED
        BY <2>1, <3>1, <4>2, <4>3 DEF LockAccounted, Converting
    <3>3. CASE ~Converting(l)
      BY <2>1, <3>1, <3>3 DEF LockAccounted, Converting
    <3>4. QED
      BY <2>1, <3>1, <3>2, <3>3
  <2>4. QED
    BY <2>2, <2>3
<1>2. QED
  BY <1>1 DEF Moves

LEMMA OneRatePrevails ==
    ASSUME NEW pair, NEW rate, NEW other, Prevails(pair, rate), Prevails(pair, other)
    PROVE  rate = other
  BY FxAssumption DEF Prevails, Written

\* A quote is appended, and the conversion of the fee sees what there is now.
LEMMA QuotedInv ==
    ASSUME FxInv, NEW l \in Locks, NEW rate \in Nat, NEW asOf \in Nat, NEW newKnown \in Nat,
           Quoted(l, rate, asOf, newKnown), Converting(l),
           UNCHANGED <<published, rates, override>>,
           NEW pair \in Pairs, pair = lock[l].pair,
           asOf # 0 => asOf >= lock[l].floor,
           newKnown # 0 => newKnown <= Now /\ Written(pair, newKnown),
           ~lock[l].moved => Prevails(pair, rate)
    PROVE  /\ lock' \in [Locks -> {NoLock} \cup LockRow]
           /\ \A m \in Locks : LockAccounted(m)'
<1>1. PICK before \in Seq(QuoteRow) : before = lock[l].quotes
  BY LockType DEF LockRow
<1>2. PICK cents \in Nat \X Nat : cents = lock[l].cents
  BY LockType DEF LockRow
<1>3. /\ lock[l] \in LockRow
      /\ LockAccounted(l)
      /\ lock[l].pc \in {"override", "rows"}
      /\ Len(before) \in {0, 1}
      /\ Now \in Nat
      /\ Now' = Now
  <2>1. lock[l] \in LockRow /\ lock[l].pc \in {"override", "rows"} /\ LockAccounted(l)
    BY LockType DEF FxInv, Converting
  <2>2. Len(before) \in {0, 1}
    BY <1>1, <2>1 DEF LockAccounted
  <2>3. Now \in Nat /\ Now' = Now
    BY DEF FxInv, FxTypeOK, Now
  <2>4. QED
    BY <2>1, <2>2, <2>3
<1> DEFINE turn == Len(before) + 1
           quote == [rate |-> rate, asOf |-> asOf, floor |-> lock[l].floor,
                     amount |-> Convert(cents[turn], rate)]
           quotes == Append(before, quote)
           next == [lock[l] EXCEPT !.quotes = quotes,
                                   !.at     = Now,
                                   !.floor  = newKnown,
                                   !.pc     = IF Len(quotes) = 2 THEN "done" ELSE "override"]
<1>4. lock' = [lock EXCEPT ![l] = next]
  BY <1>1, <1>2 DEF Quoted
<1>5. /\ turn \in {1, 2}
      /\ cents[turn] \in Nat
  <2>1. cents[1] \in Nat /\ cents[2] \in Nat
    OBVIOUS
  <2>2. turn \in {1, 2}
    <3>1. Len(before) = 0 \/ Len(before) = 1
      BY <1>3
    <3>2. QED
      BY <3>1
  <2> HIDE DEF turn
  <2>3. CASE turn = 1
    BY <2>1, <2>3
  <2>4. CASE turn = 2
    BY <2>1, <2>4
  <2>5. QED
    BY <2>2, <2>3, <2>4
<1>6. /\ quote \in QuoteRow
      /\ quote.rate = rate
      /\ quote.asOf # 0 => quote.asOf >= quote.floor
      /\ quote.amount = Convert(cents[turn], rate)
  <2>1. Convert(cents[turn], rate) \in Nat
    BY <1>5, ConvertRounds
  <2>2. lock[l].floor \in Nat
    BY <1>3 DEF LockRow
  <2>3. QED
    BY <2>1, <2>2 DEF QuoteRow
<1>7. /\ quotes \in Seq(QuoteRow)
      /\ Len(quotes) = turn
      /\ DOMAIN before = 1 .. Len(before)
      /\ DOMAIN quotes = 1 .. turn
      /\ \A i \in DOMAIN before : quotes[i] = before[i]
      /\ quotes[turn] = quote
  <2> HIDE DEF quote
  <2>1. QED
    BY <1>6
<1>8. /\ next \in LockRow
      /\ next.quotes = quotes
      /\ next.at = Now
      /\ next.floor = newKnown
      /\ next.pc = IF turn = 2 THEN "done" ELSE "override"
      /\ next.pair = pair
      /\ next.cents = cents
      /\ next.moved = lock[l].moved
  <2> HIDE DEF quotes, turn
  <2>1. QED
    BY <1>2, <1>3, <1>7 DEF LockRow
<1> HIDE DEF next
<1>9. /\ lock' \in [Locks -> {NoLock} \cup LockRow]
      /\ lock'[l] = next
      /\ \A m \in Locks \ {l} : lock'[m] = lock[m]
  BY <1>4, <1>8 DEF FxInv, FxTypeOK
<1>10. ASSUME NEW i \in DOMAIN quotes
       PROVE  /\ quotes[i].asOf # 0 => quotes[i].asOf >= quotes[i].floor
              /\ quotes[i].amount = Convert(cents[i], quotes[i].rate)
  <2> HIDE DEF quote, quotes
  <2>1. CASE i = turn
    BY <1>6, <1>7, <2>1
  <2>2. CASE i # turn
    <3>1. i \in DOMAIN before /\ quotes[i] = before[i]
      BY <1>3, <1>7, <2>2
    <3>2. QED
      BY <1>1, <1>2, <1>3, <3>1 DEF LockAccounted
  <2>3. QED
    BY <2>1, <2>2
<1> HIDE DEF quote, quotes
<1>11. LockAccounted(l)'
  <2>1. PICK rate1 \in Nat : rate1 = quotes[1].rate
    <3>1. quotes[1] \in QuoteRow
      BY <1>5, <1>7
    <3>2. QED
      BY <3>1 DEF QuoteRow
  <2>2. ~lock[l].moved => Prevails(pair, rate1)
    <3>1. CASE turn = 1
      BY <1>6, <1>7, <2>1, <3>1
    <3>2. CASE turn = 2
      <4>1. before # <<>> /\ quotes[1] = before[1]
        BY <1>7, <3>2
      <4>2. QED
        BY <1>1, <1>3, <2>1, <4>1 DEF LockAccounted, SeesAll, Converting
    <3>3. QED
      BY <1>5, <3>1, <3>2
  <2>3. ~lock[l].moved => Prevails(pair, rate1)'
    BY <2>2 DEF Prevails, Written
  <2>4. \A n \in 1 .. MaxPublished : Written(pair, n)' => n <= Now
    BY DEF FxInv, RowsPublished, Written
  <2>5. newKnown # 0 => newKnown <= Now /\ Written(pair, newKnown)'
    BY DEF Written
  <2>6. CASE turn = 1
    <3>1. next.pc = "override"
      BY <1>8, <2>6
    <3>2. ~next.moved => SeesAll(l)'
      BY <1>8, <1>9, <2>1, <2>3, <2>4, <3>1 DEF SeesAll
    <3>3. QED
      BY <1>3, <1>7, <1>8, <1>9, <1>10, <2>5, <2>6, <3>1, <3>2 DEF LockAccounted, Converting
  <2>7. CASE turn = 2
    <3>1. next.pc = "done"
      BY <1>8, <2>7
    <3>2. quotes[2].rate = rate
      BY <1>6, <1>7, <2>7
    <3>3. ~next.moved => quotes[1].rate = quotes[2].rate
      BY <1>8, <2>1, <2>2, <3>2, OneRatePrevails
    <3>4. QED
      BY <1>3, <1>7, <1>8, <1>9, <1>10, <2>7, <3>1, <3>3 DEF LockAccounted, Converting
  <2>8. QED
    BY <1>5, <2>6, <2>7
<1>12. ASSUME NEW m \in Locks
       PROVE  LockAccounted(m)'
  <2>1. CASE m = l
    BY <1>11, <2>1
  <2>2. CASE m # l
    BY <1>3, <1>9, <2>2, LockStays
  <2>3. QED
    BY <2>1, <2>2
<1>13. QED
  BY <1>9, <1>12
-----------------------------------------------------------------------------
(***************************************************************************)
(* The steps, one by one.                                                  *)
(***************************************************************************)

LEMMA RefreshStays ==
    ASSUME FxInv, NEW r \in Refreshers, refresher'[r] = refresher[r],
           \A n \in 1 .. Now : published'[n] = published[n],
           \A pair \in Pairs, n \in 1 .. MaxPublished : Written(pair, n) => Written(pair, n)'
    PROVE  RefreshAccounted(r)'
<1>1. CASE refresher[r].pc = "writing"
  <2>1. refresher[r].asOf \in 1 .. Now /\ Now <= MaxPublished /\ Now \in Nat
    BY <1>1 DEF FxInv, FxTypeOK, Resting, Now
  <2>2. PICK asOf \in 1 .. MaxPublished : asOf = refresher[r].asOf
    BY <2>1, FxAssumption
  <2>3. published'[asOf] = published[asOf] /\ RefreshAccounted(r)
    BY <2>1, <2>2 DEF FxInv
  <2>4. QED
    BY <1>1, <2>2, <2>3 DEF RefreshAccounted
<1>2. CASE refresher[r].pc # "writing"
  BY <1>2 DEF RefreshAccounted
<1>3. QED
  BY <1>1, <1>2

\* A step of the locks, and perhaps of what is known.
LEMMA LockStepInv ==
    ASSUME FxInv, UNCHANGED <<published, rates, override, refresher>>,
           known' \in [Pairs -> Nat],
           \A pair \in Pairs : known'[pair] # 0 => Written(pair, known'[pair]),
           lock' \in [Locks -> {NoLock} \cup LockRow],
           \A l \in Locks : LockAccounted(l)'
    PROVE  FxInv'
<1>1. FxTypeOK'
  BY DEF FxInv, FxTypeOK, Now
<1>2. RowsPublished'
  BY DEF FxInv, RowsPublished, Written, Now
<1>3. \A r \in Refreshers : RefreshAccounted(r)'
  BY RefreshStays DEF Written
<1>4. QED
  BY <1>1, <1>2, <1>3 DEF FxInv

LEMMA PublishInv ==
    ASSUME FxInv, NEW quotes \in Publications, Publish(quotes)
    PROVE  FxInv'
<1>1. /\ published' = Append(published, quotes)
      /\ Len(published) < MaxPublished
      /\ UNCHANGED <<rates, override, refresher, known, lock>>
      /\ FxTypeOK
  BY DEF Publish, FxInv
<1>2. /\ published' \in Seq(Publications)
      /\ Now \in Nat
      /\ Now' = Now + 1
      /\ Now + 1 <= MaxPublished
      /\ \A n \in 1 .. Now : published'[n] = published[n]
  BY <1>1, FxAssumption DEF FxTypeOK, Now
<1>3. FxTypeOK'
  <2>1. 1 .. Now \subseteq 1 .. Now'
    BY <1>2
  <2>2. refresher' \in [Refreshers -> {Resting} \cup [pc : {"writing"}, asOf : 1 .. Now',
                                                      rows : SUBSET Turns]]
    BY <1>1, <2>1 DEF FxTypeOK
  <2>3. QED
    BY <1>1, <1>2, <2>2 DEF FxTypeOK
<1>4. RowsPublished'
  <2>1. ASSUME NEW pair \in Pairs, NEW n \in 1 .. MaxPublished, rates'[pair][n] # 0
        PROVE  n <= Now'
    <3>1. n <= Now
      BY <1>1, <2>1 DEF FxInv, RowsPublished
    <3>2. QED
      BY <1>2, <3>1
  <2>2. QED
    BY <1>1, <2>1 DEF FxInv, RowsPublished, Written
<1>5. \A r \in Refreshers : RefreshAccounted(r)'
  BY <1>1, <1>2, RefreshStays DEF Written
<1>6. \A l \in Locks : LockAccounted(l)'
  <2>1. Now <= Now' /\ Now' \in Nat
    BY <1>2
  <2>2. QED
    BY <1>1, <2>1, LockStays
<1>7. QED
  BY <1>3, <1>4, <1>5, <1>6 DEF FxInv

\* A step of one refresh that touches neither rows nor locks.
LEMMA RefreshStepInv ==
    ASSUME FxInv, UNCHANGED <<published, rates, override, lock>>,
           NEW r \in Refreshers,
           NEW state \in {Resting} \cup [pc : {"writing"}, asOf : 1 .. Now, rows : SUBSET Turns],
           refresher' = [refresher EXCEPT ![r] = state],
           RefreshAccounted(r)',
           known' \in [Pairs -> Nat],
           \A pair \in Pairs : known'[pair] # 0 => Written(pair, known'[pair])
    PROVE  FxInv'
<1>1. /\ refresher' \in [Refreshers -> {Resting} \cup [pc : {"writing"}, asOf : 1 .. Now,
                                                      rows : SUBSET Turns]]
      /\ \A q \in Refreshers \ {r} : refresher'[q] = refresher[q]
  BY DEF FxInv, FxTypeOK
<1>2. FxTypeOK'
  BY <1>1 DEF FxInv, FxTypeOK, Now
<1>3. RowsPublished'
  BY DEF FxInv, RowsPublished, Written, Now
<1>4. ASSUME NEW q \in Refreshers
      PROVE  RefreshAccounted(q)'
  <2>1. CASE q = r
    BY <2>1
  <2>2. CASE q # r
    BY <1>1, <2>2, RefreshStays DEF Written
  <2>3. QED
    BY <2>1, <2>2
<1>5. \A l \in Locks : LockAccounted(l)'
  <2>1. Now <= Now' /\ Now' \in Nat
    BY DEF FxInv, FxTypeOK, Now
  <2>2. QED
    BY <2>1, LockStays
<1>6. QED
  BY <1>2, <1>3, <1>4, <1>5 DEF FxInv

LEMMA KnownStays ==
    ASSUME FxInv, known' = known
    PROVE  /\ known' \in [Pairs -> Nat]
           /\ \A pair \in Pairs : known'[pair] # 0 => Written(pair, known'[pair])
  BY DEF FxInv, FxTypeOK, RowsPublished

LEMMA FetchInv ==
    ASSUME FxInv, NEW r \in Refreshers, Fetch(r)
    PROVE  FxInv'
<1> DEFINE state == [pc |-> "writing", asOf |-> Now, rows |-> ExpandPairs(published[Now])]
<1>1. /\ published # <<>>
      /\ refresher' = [refresher EXCEPT ![r] = state]
      /\ UNCHANGED <<published, rates, override, known, lock>>
      /\ FxTypeOK
  BY DEF Fetch, FxInv
<1>2. Now \in 1 .. Now
  BY <1>1 DEF FxTypeOK, Now
<1>3. /\ state \in [pc : {"writing"}, asOf : 1 .. Now, rows : SUBSET Turns]
      /\ state.asOf = Now
      /\ state.rows = ExpandPairs(published[Now])
  BY <1>2 DEF ExpandPairs
<1> HIDE DEF state
<1>4. refresher'[r] = state
  BY <1>1 DEF FxTypeOK
<1>5. RefreshAccounted(r)'
  <2>1. ASSUME NEW pair \in Pairs, Usable(published[Now], pair)
        PROVE  \E turn \in ExpandPairs(published[Now]) : PairOf(turn) = pair
    <3>1. PICK i \in DOMAIN SUPPORTED, j \in DOMAIN SUPPORTED :
             pair = <<SUPPORTED[i], SUPPORTED[j]>>
      BY DEF Pairs, Currencies
    <3>2. <<i, j>> \in Turns /\ PairOf(<<i, j>>) = pair
      BY <3>1 DEF Turns, PairOf
    <3>3. QED
      BY <2>1, <3>2 DEF ExpandPairs
  <2>2. published'[Now] = published[Now]
    BY <1>1
  <2>3. QED
    BY <1>3, <1>4, <2>1, <2>2 DEF RefreshAccounted
<1>6. QED
  BY <1>1, <1>3, <1>5, KnownStays, RefreshStepInv
LEMMA StoredRateType ==
    ASSUME NEW quotes \in Publications, NEW pair \in Pairs, Usable(quotes, pair)
    PROVE  /\ StoredRate(quotes[pair[2]], quotes[pair[1]]) \in Nat
           /\ StoredRate(quotes[pair[2]], quotes[pair[1]]) # 0
<1>1. pair[1] \in Currencies /\ pair[2] \in Currencies
  BY DEF Pairs
<1>2. PICK a \in Nat : a = quotes[pair[1]]
  BY <1>1, FxAssumption
<1>3. PICK b \in Nat : b = quotes[pair[2]]
  BY <1>1, FxAssumption
<1>4. a > 0
  BY <1>2 DEF Usable
<1>5. 2 * b * Scale + a \in Nat /\ 2 * a \in Nat \ {0}
  BY <1>4, FxAssumption
<1>6. StoredRate(b, a) \in Nat
  BY <1>5, DivMod DEF StoredRate
<1>7. StoredRate(b, a) > 0
  BY <1>2, <1>3, RatesAssumption
<1>8. QED
  BY <1>2, <1>3, <1>6, <1>7

LEMMA UpsertInv ==
    ASSUME FxInv, NEW r \in Refreshers, Upsert(r)
    PROVE  FxInv'
<1>1. PICK turn \in refresher[r].rows :
         LET pair   == PairOf(turn)
             quotes == published[refresher[r].asOf]
         IN
         /\ refresher' = [refresher EXCEPT ![r].rows = @ \ {turn}]
         /\ rates' = [rates EXCEPT ![pair][refresher[r].asOf] =
                         StoredRate(quotes[pair[2]], quotes[pair[1]])]
         /\ IF rates' = rates THEN UNCHANGED lock ELSE Moves(pair)
         /\ UNCHANGED <<published, override, known>>
  BY DEF Upsert
<1>2. /\ refresher[r].pc = "writing"
      /\ refresher[r] \in [pc : {"writing"}, asOf : 1 .. Now, rows : SUBSET Turns]
  BY <1>1 DEF FxInv, FxTypeOK, Resting
<1>3. Now \in Nat /\ Now <= MaxPublished /\ MaxPublished \in Nat /\ Now' = Now
  BY <1>1, FxAssumption DEF FxInv, FxTypeOK, Now
<1>4. PICK asOf \in 1 .. MaxPublished : asOf = refresher[r].asOf /\ asOf <= Now
  BY <1>2, <1>3
<1>5. PICK quotes \in Publications : quotes = published[asOf]
  <2>1. asOf \in 1 .. Len(published) /\ published \in Seq(Publications)
    BY <1>3, <1>4 DEF FxInv, FxTypeOK, Now
  <2>2. QED
    BY <2>1
<1>6. PICK pair \in Pairs : pair = PairOf(turn)
  BY <1>1, <1>2 DEF Turns, PairOf, Pairs, Currencies
<1>7. PICK rows \in SUBSET Turns : rows = refresher[r].rows
  BY <1>2
<1>8. RefreshAccounted(r) /\ Usable(quotes, pair)
  <2>1. RefreshAccounted(r)
    BY DEF FxInv
  <2>2. QED
    BY <1>1, <1>2, <1>4, <1>5, <1>6, <2>1 DEF RefreshAccounted, ExpandPairs
<1>9. PICK value \in Nat : value = StoredRate(quotes[pair[2]], quotes[pair[1]]) /\ value # 0
  BY <1>8, StoredRateType
<1> DEFINE column == [rates[pair] EXCEPT ![asOf] = value]
           state == [refresher[r] EXCEPT !.rows = rows \ {turn}]
<1>10. /\ rates' = [rates EXCEPT ![pair] = column]
       /\ refresher' = [refresher EXCEPT ![r] = state]
  BY <1>1, <1>4, <1>5, <1>6, <1>7, <1>9
<1>11. rates \in [Pairs -> [1 .. MaxPublished -> Nat]]
  BY DEF FxInv, FxTypeOK
<1>12. /\ column \in [1 .. MaxPublished -> Nat]
       /\ column[asOf] = value
       /\ \A n \in (1 .. MaxPublished) \ {asOf} : column[n] = rates[pair][n]
  BY <1>11
<1> HIDE DEF column
<1>13. /\ rates' \in [Pairs -> [1 .. MaxPublished -> Nat]]
       /\ rates'[pair] = column
       /\ \A p \in Pairs \ {pair} : rates'[p] = rates[p]
  BY <1>10, <1>11, <1>12
<1>14. /\ state \in [pc : {"writing"}, asOf : 1 .. Now, rows : SUBSET Turns]
       /\ state.asOf = asOf
       /\ state.rows = rows \ {turn}
  BY <1>2, <1>4
<1> HIDE DEF state
<1>15. /\ refresher' \in [Refreshers -> {Resting} \cup [pc : {"writing"}, asOf : 1 .. Now,
                                                       rows : SUBSET Turns]]
       /\ refresher'[r] = state
       /\ \A q \in Refreshers \ {r} : refresher'[q] = refresher[q]
  BY <1>10, <1>14 DEF FxInv, FxTypeOK
<1>16. \A p \in Pairs, n \in 1 .. MaxPublished : Written(p, n) => Written(p, n)'
  BY <1>9, <1>12, <1>13 DEF Written
<1>17. Written(pair, asOf)'
  BY <1>9, <1>12, <1>13 DEF Written
<1>18. RowsPublished'
  <2>1. ASSUME NEW p \in Pairs, NEW n \in 1 .. MaxPublished, rates'[p][n] # 0
        PROVE  n <= Now
    <3>1. CASE p = pair /\ n = asOf
      BY <1>4, <3>1
    <3>2. CASE ~(p = pair /\ n = asOf)
      <4>1. rates'[p][n] = rates[p][n]
        BY <1>12, <1>13, <3>2
      <4>2. QED
        BY <2>1, <4>1 DEF FxInv, RowsPublished
    <3>3. QED
      BY <3>1, <3>2
  <2>2. ASSUME NEW p \in Pairs, known[p] # 0
        PROVE  Written(p, known[p])'
    <3>1. PICK n : n = known[p] /\ n \in 1 .. MaxPublished /\ Written(p, n)
      BY <2>2 DEF FxInv, RowsPublished, Written
    <3>2. known'[p] = n /\ Written(p, n)'
      BY <1>1, <1>16, <3>1
    <3>3. QED
      BY <3>2 DEF Written
  <2>3. QED
    BY <1>1, <1>3, <2>1, <2>2 DEF RowsPublished
<1>19. ASSUME NEW q \in Refreshers
       PROVE  RefreshAccounted(q)'
  <2>1. CASE q = r
    <3>1. /\ rows \subseteq ExpandPairs(quotes)
          /\ \A p \in Pairs : Usable(quotes, p) =>
                Written(p, asOf) \/ \E t \in rows : PairOf(t) = p
      BY <1>2, <1>4, <1>5, <1>7, <1>8 DEF RefreshAccounted
    <3>2. \A p \in Pairs : Usable(quotes, p) =>
             Written(p, asOf)' \/ \E t \in rows \ {turn} : PairOf(t) = p
      BY <1>6, <1>16, <1>17, <3>1
    <3>3. published'[asOf] = quotes
      BY <1>1, <1>5
    <3>4. QED
      BY <1>14, <1>15, <2>1, <3>1, <3>2, <3>3 DEF RefreshAccounted
  <2>2. CASE q # r
    <3>1. refresher'[q] = refresher[q]
      BY <1>15, <2>2
    <3>2. published' = published
      BY <1>1
    <3>3. QED
      BY <1>16, <3>1, <3>2, RefreshStays
  <2>3. QED
    BY <2>1, <2>2
<1>20. /\ lock' \in [Locks -> {NoLock} \cup LockRow]
       /\ \A l \in Locks : LockAccounted(l)'
  <2>1. CASE rates' = rates
    <3>1. Now <= Now' /\ Now' \in Nat
      BY <1>3
    <3>2. UNCHANGED <<lock, rates, override>>
      BY <1>1, <2>1
    <3>3. \A l \in Locks : LockAccounted(l)'
      BY <3>1, <3>2, LockStays
    <3>4. QED
      BY <3>2, <3>3 DEF FxInv, FxTypeOK
  <2>2. CASE rates' # rates
    BY <1>1, <1>6, <1>13, <1>16, <2>2, MovesInv
  <2>3. QED
    BY <2>1, <2>2
<1>21. FxTypeOK'
  BY <1>1, <1>3, <1>13, <1>15, <1>20 DEF FxInv, FxTypeOK
<1>22. QED
  BY <1>18, <1>19, <1>20, <1>21 DEF FxInv
LEMMA RefreshEndsInv ==
    ASSUME FxInv, NEW r \in Refreshers, RefreshEnds(r)
    PROVE  FxInv'
<1>1. /\ refresher[r].pc = "writing"
      /\ refresher[r].rows = {}
      /\ refresher' = [refresher EXCEPT ![r] = Resting]
      /\ known' = [pair \in Pairs |->
                     IF Usable(published[refresher[r].asOf], pair)
                     THEN Larger(known[pair], refresher[r].asOf) ELSE known[pair]]
      /\ UNCHANGED <<published, rates, override, lock>>
      /\ FxTypeOK
  BY DEF RefreshEnds, FxInv
<1>2. refresher[r].asOf \in Nat
  BY <1>1 DEF FxTypeOK, Resting
<1>3. RefreshAccounted(r)'
  <2>1. refresher'[r].pc # "writing"
    BY <1>1 DEF FxTypeOK, Resting
  <2>2. QED
    BY <2>1 DEF RefreshAccounted
<1>4. known' \in [Pairs -> Nat]
  BY <1>1, <1>2 DEF FxTypeOK, Larger
<1>5. ASSUME NEW pair \in Pairs, known'[pair] # 0
      PROVE  Written(pair, known'[pair])
  <2>1. CASE known'[pair] = known[pair]
    BY <1>5, <2>1 DEF FxInv, RowsPublished
  <2>2. CASE known'[pair] # known[pair]
    <3>1. Usable(published[refresher[r].asOf], pair) /\ known'[pair] = refresher[r].asOf
      BY <1>1, <2>2 DEF Larger
    <3>2. QED
      BY <1>1, <3>1 DEF FxInv, RefreshAccounted
  <2>3. QED
    BY <2>1, <2>2
<1>6. QED
  BY <1>1, <1>3, <1>4, <1>5, RefreshStepInv

LEMMA RefreshBreaksInv ==
    ASSUME FxInv, NEW r \in Refreshers, RefreshBreaks(r)
    PROVE  FxInv'
<1>1. /\ refresher' = [refresher EXCEPT ![r] = Resting]
      /\ UNCHANGED <<published, rates, override, known, lock>>
  BY DEF RefreshBreaks
<1>2. RefreshAccounted(r)'
  <2>1. refresher'[r].pc # "writing"
    BY <1>1 DEF FxInv, FxTypeOK, Resting
  <2>2. QED
    BY <2>1 DEF RefreshAccounted
<1>3. QED
  BY <1>1, <1>2, KnownStays, RefreshStepInv

\* An override is pinned or taken away.
LEMMA OverrideInv ==
    ASSUME FxInv, NEW pair \in Pairs, NEW rate \in Nat,
           override' = [override EXCEPT ![pair] = rate],
           IF override' = override THEN UNCHANGED lock ELSE Moves(pair),
           UNCHANGED <<published, rates, refresher, known>>
    PROVE  FxInv'
<1>1. /\ override' \in [Pairs -> Nat]
      /\ \A p \in Pairs \ {pair} : override'[p] = override[p]
      /\ Now' = Now
      /\ Now \in Nat
  BY DEF FxInv, FxTypeOK, Now
<1>2. /\ lock' \in [Locks -> {NoLock} \cup LockRow]
      /\ \A l \in Locks : LockAccounted(l)'
  <2>1. CASE override' = override
    <3>1. UNCHANGED <<lock, rates, override>> /\ Now <= Now' /\ Now' \in Nat
      BY <1>1, <2>1
    <3>2. \A l \in Locks : LockAccounted(l)'
      BY <3>1, LockStays
    <3>3. QED
      BY <3>1, <3>2 DEF FxInv, FxTypeOK
  <2>2. CASE override' # override
    <3>1. \A n \in 1 .. MaxPublished : Written(pair, n) => Written(pair, n)'
      BY DEF Written
    <3>2. QED
      BY <1>1, <2>2, <3>1, MovesInv
  <2>3. QED
    BY <2>1, <2>2
<1>3. FxTypeOK'
  BY <1>1, <1>2 DEF FxInv, FxTypeOK
<1>4. RowsPublished'
  BY <1>1 DEF FxInv, RowsPublished, Written
<1>5. \A r \in Refreshers : RefreshAccounted(r)'
  BY RefreshStays DEF Written
<1>6. QED
  BY <1>2, <1>3, <1>4, <1>5 DEF FxInv

LEMMA BeginInv ==
    ASSUME FxInv, NEW l \in Locks, NEW amounts \in Amounts, Begin(l, amounts)
    PROVE  FxInv'
<1>1. PICK pair \in Pairs : pair = <<amounts.currency, Base>>
  BY FxAssumption DEF Pairs
<1>2. PICK floor \in Nat : floor = known[pair]
  BY DEF FxInv, FxTypeOK
<1> DEFINE state == [pc |-> "override", pair |-> pair,
                     cents |-> <<amounts.total, amounts.fee>>, at |-> Now,
                     floor |-> floor, moved |-> FALSE, quotes |-> <<>>]
<1>3. /\ lock' = [lock EXCEPT ![l] = state]
      /\ UNCHANGED <<published, rates, override, refresher, known>>
  BY <1>1, <1>2 DEF Begin
<1>4. Now \in Nat /\ Now' = Now
  BY <1>3 DEF FxInv, FxTypeOK, Now
<1>5. state \in LockRow
  <2>1. <<amounts.total, amounts.fee>> \in Nat \X Nat
    BY FxAssumption
  <2>2. <<>> \in Seq(QuoteRow)
    OBVIOUS
  <2>3. QED
    BY <1>4, <2>1, <2>2 DEF LockRow
<1>6. /\ state.pc = "override"
      /\ state.pair = pair
      /\ state.at = Now
      /\ state.floor = floor
      /\ state.quotes = <<>>
  OBVIOUS
<1> HIDE DEF state
<1>7. /\ lock' \in [Locks -> {NoLock} \cup LockRow]
      /\ lock'[l] = state
      /\ \A m \in Locks \ {l} : lock'[m] = lock[m]
  BY <1>3, <1>5 DEF FxInv, FxTypeOK
<1>8. \A n \in 1 .. MaxPublished : Written(pair, n)' => n <= Now
  BY <1>3 DEF FxInv, RowsPublished, Written
<1>9. floor # 0 => floor <= Now /\ Written(pair, floor)'
  BY <1>2, <1>3, <1>8 DEF FxInv, RowsPublished, Written
<1>10. SeesAll(l)'
  BY <1>6, <1>7, <1>8 DEF SeesAll
<1>11. LockAccounted(l)'
  BY <1>4, <1>6, <1>7, <1>9, <1>10 DEF LockAccounted, Converting
<1>12. ASSUME NEW m \in Locks
       PROVE  LockAccounted(m)'
  <2>1. CASE m = l
    BY <1>11, <2>1
  <2>2. CASE m # l
    BY <1>3, <1>4, <1>7, <2>2, LockStays
  <2>3. QED
    BY <2>1, <2>2
<1>13. QED
  BY <1>3, <1>7, <1>12, KnownStays, LockStepInv
\* A lock goes on with the rows, or is refused: its quotes are as they were.
LEMMA LockGoesOn ==
    ASSUME FxInv, NEW l \in Locks, NEW point \in {"rows", "refused"},
           lock' = [lock EXCEPT ![l].pc = point], Converting(l),
           UNCHANGED <<published, rates, override, refresher, known>>,
           IF point = "rows" THEN override[lock[l].pair] = 0
           ELSE \A n \in 1 .. lock[l].at : rates[lock[l].pair][n] = 0
    PROVE  FxInv'
<1>1. lock[l] \in LockRow /\ LockAccounted(l)
  BY LockType DEF FxInv
<1> DEFINE state == [lock[l] EXCEPT !.pc = point]
<1>2. /\ state \in LockRow
      /\ state.pc = point
      /\ state.pair = lock[l].pair
      /\ state.cents = lock[l].cents
      /\ state.at = lock[l].at
      /\ state.floor = lock[l].floor
      /\ state.moved = lock[l].moved
      /\ state.quotes = lock[l].quotes
      /\ lock' = [lock EXCEPT ![l] = state]
  BY <1>1 DEF LockRow
<1> HIDE DEF state
<1>3. /\ lock' \in [Locks -> {NoLock} \cup LockRow]
      /\ lock'[l] = state
      /\ \A m \in Locks \ {l} : lock'[m] = lock[m]
  BY <1>2 DEF FxInv, FxTypeOK
<1>4. PICK pair \in Pairs : pair = lock[l].pair
  BY <1>1 DEF LockRow
<1>5. PICK floor \in Nat : floor = lock[l].floor
  BY <1>1 DEF LockRow
<1>6. /\ lock[l].at \in Nat
      /\ Now' = Now
      /\ \A n : Written(pair, n)' <=> Written(pair, n)
      /\ \A rate : Prevails(pair, rate)' <=> Prevails(pair, rate)
  BY <1>1 DEF LockRow, Now, Written, Prevails
<1>7. CASE point = "rows"
  <2>1. ~lock[l].moved => SeesAll(l)'
    <3>1. ~lock[l].moved => SeesAll(l)
      BY <1>1 DEF LockAccounted, Converting
    <3>2. QED
      BY <1>2, <1>3, <1>4, <1>6, <1>7, <3>1 DEF SeesAll
  <2>2. LockAccounted(l)'
    BY <1>1, <1>2, <1>3, <1>4, <1>5, <1>6, <1>7, <2>1 DEF LockAccounted, Converting
  <2>3. QED
    <3>1. ASSUME NEW m \in Locks, m # l
          PROVE  LockAccounted(m)'
      <4>1. lock'[m] = lock[m] /\ Now \in Nat
        BY <1>3, <3>1 DEF FxInv, FxTypeOK, Now
      <4>2. QED
        BY <1>6, <4>1, LockStays
    <3>2. QED
      BY <1>3, <2>2, <3>1, KnownStays, LockStepInv
<1>8. CASE point = "refused"
  <2>1. floor = 0
    <3>1. floor # 0 => floor <= lock[l].at /\ Written(pair, floor)
      BY <1>1, <1>4, <1>5 DEF LockAccounted, Converting
    <3>2. \A n \in 1 .. lock[l].at : rates[pair][n] = 0
      BY <1>4, <1>8
    <3>3. floor # 0 => floor \in 1 .. lock[l].at
      BY <1>6, <3>1
    <3>4. QED
      BY <3>1, <3>2, <3>3 DEF Written
  <2>2. LockAccounted(l)'
    BY <1>1, <1>2, <1>3, <1>5, <1>6, <1>8, <2>1 DEF LockAccounted, Converting
  <2>3. QED
    <3>1. ASSUME NEW m \in Locks, m # l
          PROVE  LockAccounted(m)'
      <4>1. lock'[m] = lock[m] /\ Now \in Nat
        BY <1>3, <3>1 DEF FxInv, FxTypeOK, Now
      <4>2. QED
        BY <1>6, <4>1, LockStays
    <3>2. QED
      BY <1>3, <2>2, <3>1, KnownStays, LockStepInv
<1>9. QED
  BY <1>7, <1>8

LEMMA ReadOverrideInv ==
    ASSUME FxInv, NEW l \in Locks, ReadOverride(l)
    PROVE  FxInv'
<1>1. /\ lock[l].pc = "override"
      /\ UNCHANGED <<published, rates, override, refresher, known>>
      /\ Converting(l)
  BY DEF ReadOverride, Converting
<1>2. PICK pair \in Pairs : pair = lock[l].pair
  BY <1>1, LockType DEF LockRow
<1>3. CASE override[pair] # 0
  <2>1. PICK rate \in Nat : rate = override[pair]
    BY DEF FxInv, FxTypeOK
  <2>2. PICK newKnown \in Nat : newKnown = known[pair]
    BY DEF FxInv, FxTypeOK
  <2>3. Quoted(l, rate, 0, newKnown)
    BY <1>2, <1>3, <2>1, <2>2 DEF ReadOverride, OverrideOf
  <2>4. newKnown # 0 => newKnown <= Now /\ Written(pair, newKnown)
    BY <2>2 DEF FxInv, RowsPublished, Written
  <2>5. Prevails(pair, rate)
    BY <1>3, <2>1 DEF Prevails
  <2>6. /\ lock' \in [Locks -> {NoLock} \cup LockRow]
        /\ \A m \in Locks : LockAccounted(m)'
    BY <1>1, <1>2, <2>3, <2>4, <2>5, QuotedInv
  <2>7. QED
    BY <1>1, <2>6, KnownStays, LockStepInv
<1>4. CASE override[pair] = 0
  <2>1. lock' = [lock EXCEPT ![l].pc = "rows"]
    BY <1>2, <1>4 DEF ReadOverride, OverrideOf
  <2>2. QED
    BY <1>1, <1>2, <1>4, <2>1, LockGoesOn
<1>5. QED
  BY <1>3, <1>4

LEMMA ReadRowsInv ==
    ASSUME FxInv, NEW l \in Locks, ReadRows(l)
    PROVE  FxInv'
<1>1. /\ lock[l].pc = "rows"
      /\ UNCHANGED <<published, rates, override, refresher>>
      /\ Converting(l)
      /\ lock[l] \in LockRow
      /\ LockAccounted(l)
  BY LockType DEF ReadRows, Converting, FxInv
<1>2. PICK pair \in Pairs : pair = lock[l].pair
  BY <1>1 DEF LockRow
<1>3. PICK at \in Nat : at = lock[l].at
  BY <1>1 DEF LockRow
<1>4. PICK n \in 1 .. at :
         /\ rates[pair][n] # 0
         /\ \A m \in 1 .. at : rates[pair][m] # 0 => m <= n
         /\ Quoted(l, rates[pair][n], n, Larger(known[pair], n))
         /\ known' = [known EXCEPT ![pair] = Larger(known[pair], n)]
  BY <1>2, <1>3 DEF ReadRows
<1>5. /\ at <= Now
      /\ Now \in Nat
      /\ Now <= MaxPublished
      /\ MaxPublished \in Nat
  BY <1>1, <1>3, FxAssumption DEF LockAccounted, FxInv, FxTypeOK, Now
<1>6. n \in 1 .. MaxPublished /\ n \in Nat /\ n <= Now /\ Written(pair, n)
  BY <1>4, <1>5 DEF Written
<1>7. PICK rate \in Nat : rate = rates[pair][n]
  BY <1>6 DEF FxInv, FxTypeOK
<1>8. PICK newKnown \in Nat :
         /\ newKnown = Larger(known[pair], n)
         /\ newKnown = n \/ newKnown = known[pair]
  BY <1>6 DEF Larger, FxInv, FxTypeOK
<1>9. newKnown # 0 => newKnown <= Now /\ Written(pair, newKnown)
  BY <1>6, <1>8 DEF FxInv, RowsPublished, Written
<1>10. n >= lock[l].floor
  <2>1. PICK floor \in Nat : floor = lock[l].floor
    BY <1>1 DEF LockRow
  <2>2. floor # 0 => floor <= at /\ Written(pair, floor)
    BY <1>1, <1>2, <1>3, <2>1 DEF LockAccounted
  <2>3. floor # 0 => floor \in 1 .. at /\ rates[pair][floor] # 0
    BY <2>2 DEF Written
  <2>4. QED
    BY <1>4, <1>6, <2>1, <2>3
<1>11. ~lock[l].moved => Prevails(pair, rate)
  <2> SUFFICES ASSUME ~lock[l].moved
               PROVE  Prevails(pair, rate)
    OBVIOUS
  <2>1. /\ override[pair] = 0
        /\ \A m \in 1 .. MaxPublished : Written(pair, m) => m <= at
    BY <1>1, <1>2, <1>3 DEF LockAccounted, SeesAll
  <2>2. ASSUME NEW m \in 1 .. MaxPublished, Written(pair, m)
        PROVE  m <= n
    BY <1>4, <2>1, <2>2 DEF Written
  <2>3. QED
    BY <1>6, <1>7, <2>1, <2>2 DEF Prevails
<1>12. /\ lock' \in [Locks -> {NoLock} \cup LockRow]
       /\ \A m \in Locks : LockAccounted(m)'
  BY <1>1, <1>2, <1>4, <1>6, <1>7, <1>8, <1>9, <1>10, <1>11, QuotedInv
<1>13. /\ known' \in [Pairs -> Nat]
       /\ \A p \in Pairs : known'[p] # 0 => Written(p, known'[p])
  <2>1. known' = [known EXCEPT ![pair] = newKnown]
    BY <1>4, <1>8
  <2>2. QED
    BY <1>9, <2>1, KnownStays DEF FxInv, FxTypeOK, RowsPublished
<1>14. QED
  BY <1>1, <1>12, <1>13, LockStepInv

LEMMA NoRateInv ==
    ASSUME FxInv, NEW l \in Locks, NoRate(l)
    PROVE  FxInv'
  BY LockGoesOn DEF NoRate, Converting
-----------------------------------------------------------------------------

LEMMA FxInitInv == FxInit => FxInv
<1> SUFFICES ASSUME FxInit
             PROVE  FxInv
  OBVIOUS
<1>1. FxTypeOK
  <2>1. published \in Seq(Publications) /\ Now = 0 /\ MaxPublished \in Nat
    BY FxAssumption DEF FxInit, Now
  <2>2. QED
    BY <2>1 DEF FxInit, FxTypeOK
<1>2. RowsPublished
  BY DEF FxInit, RowsPublished
<1>3. \A r \in Refreshers : RefreshAccounted(r)
  BY DEF FxInit, RefreshAccounted, Resting
<1>4. \A l \in Locks : LockAccounted(l)
  BY DEF FxInit, LockAccounted, NoLock
<1>5. QED
  BY <1>1, <1>2, <1>3, <1>4 DEF FxInv

LEMMA FxStutter ==
    ASSUME FxInv, UNCHANGED fxVars
    PROVE  FxInv'
<1>1. UNCHANGED <<published, rates, override, refresher, known, lock>>
  BY DEF fxVars
<1>2. Now <= Now' /\ Now' \in Nat
  BY <1>1 DEF FxInv, FxTypeOK, Now
<1>3. \A l \in Locks : LockAccounted(l)'
  BY <1>1, <1>2, LockStays
<1>4. lock' \in [Locks -> {NoLock} \cup LockRow]
  BY <1>1 DEF FxInv, FxTypeOK
<1>5. QED
  BY <1>1, <1>3, <1>4, KnownStays, LockStepInv

LEMMA FxNextInv == FxInv /\ [FxNext]_fxVars => FxInv'
<1> SUFFICES ASSUME FxInv, [FxNext]_fxVars
             PROVE  FxInv'
  OBVIOUS
<1>1. CASE \E quotes \in Publications : Publish(quotes)
  BY <1>1, PublishInv
<1>2. CASE \E r \in Refreshers : Fetch(r)
  BY <1>2, FetchInv
<1>3. CASE \E r \in Refreshers : Upsert(r)
  BY <1>3, UpsertInv
<1>4. CASE \E r \in Refreshers : RefreshEnds(r)
  BY <1>4, RefreshEndsInv
<1>5. CASE \E r \in Refreshers : RefreshBreaks(r)
  BY <1>5, RefreshBreaksInv
<1>6. CASE \E pair \in PinnedPairs : DeleteOverride(pair)
  BY <1>6, OverrideInv, FxAssumption DEF DeleteOverride
<1>7. CASE \E pair \in PinnedPairs, rate \in OverrideRates : PutOverride(pair, rate)
  BY <1>7, OverrideInv, FxAssumption DEF PutOverride
<1>8. CASE \E l \in Locks, amounts \in Amounts : Begin(l, amounts)
  BY <1>8, BeginInv
<1>9. CASE \E l \in Locks : ReadOverride(l)
  BY <1>9, ReadOverrideInv
<1>10. CASE \E l \in Locks : ReadRows(l)
  BY <1>10, ReadRowsInv
<1>11. CASE \E l \in Locks : NoRate(l)
  BY <1>11, NoRateInv
<1>12. CASE UNCHANGED fxVars
  BY <1>12, FxStutter
<1>13. QED
  BY <1>1, <1>2, <1>3, <1>4, <1>5, <1>6, <1>7, <1>8, <1>9, <1>10, <1>11, <1>12 DEF FxNext

\* Refreshes write every row they account for, and a lock sees every row of its pair
\* unless it was told that one moved.
THEOREM QuotesAccounted == FxSpec => []FxInv
<1>1. FxSpec => []FxInv
  BY FxInitInv, FxNextInv, PTL DEF FxSpec
<1>2. QED
  BY <1>1

\* Prices do not go back in time, and once there is a rate no quote is refused, whatever
\* refreshes overlap or break off.
THEOREM QuotesAlwaysAdvance == FxSpec => []QuotesAdvance
<1>1. FxInv => QuotesAdvance
  BY DEF FxInv, LockAccounted, QuotesAdvance, Quotes
<1>2. QED
  BY <1>1, QuotesAccounted, PTL

\* The fee of an intent is converted at the rate of its total, unless a refresh or an
\* admin wrote a rate of this pair in between.
THEOREM FeeFollowsTotal == FxSpec => []FeeAtRateOfTotal
<1>1. FxInv => FeeAtRateOfTotal
  BY DEF FxInv, LockAccounted, FeeAtRateOfTotal
<1>2. QED
  BY <1>1, QuotesAccounted, PTL

\* Every quoted amount is the nearest whole number of cents, and the even one of two:
\* for all amounts and rates.
THEOREM CentsAreNearest == FxSpec => []NearestCents
<1>1. FxInv => NearestCents
  <2> SUFFICES ASSUME FxInv, NEW l \in Locks, NEW i \in DOMAIN Quotes(l)
               PROVE  LET quote == Quotes(l)[i]
                          error == 2 * (quote.amount * Scale - lock[l].cents[i] * quote.rate)
                      IN  /\ error \in -Scale .. Scale
                          /\ error \in {-Scale, Scale} => quote.amount % 2 = 0
    BY DEF NearestCents
  <2>1. lock[l].pc # "idle" /\ Quotes(l) = lock[l].quotes
    BY DEF Quotes
  <2>2. lock[l] \in LockRow /\ LockAccounted(l)
    BY <2>1, LockType DEF FxInv
  <2>3. PICK quotes \in Seq(QuoteRow) : quotes = lock[l].quotes
    BY <2>2 DEF LockRow
  <2>4. i \in {1, 2} /\ quotes[i] \in QuoteRow
    <3>1. Len(quotes) \in {0, 1, 2} /\ DOMAIN quotes = 1 .. Len(quotes) /\ Len(quotes) \in Nat
      <4>1. Len(quotes) \in {0, 1, 2}
        BY <2>1, <2>2, <2>3 DEF LockAccounted
      <4>2. DOMAIN quotes = 1 .. Len(quotes) /\ Len(quotes) \in Nat
        OBVIOUS
      <4>3. QED
        BY <4>1, <4>2
    <3>2. i \in 1 .. Len(quotes)
      BY <2>1, <2>3, <3>1
    <3>3. Len(quotes) = 0 \/ Len(quotes) = 1 \/ Len(quotes) = 2
      BY <3>1
    <3>4. QED
      BY <3>2, <3>3
  <2>5. PICK cents \in Nat : cents = lock[l].cents[i]
    <3>1. lock[l].cents \in Nat \X Nat
      BY <2>2 DEF LockRow
    <3>2. lock[l].cents[1] \in Nat /\ lock[l].cents[2] \in Nat
      BY <3>1
    <3>3. CASE i = 1
      BY <3>2, <3>3
    <3>4. CASE i = 2
      BY <3>2, <3>4
    <3>5. QED
      BY <2>4, <3>3, <3>4
  <2>6. PICK rate \in Nat : rate = quotes[i].rate
    BY <2>4 DEF QuoteRow
  <2>7. quotes[i].amount = Convert(cents, rate)
    BY <2>1, <2>2, <2>3, <2>5, <2>6 DEF LockAccounted
  <2>8. QED
    BY <2>1, <2>3, <2>5, <2>6, <2>7, ConvertRounds
<1>2. QED
  BY <1>1, QuotesAccounted, PTL

=============================================================================
