------------------------ MODULE ReconciliationProofs ------------------------
(***************************************************************************)
(* Proofs about Reconciliation, for any number of bookings, payments and   *)
(* refund calls, any threshold and any cap on the findings.                *)
(***************************************************************************)
EXTENDS Reconciliation, RefundsProofs

BalancedEvents == {entries \in [Accounts -> Int] : Balanced(entries)}

-----------------------------------------------------------------------------
(***************************************************************************)
(* What the operations do to the books that a run reads.                   *)
(***************************************************************************)

\* Whatever is posted balances, and a hold stays once it is there.
LEMMA BooksMove ==
    ASSUME CallsInv, RefundsNext, NEW b \in Bookings
    PROVE  /\ \/ ledger'[b] = ledger[b]
              \/ \E entries \in BalancedEvents : ledger'[b] = Post(ledger[b], entries)
           /\ hold[b] # NoHold => hold'[b] # NoHold
<1>1. IInv /\ TypeOK
  BY DEF CallsInv, IInv
<1>2. CASE UNCHANGED escrowVars
  BY <1>2 DEF escrowVars
<1>3. CASE \E x \in Bookings : Operation(x)
  <2>1. PICK x \in Bookings : Operation(x)
    BY <1>3
  <2>2. hold[b] # NoHold => hold'[b] # NoHold
    BY <1>1, <2>1, OperationEvolves DEF Evolves
  <2>3. CASE b # x
    BY <1>1, <2>1, <2>2, <2>3, OperationFrame
  <2>4. CASE b = x
    <3>1. CASE ledger' = ledger
      BY <2>2, <3>1
    <3>2. CASE \E entries \in [Accounts -> Int] : WriteLedger(x, entries)
      <4>1. PICK entries \in [Accounts -> Int] : WriteLedger(x, entries)
        BY <3>2
      <4>2. Balanced(entries) /\ ledger'[b] = Post(ledger[b], entries)
        BY <1>1, <2>4, <4>1 DEF WriteLedger, TypeOK
      <4>3. QED
        BY <2>2, <4>2 DEF BalancedEvents
    <3>3. QED
      BY <1>1, <2>1, <3>1, <3>2, OperationPosts
  <2>5. QED
    BY <2>3, <2>4
<1>4. QED
  BY <1>2, <1>3, RefundsStepOperates

\* The difference of two balances is the event that was posted between them.
LEMMA PostedDifference ==
    ASSUME NEW balances \in [Accounts -> Int], NEW entries \in [Accounts -> Int]
    PROVE  [acc \in Accounts |-> Post(balances, entries)[acc] - balances[acc]] = entries
<1>1. \A acc \in Accounts : Post(balances, entries)[acc] = balances[acc] + entries[acc]
  BY PostType
<1>2. \A acc \in Accounts : Post(balances, entries)[acc] - balances[acc] = entries[acc]
  BY <1>1
<1>3. QED
  BY <1>2

\* A call that is done has nothing more to do.
LEMMA DoneStays ==
    ASSUME CallsInv, RefundsNext, NEW c \in Calls, call[c].pc = "done"
    PROVE  refunds'[c] = refunds[c] /\ sent'[c] = sent[c]
<1>1. CASE OtherStep
  BY <1>1 DEF OtherStep, refundVars
<1>2. CASE \E d \in Calls : RefundStep(d)
  <2>1. PICK d \in Calls : RefundStep(d)
    BY <1>2
  <2>2. d # c
    BY <2>1 DEF RefundStep, Check, Continue, InsertRow, GatewayAccepts, GatewayRejects, GatewayFails,
          HandleFailure, BookRefund, RefuseRefund, FinaliseRow, Lose, NoCall
  <2>3. /\ refunds \in [Calls -> RefundRow]
        /\ sent \in [Calls -> Nat]
    BY DEF CallsInv, RefundsTypeOK
  <2>4. QED
    BY <2>1, <2>2, <2>3 DEF RefundStep, Check, Continue, InsertRow, GatewayAccepts, GatewayRejects,
          GatewayFails, UnconfirmedSend, HandleFailure, BookRefund, RefuseRefund, FinaliseRow,
          CloseRow, Lose
<1>3. QED
  BY <1>1, <1>2 DEF RefundsNext

\* A refunds row is SUCCEEDED for a call that is done and was booked.
LEMMA SucceededIsDone ==
    ASSUME CallsInv, NEW c \in Calls, refunds[c].state = "SUCCEEDED"
    PROVE  /\ call[c].pc = "done"
           /\ booked[c] = refunds[c].cents
<1>1. CallAccounted(c) /\ call[c].pc \in CallPoints
  BY CallType
<1>2. call[c].pc = "done"
  BY <1>1 DEF CallAccounted, CallPoints, Untouched, Processing, NoRow
<1>3. QED
  BY <1>1, <1>2 DEF CallAccounted, Booked

-----------------------------------------------------------------------------
(***************************************************************************)
(* The invariant is inductive.                                             *)
(***************************************************************************)

LEMMA ReconciliationInitInv == ReconciliationInit => ReconciliationInv
<1> SUFFICES ASSUME ReconciliationInit PROVE ReconciliationInv
  OBVIOUS
<1>1. CallsInv
  BY CallsInitInv DEF ReconciliationInit
<1>2. scan = NoScan /\ run = NoRun
  BY DEF ReconciliationInit
<1>3. PaidTypeOK /\ ScanTypeOK
  BY <1>2 DEF ReconciliationInit, PaidTypeOK, NotPaid, ScanTypeOK, NoScan, NoRun, Points
<1>4. BooksKept
  BY DEF ReconciliationInit, BooksKept
<1>5. HistoryKept /\ FindingsKept /\ RunKept
  BY <1>2 DEF HistoryKept, FindingsKept, RunKept, NoScan, NoRun
<1>6. QED
  BY <1>1, <1>3, <1>4, <1>5 DEF ReconciliationInv

\* An item found in the books is there for good.
LEMMA ItemStays ==
    ASSUME ReconciliationInv, BooksStep, NEW item \in Items, ItemBooked(item)
    PROVE  ItemBooked(item)'
<1>1. CallsInv /\ BooksKept
  BY DEF ReconciliationInv
<1>2. CASE item.kind = "transaction"
  <2>1. PICK b \in Bookings : charge[b] = item.payment
    BY <1>2 DEF ItemBooked
  <2>2. item.payment \in Payments
    BY <1>2 DEF Items
  <2>3. hold[b] # NoHold
    BY <1>1, <2>1, <2>2, ReconciliationAssumption DEF BooksKept
  <2>4. charge'[b] = charge[b]
    BY <2>3 DEF BooksStep
  <2>5. QED
    BY <1>2, <2>1, <2>4 DEF ItemBooked
<1>3. CASE item.kind # "transaction"
  <2>1. RefundBooked(item)
    BY <1>3 DEF ItemBooked
  <2>2. item.call \in Calls
    BY <1>3 DEF Items
  <2>3. call[item.call].pc = "done"
    BY <1>1, <2>1, <2>2, SucceededIsDone DEF RefundBooked
  <2>4. refunds'[item.call] = refunds[item.call] /\ sent'[item.call] = sent[item.call]
    BY <1>1, <2>2, <2>3, DoneStays DEF BooksStep
  <2>5. RefundBooked(item)'
    BY <2>1, <2>4 DEF RefundBooked
  <2>6. QED
    BY <1>3, <2>5 DEF ItemBooked
<1>4. QED
  BY <1>2, <1>3

\* The journal and the CHARGE rows follow the operations.
LEMMA BooksStepKeeps ==
    ASSUME ReconciliationInv, BooksStep
    PROVE  BooksKept'
<1>1. /\ CallsInv
      /\ IInv /\ ledger \in [Bookings -> [Accounts -> Int]]
      /\ RefundsNext
      /\ charge \in [Bookings -> Payments \cup {NoPayment}]
      /\ journal \in [Bookings -> Seq(BalancedEvents)]
      /\ \A b \in Bookings : charge[b] # NoPayment => hold[b] # NoHold
  BY DEF ReconciliationInv, BooksKept, BooksStep, CallsInv, IInv, TypeOK, BalancedEvents
<1>2. ASSUME NEW b \in Bookings
      PROVE  journal'[b] \in Seq(BalancedEvents)
  <2> DEFINE moved == [acc \in Accounts |-> ledger'[b][acc] - ledger[b][acc]]
  <2>1. journal'[b] = IF ledger'[b] = ledger[b] THEN journal[b] ELSE Append(journal[b], moved)
    BY DEF BooksStep
  <2>2. CASE ledger'[b] = ledger[b]
    BY <1>1, <2>1, <2>2
  <2>3. CASE ledger'[b] # ledger[b]
    <3>1. PICK entries \in BalancedEvents : ledger'[b] = Post(ledger[b], entries)
      BY <1>1, <2>3, BooksMove
    <3>2. moved = entries
      <4>1. ledger[b] \in [Accounts -> Int] /\ entries \in [Accounts -> Int]
        BY <1>1 DEF BalancedEvents
      <4>2. moved = [acc \in Accounts |-> Post(ledger[b], entries)[acc] - ledger[b][acc]]
        BY <3>1
      <4> HIDE DEF moved
      <4>3. QED
        BY <4>1, <4>2, PostedDifference
    <3> HIDE DEF moved
    <3>3. QED
      BY <1>1, <2>1, <2>3, <3>2
  <2>4. QED
    BY <2>2, <2>3
<1>3. journal' \in [Bookings -> Seq(BalancedEvents)]
  <2> DEFINE next == [b \in Bookings |->
                        IF ledger'[b] = ledger[b] THEN journal[b]
                        ELSE Append(journal[b],
                                    [acc \in Accounts |-> ledger'[b][acc] - ledger[b][acc]])]
  <2>1. journal' = next
    BY DEF BooksStep
  <2>2. DOMAIN next = Bookings /\ next = [b \in Bookings |-> next[b]]
    OBVIOUS
  <2> HIDE DEF next
  <2>3. QED
    BY <1>2, <2>1, <2>2
<1>4. charge' \in [Bookings -> Payments \cup {NoPayment}]
  BY DEF BooksStep
<1>5. ASSUME NEW b \in Bookings, charge'[b] # NoPayment
      PROVE  hold'[b] # NoHold
  <2>1. hold[b] # NoHold => hold'[b] # NoHold
    BY <1>1, BooksMove
  <2>2. QED
    BY <1>1, <1>5, <2>1 DEF BooksStep
<1>6. QED
  BY <1>3, <1>4, <1>5 DEF BooksKept, BalancedEvents

LEMMA BooksStepInv ==
    ASSUME ReconciliationInv, BooksStep
    PROVE  ReconciliationInv'
<1>1. CallsInv'
  BY CallsNextInv DEF ReconciliationInv, BooksStep
<1>2. UNCHANGED <<run, scan>>
  BY DEF BooksStep
<1>3. /\ ScanTypeOK /\ HistoryKept /\ FindingsKept /\ RunKept
      /\ scan.history \in SUBSET Items
  BY DEF ReconciliationInv, ScanTypeOK
<1>4. \A item \in scan.history : ItemBooked(item) => ItemBooked(item)'
  BY <1>3, ItemStays
<1>5. PaidTypeOK' /\ ScanTypeOK' /\ HistoryKept'
  BY <1>2, <1>3 DEF BooksStep, ReconciliationInv, PaidTypeOK, ScanTypeOK, HistoryKept
<1>6. FindingsKept'
  BY <1>2, <1>3, <1>4 DEF FindingsKept
<1>7. RunKept'
  BY <1>2, <1>3, <1>4 DEF RunKept, SoundBooksPass
<1>8. QED
  BY <1>1, <1>5, <1>6, <1>7, BooksStepKeeps DEF ReconciliationInv

\* Steps of the run leave the books alone.
LEMMA BooksStay ==
    ASSUME ReconciliationInv, UNCHANGED bookVars
    PROVE  /\ CallsInv' /\ BooksKept' /\ PaidTypeOK'
           /\ \A item : ItemBooked(item)' <=> ItemBooked(item)
<1>1. UNCHANGED <<refundsVars, charge, journal>>
  BY DEF bookVars
<1>2. UNCHANGED <<escrowVars, refundVars>> /\ hold' = hold /\ UNCHANGED <<refunds, sent>>
  BY <1>1 DEF refundsVars, refundVars, escrowVars
<1>3. CallsInv'
  BY <1>1, CallsNextInv DEF ReconciliationInv
<1>4. BooksKept'
  BY <1>1, <1>2 DEF ReconciliationInv, BooksKept
<1>5. ASSUME NEW item
      PROVE  ItemBooked(item)' <=> ItemBooked(item)
  BY <1>1, <1>2 DEF ItemBooked, RefundBooked
<1>6. PaidTypeOK'
  BY DEF bookVars, ReconciliationInv, PaidTypeOK
<1>7. QED
  BY <1>3, <1>4, <1>5, <1>6

\* A step of the run: what is left to show is about its own variables.
LEMMA RunStepInv ==
    ASSUME ReconciliationInv, UNCHANGED bookVars,
           ScanTypeOK', HistoryKept', FindingsKept', RunKept'
    PROVE  ReconciliationInv'
  BY BooksStay DEF ReconciliationInv

LEMMA RevenueNat ==
    ASSUME ReconciliationInv
    PROVE  AccountBalance("PLATFORM_REVENUE") \in Nat
<1> DEFINE f == [b \in Bookings |->
                    IF "PLATFORM_REVENUE" = "PAYFAST_SETTLEMENT" THEN -ledger[b]["PLATFORM_REVENUE"]
                    ELSE ledger[b]["PLATFORM_REVENUE"]]
<1>1. ASSUME NEW b \in Bookings
      PROVE  f[b] \in Nat
  <2>1. hold[b] \in HoldRow /\ ledger[b]["PLATFORM_REVENUE"] \in Int /\ FundsAccounted(b)
    BY DEF ReconciliationInv, CallsInv, IInv, TypeOK, Accounts
  <2>2. hold[b].fee \in Nat
    BY <2>1 DEF HoldRow
  <2>3. ledger[b]["PLATFORM_REVENUE"] \in {0, hold[b].fee}
    <3>1. CASE hold[b].state \in {"RELEASED", "REFUNDED"}
      <4>1. hold[b].fee - ledger[b]["PLATFORM_REVENUE"] \in {0, hold[b].fee}
        BY <2>1, <3>1 DEF FundsAccounted, PaidOut
      <4>2. QED
        BY <2>1, <2>2, <4>1
    <3>2. CASE hold[b].state \notin {"RELEASED", "REFUNDED"}
      BY <2>1, <3>2 DEF FundsAccounted, NothingPaidOut
    <3>3. QED
      BY <3>1, <3>2
  <2>4. QED
    BY <2>2, <2>3
<1>2. AccountBalance("PLATFORM_REVENUE") = SumFunctionOnSet(f, Bookings)
  BY Zenon DEF AccountBalance, SumFunction
<1> HIDE DEF f
<1>3. QED
  BY <1>1, <1>2, SumNat, ReconciliationAssumption

\* Invariant B of the reconciliation holds at any one moment.
LEMMA LiabilityIsHeld ==
    ASSUME ReconciliationInv
    PROVE  HeldRemaining = AccountBalance("ESCROW_LIABILITY")
<1> DEFINE f == [b \in Bookings |->
                    IF "ESCROW_LIABILITY" = "PAYFAST_SETTLEMENT" THEN -ledger[b]["ESCROW_LIABILITY"]
                    ELSE ledger[b]["ESCROW_LIABILITY"]]
           g == [b \in Bookings |-> IF hold[b].state \in OpenStates THEN Remaining(hold[b]) ELSE 0]
<1>1. ASSUME NEW b \in Bookings
      PROVE  f[b] = g[b]
  BY DEF ReconciliationInv, CallsInv, IInv, FundsAccounted
<1>2. /\ AccountBalance("ESCROW_LIABILITY") = SumFunction(f)
      /\ HeldRemaining = SumFunction(g)
  BY Zenon DEF AccountBalance, HeldRemaining
<1>3. f = g
  BY <1>1
<1>4. QED
  BY <1>2, <1>3

LEMMA StartRunInv ==
    ASSUME ReconciliationInv, StartRun
    PROVE  ReconciliationInv'
<1>1. /\ ScanTypeOK /\ HistoryKept /\ FindingsKept /\ RunKept
      /\ run = NoRun
      /\ run' = [run EXCEPT !.state = "RUNNING"]
      /\ scan' = [scan EXCEPT !.pc = "entries", !.found = scan.found \cup {}]
      /\ UNCHANGED bookVars
  BY DEF ReconciliationInv, StartRun, ScanTo
<1>2. /\ scan.pc = "idle"
      /\ DOMAIN scan' = DOMAIN scan
      /\ scan'.pc = "entries"
      /\ scan'.history = scan.history /\ scan'.todo = scan.todo
      /\ scan'.missing = scan.missing /\ scan'.found = scan.found
      /\ run'.state = "RUNNING" /\ DOMAIN run' = DOMAIN run /\ run'.alertSent \in BOOLEAN
      /\ run' # NoRun
  BY <1>1 DEF RunKept, ScanTypeOK, NoRun
<1>3. ScanTypeOK'
  BY <1>1, <1>2 DEF ScanTypeOK, Points
<1>4. HistoryKept' /\ FindingsKept' /\ RunKept'
  BY <1>1, <1>2 DEF HistoryKept, FindingsKept, RunKept
<1>5. QED
  BY <1>1, <1>3, <1>4, RunStepInv

\* The checks before the history: they go from point to point and add sound findings.
LEMMA ScanToInv ==
    ASSUME ReconciliationInv, UNCHANGED <<bookVars, run>>,
           scan.pc \in {"entries", "liability", "holds", "revenue", "history"},
           DOMAIN scan' = DOMAIN scan,
           scan'.pc \in {"liability", "holds", "revenue", "history", "finish"},
           scan'.history = scan.history, scan'.todo = scan.todo, scan'.missing = scan.missing,
           \A f \in scan'.found \ scan.found : SoundFinding(f)
    PROVE  ReconciliationInv'
<1>1. ScanTypeOK /\ HistoryKept /\ FindingsKept /\ RunKept /\ run' = run
  BY DEF ReconciliationInv
<1>2. ScanTypeOK'
  BY <1>1 DEF ScanTypeOK, Points
<1>3. HistoryKept' /\ FindingsKept'
  BY <1>1 DEF HistoryKept, FindingsKept
<1>4. run # NoRun /\ run.state # "COMPLETED"
  BY <1>1 DEF RunKept
<1>5. RunKept'
  BY <1>1, <1>4 DEF RunKept
<1>6. QED
  BY <1>2, <1>3, <1>5, RunStepInv

LEMMA CheckAInv ==
    ASSUME ReconciliationInv, CheckInvariantA
    PROVE  ReconciliationInv'
<1> DEFINE bad == {Finding("EVENT_IMBALANCE", "HIGH", <<b>>) :
                     b \in {x \in Bookings : \E i \in DOMAIN journal[x] : ~Balanced(journal[x][i])}}
<1>1. bad = {}
  <2>1. \A x \in Bookings : journal[x] \in Seq(BalancedEvents)
    BY DEF ReconciliationInv, BooksKept, BalancedEvents
  <2>2. \A x \in Bookings : \A i \in DOMAIN journal[x] : journal[x][i] \in BalancedEvents
    BY <2>1
  <2>3. QED
    BY <2>2 DEF BalancedEvents
<1>2. /\ scan.pc = "entries"
      /\ scan' = [scan EXCEPT !.pc = "liability", !.found = scan.found \cup bad]
      /\ UNCHANGED <<bookVars, run>>
  BY DEF CheckInvariantA, ScanTo
<1> HIDE DEF bad
<1>3. /\ DOMAIN scan' = DOMAIN scan
      /\ scan'.pc = "liability" /\ scan'.found = scan.found
      /\ scan'.history = scan.history /\ scan'.todo = scan.todo /\ scan'.missing = scan.missing
  BY <1>1, <1>2 DEF ReconciliationInv, ScanTypeOK
<1>4. QED
  BY <1>2, <1>3, ScanToInv

LEMMA ReadLiabilityInv ==
    ASSUME ReconciliationInv, ReadLiability
    PROVE  ReconciliationInv'
<1>1. /\ scan.pc = "liability"
      /\ DOMAIN scan' = DOMAIN scan
      /\ scan'.pc = "holds" /\ scan'.found = scan.found
      /\ scan'.history = scan.history /\ scan'.todo = scan.todo /\ scan'.missing = scan.missing
      /\ UNCHANGED <<bookVars, run>>
  BY DEF ReconciliationInv, ScanTypeOK, ReadLiability
<1>2. QED
  BY <1>1, ScanToInv

LEMMA CheckBInv ==
    ASSUME ReconciliationInv, CheckInvariantB
    PROVE  /\ ReconciliationInv'
           /\ \A f \in scan'.found \ scan.found :
                f.subject = <<scan.liability - HeldRemaining>> /\ scan.liability - HeldRemaining # 0
<1> DEFINE drift == scan.liability - HeldRemaining
           severity == IF drift > AlertThreshold \/ -drift > AlertThreshold THEN "HIGH" ELSE "LOW"
           finding == Finding("LIABILITY_DRIFT", severity, <<drift>>)
<1>1. /\ scan.pc = "holds"
      /\ scan' = [scan EXCEPT !.pc = "revenue", !.liability = 0,
                    !.found = IF drift = 0 THEN scan.found ELSE scan.found \cup {finding}]
      /\ UNCHANGED <<bookVars, run>>
  BY DEF CheckInvariantB
<1>2. finding.code = "LIABILITY_DRIFT" /\ finding.subject = <<drift>>
  BY DEF Finding
<1> HIDE DEF finding, drift
<1>3. /\ DOMAIN scan' = DOMAIN scan
      /\ scan'.pc = "revenue"
      /\ scan'.found = IF drift = 0 THEN scan.found ELSE scan.found \cup {finding}
      /\ scan'.history = scan.history /\ scan'.todo = scan.todo /\ scan'.missing = scan.missing
  BY <1>1 DEF ReconciliationInv, ScanTypeOK
<1>4. \A f \in scan'.found \ scan.found : f = finding /\ drift # 0
  BY <1>3
<1>5. \A f \in scan'.found \ scan.found : SoundFinding(f)
  BY <1>2, <1>4 DEF SoundFinding
<1>6. ReconciliationInv'
  BY <1>1, <1>3, <1>5, ScanToInv
<1>7. QED
  BY <1>2, <1>4, <1>6 DEF drift

LEMMA CheckCInv ==
    ASSUME ReconciliationInv, CheckInvariantC
    PROVE  ReconciliationInv' /\ scan'.found = scan.found
<1> DEFINE revenue == AccountBalance("PLATFORM_REVENUE")
           bad == IF revenue < 0 THEN {Finding("REVENUE_NEGATIVE", "HIGH", <<revenue>>)} ELSE {}
<1>1. bad = {}
  <2>1. revenue \in Nat
    BY RevenueNat
  <2> HIDE DEF revenue
  <2>2. QED
    BY <2>1
<1>2. /\ scan.pc = "revenue"
      /\ scan' = [scan EXCEPT !.pc = "history", !.found = scan.found \cup bad]
      /\ UNCHANGED <<bookVars, run>>
  BY DEF CheckInvariantC, ScanTo
<1> HIDE DEF bad
<1>3. /\ DOMAIN scan' = DOMAIN scan
      /\ scan'.pc = "history" /\ scan'.found = scan.found
      /\ scan'.history = scan.history /\ scan'.todo = scan.todo /\ scan'.missing = scan.missing
  BY <1>1, <1>2 DEF ReconciliationInv, ScanTypeOK
<1>4. QED
  BY <1>2, <1>3, ScanToInv

LEMMA SkipInv ==
    ASSUME ReconciliationInv, SkipCrossCheck
    PROVE  /\ ReconciliationInv'
           /\ \A f \in scan'.found \ scan.found : f.code = "SKIPPED"
<1> DEFINE finding == Finding("SKIPPED", "INFO", <<>>)
<1>1. /\ scan.pc = "history"
      /\ scan' = [scan EXCEPT !.pc = "finish", !.found = scan.found \cup {finding}]
      /\ UNCHANGED <<bookVars, run>>
  BY DEF SkipCrossCheck, ScanTo
<1>2. finding.code = "SKIPPED"
  BY DEF Finding
<1> HIDE DEF finding
<1>3. /\ DOMAIN scan' = DOMAIN scan
      /\ scan'.pc = "finish" /\ scan'.found = scan.found \cup {finding}
      /\ scan'.history = scan.history /\ scan'.todo = scan.todo /\ scan'.missing = scan.missing
  BY <1>1 DEF ReconciliationInv, ScanTypeOK
<1>4. \A f \in scan'.found \ scan.found : SoundFinding(f) /\ f.code = "SKIPPED"
  BY <1>2, <1>3 DEF SoundFinding
<1>5. QED
  BY <1>1, <1>3, <1>4, ScanToInv

LEMMA FetchInv ==
    ASSUME ReconciliationInv, FetchHistory
    PROVE  ReconciliationInv' /\ scan'.found = scan.found
<1> DEFINE history == Transactions \cup RefundsSent
<1>1. /\ scan.pc = "history"
      /\ scan' = [scan EXCEPT !.pc = "cross-check", !.history = history, !.todo = history]
      /\ UNCHANGED <<bookVars, run>>
      /\ ScanTypeOK /\ HistoryKept /\ FindingsKept /\ RunKept
  BY DEF FetchHistory, ReconciliationInv
<1>2. history \in SUBSET Items
  <2>1. Transactions \in SUBSET Items
    <3>1. paid \in [Payments -> [booking : Bookings \cup {NoPayment}, amount : Nat, fee : Nat]]
      BY DEF ReconciliationInv, PaidTypeOK
    <3>2. QED
      BY <3>1 DEF Transactions, Items
  <2>2. RefundsSent \in SUBSET Items
    BY DEF RefundsSent, Items
  <2>3. QED
    BY <2>1, <2>2
<1>3. \A item \in history : item.kind = "refund" => [item EXCEPT !.nth = 1] \in history
  <2> SUFFICES ASSUME NEW item \in history, item.kind = "refund"
               PROVE  [item EXCEPT !.nth = 1] \in RefundsSent
    OBVIOUS
  <2>1. item \in RefundsSent
    BY DEF Transactions
  <2>2. PICK c \in Calls :
           /\ sent[c] # 0
           /\ \E n \in 1 .. (sent[c] \div refunds[c].cents) :
                 item = [kind |-> "refund", call |-> c, nth |-> n]
    BY <2>1 DEF RefundsSent
  <2>3. sent[c] \div refunds[c].cents \in Int
    <3>1. CallsInv
      BY DEF ReconciliationInv
    <3>2. sent[c] \in Nat /\ refunds[c].cents \in Nat /\ sent[c] <= SendLimit * refunds[c].cents
      BY <3>1, CallType DEF RefundRow
    <3>3. SendLimit \in Nat
      BY RefundsAssumption DEF SendLimit
    <3>4. refunds[c].cents # 0
      BY <2>2, <3>2, <3>3
    <3>5. QED
      BY <3>2, <3>4
  <2>4. 1 \in 1 .. (sent[c] \div refunds[c].cents)
    BY <2>2, <2>3
  <2>5. [item EXCEPT !.nth = 1] = [kind |-> "refund", call |-> c, nth |-> 1]
    BY <2>2
  <2>6. QED
    BY <2>2, <2>4, <2>5 DEF RefundsSent
<1> HIDE DEF history
<1>4. /\ DOMAIN scan' = DOMAIN scan
      /\ scan'.pc = "cross-check" /\ scan'.found = scan.found
      /\ scan'.history = history /\ scan'.todo = history /\ scan'.missing = scan.missing
  BY <1>1 DEF ScanTypeOK
<1>5. ScanTypeOK'
  BY <1>1, <1>2, <1>4 DEF ScanTypeOK, Points
<1>6. HistoryKept' /\ FindingsKept'
  BY <1>1, <1>3, <1>4 DEF HistoryKept, FindingsKept
<1>7. run # NoRun /\ run.state # "COMPLETED"
  BY <1>1 DEF RunKept
<1>8. RunKept'
  BY <1>1, <1>7 DEF RunKept
<1>9. QED
  BY <1>1, <1>4, <1>5, <1>6, <1>8, RunStepInv

\* Looking up one item: it is booked, or it is missing from now on.
LEMMA LookUpInv ==
    ASSUME ReconciliationInv, scan.pc = "cross-check", NEW item \in scan.todo,
           NEW found \in BOOLEAN, NEW finding, LookUp(item, found, finding),
           found => ItemBooked(item), SoundFinding(finding), finding.severity = "HIGH"
    PROVE  ReconciliationInv' /\ scan'.found = scan.found
<1> DEFINE missing == IF found THEN scan.missing ELSE scan.missing \cup {finding}
           todo == IF Cardinality(missing) >= FindingsCap THEN {} ELSE scan.todo \ {item}
<1>1. /\ scan' = [scan EXCEPT !.missing = missing, !.todo = todo]
      /\ UNCHANGED <<bookVars, run>>
      /\ ScanTypeOK /\ HistoryKept /\ FindingsKept /\ RunKept
  BY DEF LookUp, ReconciliationInv
<1>2. /\ \A f \in missing : f \in scan.missing \/ f = finding
      /\ missing = {} => found /\ scan.missing = {}
  OBVIOUS
<1>3. todo \in SUBSET scan.todo
  OBVIOUS
<1>4. missing = {} => todo = scan.todo \ {item}
  BY ReconciliationAssumption, FS_EmptySet
<1> HIDE DEF missing, todo
<1>5. /\ DOMAIN scan' = DOMAIN scan
      /\ scan'.pc = "cross-check" /\ scan'.found = scan.found
      /\ scan'.history = scan.history /\ scan'.todo = todo /\ scan'.missing = missing
  BY <1>1 DEF ScanTypeOK
<1>6. ScanTypeOK' /\ HistoryKept'
  BY <1>1, <1>3, <1>5 DEF ScanTypeOK, HistoryKept
<1>7. FindingsKept'
  <2>1. \A f \in scan'.found : SoundFinding(f)
    BY <1>1, <1>5 DEF FindingsKept
  <2>2. \A f \in scan'.missing : SoundFinding(f) /\ f.severity = "HIGH"
    BY <1>1, <1>2, <1>5 DEF FindingsKept
  <2>3. ASSUME missing = {}, NEW other \in scan.history \ todo
        PROVE  ItemBooked(other)'
    <3>1. ItemBooked(other)
      BY <1>1, <1>2, <1>4, <2>3 DEF FindingsKept
    <3>2. QED
      BY <1>1, <3>1, BooksStay
  <2>4. QED
    BY <1>5, <2>1, <2>2, <2>3 DEF FindingsKept
<1>8. run # NoRun /\ run.state # "COMPLETED"
  BY <1>1 DEF RunKept
<1>9. RunKept'
  BY <1>1, <1>8 DEF RunKept
<1>10. QED
  BY <1>1, <1>5, <1>6, <1>7, <1>9, RunStepInv

LEMMA CheckItemInv ==
    ASSUME ReconciliationInv, NEW item \in scan.todo, CheckItem(item)
    PROVE  ReconciliationInv' /\ scan'.found = scan.found
<1>1. CASE item.kind = "transaction"
  <2> DEFINE finding == Finding("TRANSACTION_MISSING_LOCAL", "HIGH", <<item.payment>>)
  <2>1. scan.pc = "cross-check" /\ LookUp(item, TransactionBooked(item), finding)
    BY <1>1 DEF CheckItem
  <2>2. SoundFinding(finding) /\ finding.severity = "HIGH"
    BY DEF Finding, SoundFinding
  <2>3. TransactionBooked(item) \in BOOLEAN /\ (TransactionBooked(item) => ItemBooked(item))
    BY <1>1 DEF TransactionBooked, ItemBooked
  <2> HIDE DEF finding
  <2>4. QED
    BY <2>1, <2>2, <2>3, LookUpInv
<1>2. CASE item.kind # "transaction"
  <2> DEFINE finding == Finding("REFUND_MISSING_LOCAL", "HIGH", <<item.call, item.nth>>)
  <2>1. scan.pc = "cross-check" /\ LookUp(item, RefundBooked(item), finding)
    BY <1>2 DEF CheckItem
  <2>2. SoundFinding(finding) /\ finding.severity = "HIGH"
    BY DEF Finding, SoundFinding
  <2>3. RefundBooked(item) \in BOOLEAN /\ (RefundBooked(item) => ItemBooked(item))
    BY <1>2 DEF RefundBooked, ItemBooked
  <2> HIDE DEF finding
  <2>4. QED
    BY <2>1, <2>2, <2>3, LookUpInv
<1>3. QED
  BY <1>1, <1>2

LEMMA CompleteRunInv ==
    ASSUME ReconciliationInv, CompleteRun
    PROVE  ReconciliationInv' /\ scan'.found = {}
<1> DEFINE findings == scan.found \cup scan.missing
           alert == \E f \in findings : f.severity = "HIGH"
<1>1. /\ scan.pc = "finish" \/ (scan.pc = "cross-check" /\ scan.todo = {})
      /\ scan' = [NoScan EXCEPT !.pc = "done", !.history = scan.history]
      /\ run' = [state |-> "COMPLETED", findings |-> findings, alertSent |-> alert]
      /\ UNCHANGED bookVars
      /\ ScanTypeOK /\ HistoryKept /\ FindingsKept /\ RunKept
  BY DEF CompleteRun, ReconciliationInv
<1>2. /\ DOMAIN scan' = DOMAIN scan
      /\ scan'.pc = "done" /\ scan'.history = scan.history
      /\ scan'.todo = {} /\ scan'.found = {} /\ scan'.missing = {}
  BY <1>1 DEF ScanTypeOK, NoScan
<1>3. alert \in BOOLEAN /\ \A f \in findings : SoundFinding(f)
  BY <1>1 DEF FindingsKept
<1>4. ASSUME ~alert, NEW item \in scan.history
      PROVE  ItemBooked(item)
  <2>1. scan.missing = {}
    BY <1>1, <1>4 DEF FindingsKept
  <2>2. QED
    BY <1>1, <1>4, <2>1 DEF HistoryKept, FindingsKept
<1> HIDE DEF findings, alert
<1>5. /\ run'.state = "COMPLETED" /\ run'.findings = findings /\ run'.alertSent = alert
      /\ DOMAIN run' = {"state", "findings", "alertSent"}
      /\ run' # NoRun
  BY <1>1 DEF NoRun
<1>6. ScanTypeOK'
  BY <1>1, <1>2, <1>3, <1>5 DEF ScanTypeOK, Points
<1>7. HistoryKept' /\ FindingsKept'
  BY <1>1, <1>2 DEF HistoryKept, FindingsKept
<1>8. RunKept'
  <2>1. ~alert => \A item \in scan.history : ItemBooked(item)'
    BY <1>1, <1>4, BooksStay
  <2>2. SoundBooksPass'
    BY <1>3, <1>5 DEF SoundBooksPass, SoundFinding
  <2>3. QED
    BY <1>2, <1>5, <2>1, <2>2 DEF RunKept
<1>9. QED
  BY <1>1, <1>2, <1>6, <1>7, <1>8, RunStepInv

\* A run that ends without a result.
LEMMA EndRunInv ==
    ASSUME ReconciliationInv, scan.pc \notin {"idle", "done"}, UNCHANGED bookVars,
           scan' = [NoScan EXCEPT !.pc = "done"],
           \/ run' = run
           \/ run'.state = "FAILED" /\ DOMAIN run' = DOMAIN run /\ run'.alertSent = run.alertSent
    PROVE  ReconciliationInv' /\ scan'.found = {}
<1>1. ScanTypeOK /\ HistoryKept /\ FindingsKept /\ RunKept
  BY DEF ReconciliationInv
<1>2. /\ DOMAIN scan' = DOMAIN scan
      /\ scan'.pc = "done" /\ scan'.history = {}
      /\ scan'.todo = {} /\ scan'.found = {} /\ scan'.missing = {}
  BY <1>1 DEF ScanTypeOK, NoScan
<1>3. run # NoRun /\ run.state # "COMPLETED"
  BY <1>1 DEF RunKept
<1>4. run' # NoRun /\ run'.state # "COMPLETED"
  BY <1>3 DEF NoRun
<1>5. ScanTypeOK'
  BY <1>1, <1>2 DEF ScanTypeOK, Points
<1>6. HistoryKept' /\ FindingsKept' /\ RunKept'
  BY <1>2, <1>4 DEF HistoryKept, FindingsKept, RunKept
<1>7. QED
  BY <1>2, <1>5, <1>6, RunStepInv

LEMMA FailRunInv ==
    ASSUME ReconciliationInv, FailRun
    PROVE  ReconciliationInv' /\ scan'.found = {}
<1> DEFINE findings == scan.found \cup (IF scan.todo = {} THEN scan.missing ELSE {})
                       \cup {Finding("EVENT_IMBALANCE", "HIGH", <<>>)}
<1>1. /\ scan.pc \notin {"idle", "done"}
      /\ scan' = [NoScan EXCEPT !.pc = "done"]
      /\ run' = [run EXCEPT !.state = "FAILED", !.findings = findings]
      /\ UNCHANGED bookVars
  BY DEF FailRun
<1> HIDE DEF findings
<1>2. run'.state = "FAILED" /\ DOMAIN run' = DOMAIN run /\ run'.alertSent = run.alertSent
  BY <1>1 DEF ReconciliationInv, ScanTypeOK
<1>3. QED
  BY <1>1, <1>2, EndRunInv

LEMMA PayInv ==
    ASSUME ReconciliationInv, NEW p \in Payments, NEW b \in Bookings, NEW c \in Captures,
           Pay(p, b, c)
    PROVE  ReconciliationInv' /\ scan' = scan
<1>1. /\ UNCHANGED <<refundsVars, charge, journal, run, scan>>
      /\ paid' = [paid EXCEPT ![p] = [booking |-> b, amount |-> c.amount, fee |-> c.fee]]
  BY DEF Pay
<1>2. UNCHANGED <<escrowVars, refundVars>> /\ hold' = hold /\ UNCHANGED <<refunds, sent>>
  BY <1>1 DEF refundsVars, refundVars, escrowVars
<1>3. CallsInv'
  BY <1>1, CallsNextInv DEF ReconciliationInv
<1>4. PaidTypeOK'
  BY <1>1, CapturesAssumption DEF ReconciliationInv, PaidTypeOK
<1>5. /\ ScanTypeOK' /\ HistoryKept' /\ BooksKept'
  BY <1>1, <1>2 DEF ReconciliationInv, ScanTypeOK, HistoryKept, BooksKept
<1>6. \A item : ItemBooked(item)' <=> ItemBooked(item)
  BY <1>1, <1>2 DEF ItemBooked, RefundBooked
<1>7. FindingsKept' /\ RunKept'
  BY <1>1, <1>6 DEF ReconciliationInv, FindingsKept, RunKept, SoundBooksPass
<1>8. QED
  BY <1>1, <1>3, <1>4, <1>5, <1>7 DEF ReconciliationInv

LEMMA StutterRun ==
    ASSUME ReconciliationInv, UNCHANGED reconciliationVars
    PROVE  ReconciliationInv' /\ scan' = scan
<1>1. UNCHANGED <<bookVars, run, scan>>
  BY DEF reconciliationVars
<1>2. \A item : ItemBooked(item)' <=> ItemBooked(item)
  BY <1>1, BooksStay
<1>3. ScanTypeOK' /\ HistoryKept' /\ FindingsKept' /\ RunKept'
  BY <1>1, <1>2 DEF ReconciliationInv, ScanTypeOK, HistoryKept, FindingsKept, RunKept, SoundBooksPass
<1>4. QED
  BY <1>1, <1>3, RunStepInv

\* Every step keeps the invariant, and what it finds is what its check says.
LEMMA ReconciliationStep ==
    ASSUME ReconciliationInv, [ReconciliationNext]_reconciliationVars
    PROVE  /\ ReconciliationInv'
           /\ \A f \in scan'.found \ scan.found :
                f.code = "LIABILITY_DRIFT" =>
                    /\ f.subject = <<scan.liability - HeldRemaining>>
                    /\ scan.liability - HeldRemaining # 0
<1>1. CASE \E p \in Payments, b \in Bookings, c \in Captures : Pay(p, b, c)
  BY <1>1, PayInv
<1>2. CASE BooksStep
  BY <1>2, BooksStepInv DEF BooksStep
<1>3. CASE StartRun
  <2>1. scan'.found = scan.found
    BY <1>3 DEF StartRun, ScanTo, ReconciliationInv, ScanTypeOK
  <2>2. QED
    BY <1>3, <2>1, StartRunInv
<1>4. CASE CheckInvariantA
  <2>1. \A f \in scan'.found \ scan.found : f.code = "EVENT_IMBALANCE"
    BY <1>4 DEF CheckInvariantA, ScanTo, Finding, ReconciliationInv, ScanTypeOK
  <2>2. QED
    BY <1>4, <2>1, CheckAInv
<1>5. CASE ReadLiability
  <2>1. scan'.found = scan.found
    BY <1>5 DEF ReadLiability, ReconciliationInv, ScanTypeOK
  <2>2. QED
    BY <1>5, <2>1, ReadLiabilityInv
<1>6. CASE CheckInvariantB
  BY <1>6, CheckBInv
<1>7. CASE CheckInvariantC
  BY <1>7, CheckCInv
<1>8. CASE SkipCrossCheck
  BY <1>8, SkipInv
<1>9. CASE FetchHistory
  BY <1>9, FetchInv
<1>10. CASE \E item \in scan.todo : CheckItem(item)
  BY <1>10, CheckItemInv
<1>11. CASE CompleteRun
  BY <1>11, CompleteRunInv
<1>12. CASE FailRun
  BY <1>12, FailRunInv
<1>13. CASE AbandonRun
  BY <1>13, EndRunInv DEF AbandonRun
<1>14. CASE UNCHANGED reconciliationVars
  BY <1>14, StutterRun
<1>15. QED
  BY <1>1, <1>2, <1>3, <1>4, <1>5, <1>6, <1>7, <1>8, <1>9, <1>10, <1>11, <1>12, <1>13, <1>14
  DEF ReconciliationNext, RunStep

-----------------------------------------------------------------------------
(***************************************************************************)
(* What a run can be trusted with.                                         *)
(***************************************************************************)

\* The books a run reads are sound at every moment, and so is what it has made of them.
THEOREM BooksAndRunKept == ReconciliationSpec => []ReconciliationInv
<1>1. QED
  BY ReconciliationInitInv, ReconciliationStep, PTL DEF ReconciliationSpec

\* A completed run reports no event that does not balance and no negative revenue: the
\* operations of the escrow component cannot make one.
THEOREM NoFalseImbalance == ReconciliationSpec => []SoundBooksPass
<1>1. ReconciliationInv => SoundBooksPass
  BY DEF ReconciliationInv, RunKept, SoundBooksPass
<1>2. QED
  BY <1>1, BooksAndRunKept, PTL

\* The drift that Invariant B reports is what the ledger moved between its two queries.
THEOREM DriftExplained == ReconciliationSpec => DriftIsMovement
<1> DEFINE Movement ==
      \A f \in scan'.found \ scan.found :
          f.code = "LIABILITY_DRIFT" =>
              /\ f.subject[1] # 0
              /\ f.subject[1] = scan.liability - AccountBalance("ESCROW_LIABILITY")
<1>1. ASSUME ReconciliationInv, [ReconciliationNext]_reconciliationVars
      PROVE  [Movement]_reconciliationVars
  <2>1. HeldRemaining = AccountBalance("ESCROW_LIABILITY")
    BY <1>1, LiabilityIsHeld
  <2>2. ASSUME NEW f \in scan'.found \ scan.found, f.code = "LIABILITY_DRIFT"
        PROVE  /\ f.subject[1] # 0
               /\ f.subject[1] = scan.liability - AccountBalance("ESCROW_LIABILITY")
    <3> DEFINE drift == scan.liability - HeldRemaining
    <3>1. f.subject = <<drift>> /\ drift # 0
      BY <1>1, <2>2, ReconciliationStep
    <3>2. drift = scan.liability - AccountBalance("ESCROW_LIABILITY")
      BY <2>1
    <3> HIDE DEF drift
    <3>3. QED
      BY <3>1, <3>2
  <2>3. QED
    BY <2>2
<1>2. QED
  BY <1>1, BooksAndRunKept, PTL DEF ReconciliationSpec, DriftIsMovement

\* A completed run that alerts nobody: what PayFast has collected opened a hold, and what
\* PayFast has sent was sent once and is booked.
THEOREM QuietRunCorrect == ReconciliationSpec => []QuietRunMeansBooked
<1>1. ASSUME ReconciliationInv PROVE QuietRunMeansBooked
  <2> SUFFICES ASSUME run.state = "COMPLETED", ~run.alertSent, NEW item \in scan.history
               PROVE  IF item.kind = "transaction"
                      THEN \E b \in Bookings : charge[b] = item.payment /\ hold[b] # NoHold
                      ELSE /\ booked[item.call] = refunds[item.call].cents
                           /\ sent[item.call] = refunds[item.call].cents
    BY DEF QuietRunMeansBooked
  <2>1. /\ CallsInv /\ BooksKept /\ HistoryKept
        /\ item \in Items
        /\ \A other \in scan.history : ItemBooked(other)
    BY <1>1 DEF ReconciliationInv, RunKept, ScanTypeOK
  <2>2. CASE item.kind = "transaction"
    <3>1. PICK b \in Bookings : charge[b] = item.payment
      BY <2>1, <2>2 DEF ItemBooked
    <3>2. item.payment # NoPayment
      BY <2>1, <2>2, ReconciliationAssumption DEF Items
    <3>3. QED
      BY <2>1, <2>2, <3>1, <3>2 DEF BooksKept
  <2>3. CASE item.kind # "transaction"
    <3> DEFINE c == item.call
               first == [item EXCEPT !.nth = 1]
    <3>1. /\ c \in Calls
          /\ item.kind = "refund"
          /\ first.kind = "refund" /\ first.call = c /\ first.nth = 1
      BY <2>1, <2>3 DEF Items
    <3>2. first \in scan.history
      BY <2>1, <3>1 DEF HistoryKept
    <3> HIDE DEF first, c
    <3>3. RefundBooked(first)
      BY <2>1, <3>1, <3>2 DEF ItemBooked
    <3>4. refunds[c].state = "SUCCEEDED" /\ 1 * refunds[c].cents = sent[c]
      BY <3>1, <3>3 DEF RefundBooked
    <3>5. refunds[c].cents \in Nat
      BY <2>1, <3>1, CallType DEF RefundRow
    <3>6. booked[c] = refunds[c].cents /\ sent[c] = refunds[c].cents
      BY <2>1, <3>1, <3>4, <3>5, SucceededIsDone
    <3>7. QED
      BY <2>3, <3>6 DEF c
  <2>4. QED
    BY <2>2, <2>3
<1>2. QED
  BY <1>1, BooksAndRunKept, PTL

-----------------------------------------------------------------------------

LEMMA ReconciliationInitOperates == ReconciliationInit => Init
  BY DEF ReconciliationInit, RefundsInit

\* A run reads the books and a payment at PayFast does not touch them: what moves them
\* are the refunds and the escrow component.
LEMMA ReconciliationOperates ==
    ASSUME ReconciliationInv, [ReconciliationNext]_reconciliationVars
    PROVE  [OperationsNext]_escrowVars
<1>1. CallsInv
  BY DEF ReconciliationInv
<1>2. CASE BooksStep
  BY <1>1, <1>2, RefundsOperate DEF BooksStep
<1>3. CASE ~BooksStep
  <2>1. CASE \E x \in Payments, b \in Bookings, c \in Captures : Pay(x, b, c)
    BY <2>1 DEF Pay, bookVars, refundsVars
  <2>2. CASE RunStep
    BY <2>2 DEF RunStep, StartRun, CheckInvariantA, ReadLiability, CheckInvariantB,
       CheckInvariantC, SkipCrossCheck, FetchHistory, CheckItem, LookUp, CompleteRun, FailRun,
       AbandonRun, bookVars, refundsVars
  <2>3. CASE UNCHANGED reconciliationVars
    BY <2>3 DEF reconciliationVars, bookVars, refundsVars
  <2>4. QED
    BY <1>3, <2>1, <2>2, <2>3 DEF ReconciliationNext
<1>4. QED
  BY <1>2, <1>3

\* What the escrow component promises of its holds holds while runs read them.
THEOREM PromisesInReconciliation == ReconciliationSpec => EscrowPromises
<1>1. QED
  BY BooksAndRunKept, ReconciliationInitOperates, ReconciliationOperates, PromisesKept, PTL
     DEF ReconciliationSpec, OperationsSpec
=============================================================================
