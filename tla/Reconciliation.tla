--------------------------- MODULE Reconciliation ---------------------------
(***************************************************************************)
(* The nightly reconciliation (ReconciliationService.runForDate) next to   *)
(* the operations whose books it reads.  A run is not a transaction: every *)
(* query sees the database of its own moment, the ledger and the holds of  *)
(* Invariant B among them, and between two queries any escrow operation,   *)
(* refund call or ITN may commit.  PayFast's history is read once, and its *)
(* items are then looked up locally one by one.                            *)
(*                                                                         *)
(* Everything here happens on the day the run is for, which covers both    *)
(* callers: the admin may start a run for today at any moment, and for the *)
(* cron of the following night the day's operations are merely over.  Runs *)
(* only read what the others write, so one run is enough.  Payouts, which  *)
(* the cross-check treats as it treats refunds, are not in this model.     *)
(***************************************************************************)
EXTENDS Refunds

CONSTANTS
    Payments,        \* PayFast payment ids
    NoPayment,       \* no SUCCEEDED CHARGE row
    AlertThreshold,  \* RECONCILIATION_ALERT_THRESHOLD_CENTS
    FindingsCap      \* FINDINGS_CAP

ASSUME ReconciliationAssumption ==
    /\ IsFiniteSet(Bookings)
    /\ NoPayment \notin Payments
    /\ AlertThreshold \in Nat
    /\ FindingsCap \in Nat \ {0}

VARIABLES
    paid,     \* PayFast: payment -> the booking it is for and its cents
    charge,   \* transactions: booking -> gateway_txn_id of its SUCCEEDED CHARGE row
    journal,  \* ledger_entries by event_id: booking -> entries of each event
    run,      \* reconciliation_runs: the row
    scan      \* the local variables of runForDate

bookVars == <<refundsVars, paid, charge, journal>>
reconciliationVars == <<bookVars, run, scan>>

NotPaid == [booking |-> NoPayment, amount |-> 0, fee |-> 0]
NoRun   == [state |-> "ABSENT", findings |-> {}, alertSent |-> FALSE]
NoScan  == [pc |-> "idle", liability |-> 0, history |-> {}, todo |-> {}, found |-> {}, missing |-> {}]

Finding(code, severity, subject) == [code |-> code, severity |-> severity, subject |-> subject]

\* What a query found is kept in memory until the run ends.
ScanTo(point, findings) == scan' = [scan EXCEPT !.pc = point, !.found = @ \cup findings]

-----------------------------------------------------------------------------

\* The client pays: PayFast has the money before any ITN tells the platform, and
\* nothing stops the payment of a second intent of the same booking.
Pay(p, b, c) ==
    /\ paid[p] = NotPaid
    /\ paid' = [paid EXCEPT ![p] = [booking |-> b, amount |-> c.amount, fee |-> c.fee]]
    /\ UNCHANGED <<refundsVars, charge, journal, run, scan>>

\* A hold is opened by the ITN of a payment, in the transaction that settles its
\* CHARGE row; every write of the ledger is an event with entries of its own.
BooksStep ==
    /\ RefundsNext
    /\ charge' \in [Bookings -> Payments \cup {NoPayment}]
    /\ \A b \in Bookings :
          IF hold[b] = NoHold /\ hold'[b] # NoHold
          THEN \E p \in Payments :
                  /\ paid[p] = [booking |-> b, amount |-> hold'[b].amount, fee |-> hold'[b].fee]
                  /\ charge'[b] = p
          ELSE charge'[b] = charge[b]
    /\ journal' = [b \in Bookings |->
                      IF ledger'[b] = ledger[b] THEN journal[b]
                      ELSE Append(journal[b],
                                  [acc \in Accounts |-> ledger'[b][acc] - ledger[b][acc]])]
    /\ UNCHANGED <<paid, run, scan>>

-----------------------------------------------------------------------------

\* Mutant: revenue is taken for an account with a debit balance.
AccountBalanceRevenueDebits(account) ==
    SumFunction([b \in Bookings |->
        IF account \in {"PAYFAST_SETTLEMENT", "PLATFORM_REVENUE"} THEN -ledger[b][account]
        ELSE ledger[b][account]])

\* computeAccountBalanceCents: the balance in the account's normal direction.
AccountBalance(account) ==
    SumFunction([b \in Bookings |->
        IF account = "PAYFAST_SETTLEMENT" THEN -ledger[b][account] ELSE ledger[b][account]])

StartRun ==
    /\ run = NoRun
    /\ run' = [run EXCEPT !.state = "RUNNING"]
    /\ ScanTo("entries", {})
    /\ UNCHANGED bookVars

\* Invariant A: the events whose entries do not balance.
CheckInvariantA ==
    /\ scan.pc = "entries"
    /\ ScanTo("liability",
              {Finding("EVENT_IMBALANCE", "HIGH", <<b>>) :
                  b \in {x \in Bookings : \E i \in DOMAIN journal[x] : ~Balanced(journal[x][i])}})
    /\ UNCHANGED <<bookVars, run>>

\* Invariant B, its first query: the ledger.
ReadLiability ==
    /\ scan.pc = "liability"
    /\ scan' = [scan EXCEPT !.pc = "holds", !.liability = AccountBalance("ESCROW_LIABILITY")]
    /\ UNCHANGED <<bookVars, run>>

\* Mutant: a frozen hold is not money in trust.
HeldRemainingUnfrozen ==
    SumFunction([b \in Bookings |->
        IF hold[b].state \in {"HELD", "PARTIALLY_REFUNDED"} THEN Remaining(hold[b]) ELSE 0])

HeldRemaining ==
    SumFunction([b \in Bookings |->
        IF hold[b].state \in OpenStates THEN Remaining(hold[b]) ELSE 0])

\* Its second query: the holds.  The finding names the drift.
CheckInvariantB ==
    LET drift == scan.liability - HeldRemaining
        severity == IF drift > AlertThreshold \/ -drift > AlertThreshold THEN "HIGH" ELSE "LOW"
    IN  /\ scan.pc = "holds"
        /\ scan' = [scan EXCEPT
                !.pc = "revenue",
                !.liability = 0,
                !.found = IF drift = 0 THEN @
                          ELSE @ \cup {Finding("LIABILITY_DRIFT", severity, <<drift>>)}]
        /\ UNCHANGED <<bookVars, run>>

CheckInvariantC ==
    LET revenue == AccountBalance("PLATFORM_REVENUE") IN
    /\ scan.pc = "revenue"
    /\ ScanTo("history",
              IF revenue < 0 THEN {Finding("REVENUE_NEGATIVE", "HIGH", <<revenue>>)} ELSE {})
    /\ UNCHANGED <<bookVars, run>>

-----------------------------------------------------------------------------

\* No credentials, or an adapter that returns no history.
SkipCrossCheck ==
    /\ scan.pc = "history"
    /\ ScanTo("finish", {Finding("SKIPPED", "INFO", <<>>)})
    /\ UNCHANGED <<bookVars, run>>

\* PayFast's COMPLETE transactions of the day, and its refunds: each time it sent
\* the money of a call is a refund with an id of its own.
Transactions ==
    {[kind |-> "transaction", payment |-> p, cents |-> paid[p].amount + paid[p].fee] :
        p \in {q \in Payments : paid[q] # NotPaid}}
RefundsSent ==
    UNION {{[kind |-> "refund", call |-> c, nth |-> i] :
               i \in 1 .. (sent[c] \div refunds[c].cents)} : c \in {d \in Calls : sent[d] # 0}}

FetchHistory ==
    /\ scan.pc = "history"
    /\ scan' = [scan EXCEPT !.pc = "cross-check",
                            !.history = Transactions \cup RefundsSent,
                            !.todo = Transactions \cup RefundsSent]
    /\ UNCHANGED <<bookVars, run>>

\* One item is looked up; at the cap the rest of the history is not.
LookUp(item, isBooked, finding) ==
    LET missing == IF isBooked THEN scan.missing ELSE scan.missing \cup {finding} IN
    /\ scan' = [scan EXCEPT !.missing = missing,
                            !.todo = IF Cardinality(missing) >= FindingsCap THEN {}
                                     ELSE @ \ {item}]
    /\ UNCHANGED <<bookVars, run>>

\* A SUCCEEDED transaction has the payment's id, and is of the same amount.
TransactionBooked(t) ==
    \E b \in Bookings : charge[b] = t.payment /\ hold[b].amount + hold[b].fee = t.cents

\* Mutant: the state of the local row is not looked at.
RefundBookedInAnyState(s) == refunds[s.call].state # "ABSENT"

\* The refunds row of a call is SUCCEEDED under the id that PayFast's last answer named.
RefundBooked(s) ==
    refunds[s.call].state = "SUCCEEDED" /\ s.nth * refunds[s.call].cents = sent[s.call]

\* The transactions are looked up before the refunds.
CheckItem(item) ==
    /\ scan.pc = "cross-check"
    /\ IF item.kind = "transaction"
       THEN LookUp(item, TransactionBooked(item),
                   Finding("TRANSACTION_MISSING_LOCAL", "HIGH", <<item.payment>>))
       ELSE /\ \A other \in scan.todo : other.kind = "refund"
            /\ LookUp(item, RefundBooked(item),
                      Finding("REFUND_MISSING_LOCAL", "HIGH", <<item.call, item.nth>>))

-----------------------------------------------------------------------------

CompleteRun ==
    /\ \/ scan.pc = "finish"
       \/ scan.pc = "cross-check" /\ scan.todo = {}
    /\ scan' = [NoScan EXCEPT !.pc = "done", !.history = scan.history]
    /\ LET findings == scan.found \cup scan.missing IN
       run' = [state     |-> "COMPLETED",
               findings  |-> findings,
               alertSent |-> \E f \in findings : f.severity = "HIGH"]
    /\ UNCHANGED bookVars

\* A query throws: the row is FAILED with what the finished checks found (those of a
\* cross-check that is not over are lost) and one more finding, filed under
\* Invariant A, for the error; alert_sent keeps its default.
FailRun ==
    /\ scan.pc \notin {"idle", "done"}
    /\ scan' = [NoScan EXCEPT !.pc = "done"]
    /\ run' = [run EXCEPT !.state = "FAILED",
                          !.findings = scan.found
                                       \cup (IF scan.todo = {} THEN scan.missing ELSE {})
                                       \cup {Finding("EVENT_IMBALANCE", "HIGH", <<>>)}]
    /\ UNCHANGED bookVars

\* The process dies, or the update that should mark the row FAILED fails as well and
\* is swallowed: the row stays RUNNING, and nothing looks at it again.
AbandonRun ==
    /\ scan.pc \notin {"idle", "done"}
    /\ scan' = [NoScan EXCEPT !.pc = "done"]
    /\ UNCHANGED <<bookVars, run>>

-----------------------------------------------------------------------------

ReconciliationInit ==
    /\ RefundsInit
    /\ paid    = [p \in Payments |-> NotPaid]
    /\ charge  = [b \in Bookings |-> NoPayment]
    /\ journal = [b \in Bookings |-> <<>>]
    /\ run     = NoRun
    /\ scan    = NoScan

RunStep ==
    \/ StartRun
    \/ CheckInvariantA
    \/ ReadLiability
    \/ CheckInvariantB
    \/ CheckInvariantC
    \/ SkipCrossCheck
    \/ FetchHistory
    \/ \E item \in scan.todo : CheckItem(item)
    \/ CompleteRun
    \/ FailRun
    \/ AbandonRun

ReconciliationNext ==
    \/ \E p \in Payments, b \in Bookings, c \in Captures : Pay(p, b, c)
    \/ BooksStep
    \/ RunStep

ReconciliationSpec == ReconciliationInit /\ [][ReconciliationNext]_reconciliationVars

-----------------------------------------------------------------------------
(***************************************************************************)
(* Properties.                                                             *)
(***************************************************************************)

\* Invariant B compares two reads that other transactions may separate.  The books
\* are sound (LiabilityBacksHolds), so a drift it reports is, to the cent, what the
\* ledger moved between the two reads, and a drift of nothing is not reported.
DriftIsMovement ==
    [][\A f \in scan'.found \ scan.found :
          f.code = "LIABILITY_DRIFT" =>
              /\ f.subject[1] # 0
              /\ f.subject[1] = scan.liability - AccountBalance("ESCROW_LIABILITY")]_reconciliationVars

\* No order of operations makes a completed run report an event that does not balance
\* or a negative revenue: only a run that failed carries a finding of Invariant A.
SoundBooksPass ==
    run.state = "COMPLETED" =>
        \A f \in run.findings : f.code \notin {"EVENT_IMBALANCE", "REVENUE_NEGATIVE"}

\* What a quiet run promises, whatever was in flight while it looked: every payment
\* PayFast has collected opened the hold of its booking, and every refund PayFast has
\* sent is the one refund of its call and is booked on a hold.  Money sent twice, money
\* sent by a call that was lost and a second payment of a booking are never passed over.
QuietRunMeansBooked ==
    run.state = "COMPLETED" /\ ~run.alertSent =>
        \A item \in scan.history :
            IF item.kind = "transaction"
            THEN \E b \in Bookings : charge[b] = item.payment /\ hold[b] # NoHold
            ELSE /\ booked[item.call] = refunds[item.call].cents
                 /\ sent[item.call] = refunds[item.call].cents

-----------------------------------------------------------------------------
(***************************************************************************)
(* The inductive invariant behind them: the books a run reads, and what it *)
(* has made of them so far.                                                *)
(***************************************************************************)

Points == {"idle", "entries", "liability", "holds", "revenue", "history", "finish",
           "cross-check", "done"}

\* An item of PayFast's history.
Items == [kind : {"transaction"}, payment : Payments, cents : Nat]
         \cup [kind : {"refund"}, call : Calls, nth : Nat \ {0}]

PaidTypeOK ==
    paid \in [Payments -> [booking : Bookings \cup {NoPayment}, amount : Nat, fee : Nat]]

ScanTypeOK ==
    /\ DOMAIN scan = {"pc", "liability", "history", "todo", "found", "missing"}
    /\ scan.pc \in Points
    /\ scan.history \in SUBSET Items
    /\ scan.todo \in SUBSET scan.history
    /\ DOMAIN run = {"state", "findings", "alertSent"}
    /\ run.alertSent \in BOOLEAN

\* Every event of the journal balances, and a settled CHARGE row has opened a hold.
BooksKept ==
    /\ charge \in [Bookings -> Payments \cup {NoPayment}]
    /\ journal \in [Bookings -> Seq({entries \in [Accounts -> Int] : Balanced(entries)})]
    /\ \A b \in Bookings : charge[b] # NoPayment => hold[b] # NoHold

\* A run that has not reached PayFast's history has nothing of it, and a history that has
\* any refund of a call has the first one.
HistoryKept ==
    /\ scan.pc \notin {"cross-check", "done"} =>
          scan.history = {} /\ scan.todo = {} /\ scan.missing = {}
    /\ \A item \in scan.history :
          item.kind = "refund" => [item EXCEPT !.nth = 1] \in scan.history

\* What stays true of an item once it was found in the books.
ItemBooked(item) ==
    IF item.kind = "transaction"
    THEN \E b \in Bookings : charge[b] = item.payment
    ELSE RefundBooked(item)

SoundFinding(f) == f.code \notin {"EVENT_IMBALANCE", "REVENUE_NEGATIVE"}

FindingsKept ==
    /\ \A f \in scan.found : SoundFinding(f)
    /\ \A f \in scan.missing : SoundFinding(f) /\ f.severity = "HIGH"
    /\ scan.pc = "cross-check" /\ scan.missing = {} =>
          \A item \in scan.history \ scan.todo : ItemBooked(item)

RunKept ==
    /\ run.state = "COMPLETED" => scan.pc = "done" /\ SoundBooksPass
    /\ run.state = "COMPLETED" /\ ~run.alertSent => \A item \in scan.history : ItemBooked(item)
    /\ run = NoRun => scan.pc = "idle"

ReconciliationInv ==
    /\ CallsInv
    /\ PaidTypeOK
    /\ ScanTypeOK
    /\ BooksKept
    /\ HistoryKept
    /\ FindingsKept
    /\ RunKept
=============================================================================
