# A TLA+ model of the payments engine

This directory models the payments engine under `src/`: escrow holds with a
double-entry ledger, refunds, checkout and PayFast ITNs, payouts to artists,
the Pub/Sub consumers, the transactional outbox, the admin's idempotent
requests and paginated lists, exchange rates and the nightly reconciliation.
TLC checks small instances; TLAPS proves every safety property that holds, for all instances.

To run something: `tlc -config MCEscrow.cfg MCEscrow`, `tlapm EscrowProofs.tla`.

## The system

A client pays for a booking at PayFast. The ITN (PayFast's webhook) opens an
*escrow hold* for the booking's total less the platform's fee. Events from the
data engine (booking completed, cancelled, disputed, dispute resolved) or an
admin then release the hold to the artist, refund the client, freeze the hold
or split it. A release queues a *payout*, which a dispatcher sends through
PayFast's adhoc API once the dispute window has passed. Each of these writes,
in its own transaction, ledger entries, an audit row and an outbox row; a
dispatcher publishes the outbox to Pub/Sub.

All state is in Postgres (Redis for idempotency keys), and several
instances of the service run on it, so what races is: HTTP requests, ITNs,
Pub/Sub handlers, and the cron jobs of every instance. A transaction of
`EscrowService` is Serializable and pins its hold row with `SELECT ... FOR
UPDATE`; almost everything else is a read, some work or a call to PayFast, and
then a write.

| component (source under `src/src/`) | state | operations | what makes it correct |
|---|---|---|---|
| escrow: `modules/escrow/escrow.service.ts`, `escrow-state.machine.ts`, `ledger.service.ts` | `escrow_holds`, `ledger_entries`, `escrow_events`, `payouts` rows it queues, `outbox_events` | release, refund, partialRefund, freeze, resolveRelease, resolveRefund, resolveSplit; opening by the ITN | the ledger backs the holds; settlements are final and paid once; the fee follows the outcome |
| refunds: `modules/refunds/refunds.service.ts` | `refunds` | issueRefund, canRefund | what is booked was sent, is within the hold and is announced truthfully; what was sent is refused its booking only for a cause |
| checkout: `modules/payments/payment-intents.service.ts`, `payfast-webhook.service.ts` | `payment_intents`, `transactions` | create, lock, ITN | a hold stands for one completed payment of the right amount; repeated and reordered ITNs are harmless |
| payouts: `modules/payouts/jobs/*.ts`, `payouts.service.ts`, `payout-methods.service.ts` | `payouts`, `artist_payout_methods` | dispatcher tick, retry cron, admin retry/cancel, upsert/verify/reject | an artist is paid once per payout, and what was paid stays paid; what is due is tried |
| consumers: `events/subscribers/**` | `processed_events` | onMessage, booking and dispute handlers | an event handled without an error has taken effect |
| outbox: `events/outbox.service.ts`, `outbox.dispatcher.ts`, `pubsub.publisher.ts` | `outbox_events` | enqueue, dispatch | published means sent; order per aggregate; bounded duplicates |
| admin's requests on holds: `common/idempotency.service.ts`, `modules/escrow/escrow.controller.ts` | one Redis entry per key | run around seven mutations | a replay is of work done for the same request and still stands |
| lists: `common/pagination.ts`, `EscrowService.list` and its like | none (the cursor is the client's) | first page, next page | a walk misses nothing and repeats nothing |
| fx: `modules/fx/fx.service.ts`, `infra/exchange-rates/*.ts` | `exchange_rates`, `fx_rate_overrides` | refresh, put and delete override, convertCurrency | quotes do not go back in time; one rounding rule; fee and total at one rate |
| reconciliation: `modules/reconciliation/*.ts` | `reconciliation_runs` | runForDate | no false alarm but for what moved; a quiet run has found all money booked |
| admin read models, HTTP layer, crypto, config | | | see *Not modelled* |

## Modules

    EscrowRules --> Escrow --> Refunds --> EventConsumers
                       |          |
                       |          +--> Reconciliation
                       +--> PaymentIntents
                       +--> HoldListing
                       +--> HoldRequests <-- Idempotency
    PayoutMethods --> Payouts        Outbox        Fx

    abstract specifications (INSTANCE by):
    HeldFunds (Escrow) --> RefundedFunds  (Refunds)
                      +--> CollectedFunds (PaymentIntents)
    OrderedDelivery (Outbox)

    EscrowProofs (Escrow) --> RefundsProofs       (Refunds, EventConsumers)
                         |--> IntentsProofs       (PaymentIntents)
                         +--> HoldRequestsProofs  (HoldRequests, Idempotency, HoldListing)
    RefundsProofs --> ReconciliationProofs        (Reconciliation)
    PayoutsProofs (Payouts)     OutboxProofs (Outbox)     FxProofs (Fx)

An arrow reads "is extended by". Each `MC*.tla` extends one of them and gives
the constants of its `.cfg`.

**EscrowRules** is the pure part: the transition table, the entry builders. A
ledger event is a function from accounts to signed cents (CREDIT positive).

**Escrow** has one action per operation of `EscrowService` and `Capture` for the
part of `commitComplete` that opens the hold. One action is one transaction,
which the row lock and the isolation level justify; a call the code refuses
rolls back and is a disabled action. Holds are indexed by booking
(`escrow_holds.booking_id` is unique). The ledger is kept as balances per
booking; the entries of an event are checked to balance when they are posted,
as `assertBalanced` does. `Remaining`, `MoveHold`, `WriteLedger`, `Record`,
`QueuePayout` and `Emit` are the helpers of the same purpose in the code.

**HeldFunds** is what this promises, without ledger, table and events: a pot
held in trust per booking, shares of the artist and the client, the fee. It is
refined under a mapping that takes the phase from the state machine and the
money from the ledger, so a step on which the two disagree is no step of it.

**Refunds** is `issueRefund` step by step: the checks on an unlocked read, the
`refunds` row, up to `MaxAttempts` requests to PayFast, the escrow transaction,
the transaction that finalises the row. The last two are separate steps because
`EscrowService` opens its transaction on its own client. `sent` is what PayFast
has done, which the service only sees through answers; with `LostAnswers` an
error may hide a refund that went out. Every escrow operation may run in
between (`OtherStep`).

**RefundedFunds** is what a refund call promises: over the pots of HeldFunds, an amount
within what was paid is asked for, sent a bounded number of times, leaves the pot
in the one step that books it, and its outcome is told once, at the end. It has no program
counter and no stale read; what it forbids is a call that books money it has
not sent, sends money for a call that is booked or given up, or tells the platform something else.

**EventConsumers** puts the subscriber on top: delivery at least once and in any
order, the `processed_events` row written in a transaction of its own before
the handler, the handlers with what they read, skip, catch and rethrow. A
message has at most one handler run, so a refund call is named by its message.

**PaymentIntents** is the way to the hold: `lock` in its three steps (read, quote
of the total, quote of the fee with the unconditional update), forms that never
expire at PayFast, payments that go PENDING and then COMPLETE or FAILED, and
webhook invocations that read the intent and then commit. Amounts matter in ZAR
only; a rate is an index into what total and fee come to at that rate.

**CollectedFunds** is what checkout promises: offers of a booking for a total, payments
that PayFast has collected on some offer, and a pot opened at most once, of the whole of one
collected total less a fee that was quoted. Intents, ITNs, their order and their
repetition are not in it.

**PayoutMethods** and **Payouts**: a dispatcher tick picks a batch by a plain
SELECT and walks it; the claim is the only guarded write of the way to success.
The retry cron has a guarded write, the admin's retry and cancel do not.

**Outbox**: a row has a `created_at`, a time in milliseconds that Postgres sets at the
insert. Rows may share it, and are committed in any order: nothing in `enqueue` or its callers
makes two rows of one aggregate commit in the order of their creation (most callers hold the row
lock of the hold, `persistFailure` holds none). A tick reads a batch of the oldest, where
ties are broken in any way, and walks it; publishing, marking and counting a failure are
steps. A row whose type has no topic, or any row when the bus is disabled (`Routed`), is not sent
and marked as published all the same; every type that is enqueued has a topic, so only a disabled bus does
that today. `before` remembers, for the properties, which older rows of its aggregate were
there when a row was committed.

**OrderedDelivery** is the outbox as a subscriber sees it: an event is committed in any order, arrives after its
commit and after the earlier events of its subject that were committed before it and have not failed, is
settled only when it has arrived (if there is anybody to deliver it to), and arrives again only for a
worker, a counted failure or an interruption.

**Idempotency** is `run`: look up, work, store, for requests with any keys; what
the work is, is left open. **HoldRequests** puts the seven mutations of
`EscrowController` into it. A key is endpoint (its path names the hold), user
and header; the bodies are those that the DTOs let pass; the response is the hold
as the operation left it. Events and ITNs change the same holds by other
routes (`OtherRoutes`).

**HoldListing** is a client that walks the list of holds page by page while holds are
opened, by transactions that may commit in another order than their
`created_at`, and change state. The rows it was owed at the first page, those it
was given and those it was given twice are remembered for the property. The lists of refunds, payouts,
payout methods and the admin's read models page their tables in the same way.

**Reconciliation** is `runForDate`, one step per query, over the books of Refunds:
Invariant A on the entries per event (`journal`), Invariant B in its two
reads, Invariant C, and the cross-check, which takes PayFast's history once and
looks its items up one by one. `paid` and `sent` are what PayFast knows. A run may
fail at any query and may be abandoned. As the cross-check has it, a `refunds` row
holds the id of the last answer only, so of a refund that went out twice one id is found.

**Fx** is the refresh (fetch, then one upsert per pair, by several replicas at once,
broken off anywhere), the overrides, and the two conversions of
`PaymentIntentsService.lock`, each a look at the override and a look at the
rows. Rates are integers over `Scale`, as the column keeps eight decimals, so
rounding is exact. `known` (the newest row a finished refresh or a quote has seen) and
`moved` (a rate of the pair was written during a lock) are there for the properties.

## Runs

`CHECK_DEADLOCK FALSE` everywhere: payments, calls, messages and rows are finite
in number and all of these systems come to rest when they are used up.

| run | instance | shows |
|---|---|---|
| `escrow` (210k states) | two bookings; payments of 3 cents with a fee of 2 and of 1 cent without; requests of -1 to 4 cents; a client that lists them, one per page, at two timestamps | the invariants below, also as the inductive one; `SettledForever`; `ImplementsHeldFunds`; `PagesComplete` |
| `refunds` (421k, symmetric) | one hold of 2+1 cents, two calls, two attempts, answers that hide a refund, calls lost at any step | `RefundsInv`, `BookedAsSent`, `AnnouncedTruth`, `BookedWithinHold`, `ImplementsRefundedFunds`, `RefusalHasCause` |
| `events` (889k, symmetric) | two messages of any of eleven contents on one booking, deaths at any step | `ConsumersInv` (a message is marked before its handler runs), `HandledTakesEffect` |
| `intents` (1.75M, symmetric) | two rates, one lock at a time, two payments, one webhook invocation | `IntentsInv`, `HoldBackedByPayment` |
| `intents_itns` (101k) | two rates, one payment, two invocations | `ItnRecordedOnce`, `CollectedIsHeld`, `ImplementsCollectedFunds` |
| `payouts` (172k) | two payouts of an artist, two runners, two counted attempts | `PaidOnce`, `PaidIsSucceeded`, `QueuedIsTried` |
| `payouts_faults` (30k, symmetric) | one payout, two runners, an admin, crashes, answers that hide a payment | `PayoutsInv`, `SendsPaidByAttempts` |
| `outbox` (113k) | three rows of two aggregates, two of them with one `created_at` and one without a topic, committed in any order, batches of two, two instances, failures, one death | `OutboxInv`, `ImplementsOrderedDelivery`, `FirstSentInOrder`, `RowsLeave` |
| `requests` (50k, symmetric) | one hold of 2+1 cents, three requests of seven endpoints with one key or none and up to two bodies, expiry, deaths, other routes | `RepliesStand`, `AnsweredIsRemembered` |
| `reconciliation` (829k, symmetric) | one booking that may be paid twice, one refund call of two attempts whose answers may hide a refund, one run, a cap of two findings | `DriftIsMovement`, `SoundBooksPass`, `QuietRunMeansBooked` |
| `rates` (1.2M, symmetric) | two currencies, two publications of three, two refreshing replicas, overrides in both directions, one lock | `QuotesAdvance`, `FeeAtRateOfTotal`, `NearestCents` |
| `events_refund_to_client` | a small instance without faults | the disagreement below, as a violation |

**Bounds.** Amounts: 3 cents admit no, one and several partial refunds and an
uneven split, with a request beyond the hold and a negative one; the fee of 2
differs from every share. Two calls, two runners, two webhook invocations or two
messages are enough for every race of two, which is what the guards of the code
are written against; three are tried where they are cheap (`requests`). Two
attempts show a retry, and two counted attempts a requeue that is not the
last. `MaxAttempts` of the outbox is 1 there: a row is given up at its first
failure, and the race of two instances past the cap is still there. With 2, TLC takes too long for
`RowsLeave` on three rows; the other properties were checked with 2 as well, and `RowsLeave` on two rows, in
runs that are not kept. Named model
bounds are `MaxPublished` (Fx: how often the provider publishes), `PinnedPairs`,
`AttemptsBound` (Payouts: `attempts` has no limit in the code when an
admin retries) and `DeathsBound` (Outbox). The two rates are far apart so that
the fee at one exceeds the total at the other, and the refusal of a negative
hold is reached. One booking is enough for `reconciliation`, whose sums run over all of
them: an operation on it between two reads is what makes drift. Two currencies in
`rates` have a pair, its inverse and the two trivial pairs; the
cross pair of two that are not the base is one more row of the same loop and is not
reached. Rates of 3 and 4 tenths put products on, above and below half a cent. Symmetry is used only in runs without liveness.

**Fairness.** `FairPayoutsSpec`: the cron
fires every hour on every instance, and a tick goes on; deaths are excluded in
that run, since a process that dies in every tick pays nobody.
`FairIntentsSpec`: an invocation ends (weak), and PayFast repeats a COMPLETE ITN
until it is answered 200 (strong: the invocation slots of the model are
sometimes taken). `FairOutboxSpec`: the interval fires, a tick goes on. Nothing
is assumed of clients, admins, the data engine, rates or the bank.

**How to read the properties.** `CollectedIsHeld` holds as long as the locked total is what was
paid and the fee is within it: a client who locks again at another rate and then pays
the first form is not helped by the code (the ITN does not match) and is not
covered. `FirstSentInOrder` is about rows that have not failed: after a failed
publish the next row of the aggregate overtakes it, by design. It orders two rows if one was
created before the other, in another millisecond, and was there when the other was committed; the code
promises nothing about others.
`AnsweredIsRemembered` is about requests that do not overlap and holds until an entry
of the key expires. `RepliesStand` contains `ReplayIsEarned`.
`QuietRunMeansBooked` is one-sided: a refund that is in flight when the run looks for it is
reported although nothing is wrong. `SoundBooksPass` and
`DriftIsMovement` say that Invariants A and C raise no false alarm and B only
the one that its two reads explain. `PaidOnce` is
without faults; with them, `SendsPaidByAttempts` is what remains true.
`RefusalHasCause` does not say that
no money is lost by a refusal, which is not so: it says that the hold is then one on which the booking could not have been made.
`PaidIsSucceeded` is without faults and admins, as `PaidOnce`. `HandledTakesEffect` says nothing of messages whose handler threw or died, and a dispute that
comes after the release counts as overtaken, as the handler's comment has it.

Four properties are not run for themselves and are theorems only, since a property that is run
contains them: `SendsBounded` is a conjunct of `RefundsInv` and `PublishedIsSent` one of
`OutboxInv`; `DuplicatesHaveCauses` is the guard of `Arrive` in OrderedDelivery;
`SucceededIsSent` follows from `PayoutsInv`.
`ImplementsCollectedFunds` is run where two invocations race; with two payments
of one booking it would take TLC too long, and the theorem covers any number of them.

Each property of a passing run has mutants in its module (commented as such):
definitions changed the way a bug would, under which TLC finds the property
violated in that run.

## Proofs

All theorems are about any values of the constants that satisfy the named
assumptions of the modules; these say what the schema says (amounts and fees in `Nat`,
requests any integers, finite sets of runners, instances, calls and bookings, quotes anchored on the base at `Scale`).

**Escrow** (`EscrowProofs`). `FundsAlwaysAccounted`: `IInv`, that is `TypeOK` and, for each
booking, `FundsAccounted`: what each account holds, by the state of the hold.
The properties are not inductive by themselves. `LiabilityBacksHolds` needs to know that
a HELD hold has no partial refunds, since `Refund` books `hold.amountCents` and not
what is left; `FeeReturnedOnlyWithWhole` needs that a hold that is not settled
has its fee intact and nothing owed to the artist; `PayoutBacked` needs that no
payout row exists before the settlement. From it follow `TypeCorrect`,
`LiabilityCorrect`, `FeeCorrect`, `PayoutCorrect`, `NothingToClawBack`, the
action property `SettlementIsFinal`, and `Implementation`:
`Spec => ImplementsHeldFunds`. Opening, partial refund and
freeze map to `Pay`, `GiveBack` and `Dispute`, the five others to `Settle`, and
no step to a stutter by accident; the case split uses `IInv` before the step.
The argument is layered: `TransitionTable` and the entry builders account by
account; what posting, moving a hold, recording and queueing do to a booking;
one lemma per operation, the settling ones through `SettleInv`; `Frame` for the
other bookings. `OutcomesAnnounced` is about counts of outbox rows, which
work because a hold that is open has announced no outcome and has no payout.

**Life of a hold** (`EscrowProofs`). For components that act on a hold they have read before:
whatever operations come in between, `Evolves` relates the row then to the row now.
This is what a stale read can be trusted with.

**Callers** (`EscrowProofs`). All of this is proved for `OperationsSpec`: the operations, with any
amounts and by whomever, and announcements of checkout in the same outbox; `Spec` is a
special case. `EscrowPromises` is the whole of it: `IInv` and what follows from it, outcomes,
trail, `SettledForever`, and HeldFunds for payments of any amounts (`AnyFunds`). The theorems `PromisesInRefunds`,
`PromisesInConsumers`, `PromisesInCheckout`, `PromisesInRequests`, `PromisesInListing` and `PromisesInReconciliation`
show that each component that extends Escrow changes its tables by operations only, and so keeps these
promises: under races, dead calls, redeliveries and replays. They need the components' own invariants, which say
that a refund of a call in flight is of a booking, that an ITN carries the fee
it was matched with, and that a body is one the DTOs let pass.

**Sums** (`EscrowProofs`). `TrailCorrect` (what is on the trail of a hold explains what its
ledger gave back) and `BookingsFit` add up amounts over the events of a trail and over the
calls on a hold. The provers cannot instantiate an induction theorem, so what a sum is worth
is proved without one: if some finite set were a counterexample, `WFMin` gives one of least
cardinality (`NatLessThanWellFounded`), and taking an element out of it gives a smaller one. From
this come three facts that are used everywhere else: a sum over nothing is 0, it
is taken element by element, and it does not see a change outside of its set.

**Refunds** (`RefundsProofs`). `RefundsAccounted` is about `RefundsInv`: the point of a
call fixes its row, its booking, its announcement and how often the money was sent.
`BookedAmountSent` needs its part `WholeOrMovedOn`: a call that read "this is
everything" and comes back from PayFast finds the hold HELD with just that amount, or not
HELD, and then `Refund` is refused. So the amount that `Refund` takes from the hold is
that of the call. `RefundEventsTrue` and `SendsLimited` follow from the same invariant.
`BookingsFit` needs more than the calls one by one, since two may be on one hold: the part
`BookedToClient` says that what the calls have booked on a hold is at most what its ledger gave
back to the client, which other routes only raise; `IInv` bounds that
together with the artist's share by the hold. It assumes finitely many calls.

`RefundsImplement` shows `RefundsSpec => ImplementsRefundedFunds`, and `ConsumersImplement` the same
of the calls that the subscribers make. The invariant needed one more part,
`AskedWithinHold`: RefundedFunds bounds what is asked by what was paid, when the row is
inserted, while the code checks it on an earlier read; that the hold's amount never changes
(`Evolves`) closes the gap. An insert maps to `Ask`, an answer of PayFast to `Send` or to
nothing, `Flip` to `Book`, the last transaction to `Confirm` or `GiveUp`; a call that is refused
or lost stutters. A full refund of a hold is a `Settle` and a partial one a `GiveBack` of HeldFunds, and in
both the client's share grows by exactly what the row says, by `WholeOrMovedOn`.

`RefusalsHaveCause`: a refusal comes from the state machine or the cap, on the hold as it is
then. That the cause is still there later is `Evolves` again: a hold that is frozen or settled does
not go back to HELD, and what was refunded in part only grows. A hold that is HELD refuses no call, since a call
asks for at most what is left of it and nobody has taken anything from it (`AskedWithinHold`).

**Consumers** (`RefundsProofs`). `MessagesAccounted`, on top of the invariant of the refund
calls: `HandledTakesEffect` is inductive only with what the handler knew on its way. It has seen a hold,
a refund call it waits for is of its booking, and a call that was booked has moved
the hold out of HELD (`BookedLeavesHeld`), to where, by `Evolves`, it does not return. A handler
that takes an illegal transition for done is right for the same reason: what
made it illegal is final, or is the dispute. `HandledHasEffect`.

**Reconciliation** (`ReconciliationProofs`). `BooksAndRunKept`, again on top of the refund calls:
each event of the journal balances, each recorded payment has a hold, and what
a run has ticked off stays true while it goes on (`ItemBooked`): the CHARGE row of a booking stays
that of its payment, and a SUCCEEDED refund row, with what was sent for it, stays as it is. `QuietRunCorrect` then also
needs that a history with any sending of a call contains the first one: two sendings cannot both be the
row's, so a call that was paid twice is found. `DriftExplained`: the liability account as a
sum over the bookings equals what is left on the open holds, by `FundsAccounted` booking
by booking. `NoFalseImbalance`: Invariant A by the journal; Invariant C because no
booking's revenue is negative. It assumes finitely many bookings.

**Outbox** (`OutboxProofs`). `OutboxKept`. `DuplicatesBounded` is a counting argument: every
sending of a row is charged to an attempt, to a death, or to an instance in `Senders`, those
that have sent it and not yet settled it. An instance leaves the set as it counts an attempt or dies, and once
the row is published nobody takes it again. `AttemptsBounded` counts in the same way the
instances that have yet to fail on a row: together they may pass the cap by one
less than their number. `SentInOrder` needs `BatchesInOrder`: nobody has a row in its batch without the
earlier rows that were there before it (`HistoryKept`: those stay, and are older), unless these were sent or have failed. Batches
are any set of oldest rows that fills them: only that an older pending row comes with a younger one is used
(`BatchesAreOldest`). `PublishedWereSent`.
`OutboxImplements` puts these together step by step: a publish that goes out is an `Arrive` by `BatchesInOrder`
and the count of `DuplicatesBounded` after the step, the mark is a `Settle`, a counted failure a `Fail` within
the bound of `AttemptsBounded`, a death an `Interrupt`; what an instance reads or skips, and the publish of a row without a topic, is a stutter.

**Checkout** (`IntentsProofs`). `ChargesAlwaysAccounted` is about `IntentsInv`. Its core:
as long as there is no hold there is no completed charge, and afterwards exactly
one, whose form was paid with the hold and its fee. This is kept by the unique key of
the hold and by `Evolves` (amount and fee are fixed). `HoldsAreBacked` and
`ItnsRecordedOnce` follow; the latter also from one row per payment and status, which the
unique key gives to racing invocations.
`CheckoutImplements` shows `IntentsSpec => ImplementsCollectedFunds`: a form is an offer, PayFast's payment
a `Collect`, the ITN that commits COMPLETE an `Open`, and everything that happens to the hold afterwards a `Later`,
by the refinement of HeldFunds. `IntentsInv` has for it the part `QuotesKept`: totals and fees,
wherever a lock, an intent or an ITN carries them, were quoted at some rate.

**Payouts** (`PayoutsProofs`). `SendsAreCounted` is a counting argument: `SendsLeft` is the set
of sendings that the claims in progress may still cause, a claim adds at most `SendLimit`
to it, a sending takes one away, and only a counted requeue allows another claim. In
`PayoutsInv` it is sent + left <= claims x limit. `ArtistPaidOnce` is under `AllGoesWell`
(no admins, no deaths, no hidden payments): then a row that is claimed belongs to
one runner, whatever the others have read (`OwnedByOne`). `PaidStaysSucceeded` follows from the same, by the guard of
`persistFailure`. `SuccessWasSent`.

**Requests** (`HoldRequestsProofs`). `RepliesAccounted`: every entry comes from a
request that was answered with it (`Kept`), every response was true of its hold and,
by `Evolves`, cannot be undone. `RepliesAlwaysStand` and the action property `WorkDoneOnce`.

**Lists** (`HoldRequestsProofs`). `ListingComplete`: the cursor's order (time, then id, both
descending) is total, so what comes before the cursor was given and what is owed comes after
it (`WalkKept`). A filter by state needs more: an owed hold that left the state has not come back
to it (`LaterStates`, by `Evolves`), or it might have been missed on a page it had already been
past. It assumes finitely many bookings, so that a page has a last row.

**Exchange rates** (`FxProofs`). `QuotesAccounted`: a row is written or still before its
refresh, what is known was written, and a lock under which nothing moved sees every
row of its pair. `QuotesAlwaysAdvance`, `FeeFollowsTotal` and, for all amounts, rates and
scales, `CentsAreNearest`. `RatesAssumption` excludes quotes so far apart that the
column would round a rate to 0, which the model could not tell from no row.

Only model-checked: liveness (`QueuedIsTried`, `CollectedIsHeld`, `RowsLeave`), which needs fairness.
Every invariant and action property of a passing run is
stated by a theorem. The inductive invariants that no run lists (`RequestsInv`, `FxInv`,
`ReconciliationInv`, `ListingInv`) were checked by TLC in their runs' instances too before they were
proved; only their consequences are listed there, which say more to a reader.

## Disagreements between comments and code

Checked as a violation, with the shortest trace:

- `RefundToClientBooked`: a dispute resolved for the client goes through
  `issueRefund` (`dispute-events.handler.ts:21`), which books REFUND; that is not
  legal on a DISPUTED hold, PayFast has paid by then, and the error is taken for
  "already resolved".

Met while modelling, present in the model and not the subject of a run:

- `refunds.service.ts:83` enforces the cap on a read that reserves nothing (line
  228); two concurrent calls for the whole hold are both paid by PayFast, one is
  booked. Reconciliation reports the other (`QuietRunMeansBooked`).
- The admin's retry and cancel check a row they read earlier and write without a
  guard (`payouts.service.ts:95` says they throw on SUCCEEDED), so a payout that a
  runner has paid in between becomes CANCELLED, or QUEUED and is paid again.
- A full refund of a PARTIALLY_REFUNDED hold passes `issueRefund`'s checks and is
  refused after PayFast has paid (`refunds.service.ts:477`).
- The comment at `refunds.service.ts:473` expects the nested transaction to be
  atomic with the outer one; they are two, and a call lost in between leaves the refund
  booked and its row PROCESSING.
- FREEZE cancels QUEUED payouts (`escrow.service.ts:358`), but no hold that can be
  frozen has one: this is the theorem `NothingToClawBack`. A dispute in the window
  after a release cancels nothing.
- The dispatcher's comments speak of `FOR UPDATE SKIP LOCKED`
  (`payout-dispatcher.job.ts:32`); the query has no lock. `PaidOnce` holds all the
  same, by the guarded claim.
- `persistFailure` writes `escrow.payout.failed` also when its guarded update found
  the row in another state.
- A message whose handler threw is a duplicate at its redelivery and is acknowledged: the event
  is lost and never reaches the dead-letter topic (`pubsub.subscriber.ts:37`).
- A resolution delivered before its dispute is acknowledged without effect.
- `lock` may turn a paid intent into LOCKED again. Its comment
  (`payment-intents.service.ts:171`) says the fee is converted separately so that it is
  consistent with the total's rate; the two lookups are independent, so it is unless
  that pair's rate is written in between: `FeeAtRateOfTotal` says exactly this.
- The charge a refund refers to is the latest, which is a failed one when a
  PENDING ITN arrives after COMPLETE (`refunds.service.ts:335`).
- After `MAX_ATTEMPTS` failures an outbox row is never sent, so delivery is not at least
  once (`outbox.dispatcher.ts:12`).
- Two requests with one key that overlap both do the work (`idempotency.service.ts:37`).
- An event whose type has no topic, or any while the bus is disabled, is marked as published and
  never sent (`pubsub.publisher.ts:39-51`).
- Events of one aggregate that are created in the same millisecond, or committed against their
  `created_at`, may be sent in another order (`outbox.dispatcher.ts:32` has no second key).
- The comment on the FX cron says 02:00 SAST, its expression is 00:00 in
  Africa/Johannesburg (`fx.service.ts:47`). `GET /v1/rates` shows provider rows
  although an override of the pair decides every conversion (`fx.service.ts:199`).
- A reconciliation run that fails files its error under Invariant A and keeps
  `alert_sent` false (`reconciliation.service.ts:197`); one whose process dies
  stays RUNNING. Its `as_of_date` column is a DATE that is given 22:00 UTC of the
  day before (`startOfSastDay`), so the stored label is a day early.
- A refund that was sent and whose call died stays PROCESSING; apart from the
  cross-check, which needs an adapter the repository does not have yet, nothing lists it.

## Assumptions of the model

- FAILED stands for CANCELLED ITNs as well; the webhook treats them alike.
- A row the retry cron selects is not being walked by a runner: the shortest backoff
  is an hour, a dispatch takes seconds.
- Whether a refund is in progress on the hold of a payout is a flag of the
  payout, cleared once; Payouts does not extend Refunds.
- Accounts, encrypted numbers, references, most timestamps, reasons and actors are
  left out; so is the wording of events. `payments.*` and `escrow.*` outbox types are kept.
- Everything in Reconciliation happens on the day the run is for; the cron's run
  comes after that day, when fewer of these interleavings are possible.
- PayFast's history is the one the adapter's interface describes; the adapter of the
  repository returns none.
- An ITN that fails the IP, signature or validate gates changes nothing
  and is left out; so is `dev-complete`, a development route.

## Not modelled

- The cross-check of payouts: the loop over refunds again, over another table. It
  would need the money sent to artists in the same model as the books.
- `listLatestRates`, `listOverrides`, `getById` and the other lists: reads, of one query each
  or one per currency, on which nothing depends.
- The session-revocation handler (one Redis key), admin read models and the audit log,
  HTTP guards, the other controllers, problem filter, configuration, health:
  no money, wiring or formatting.
- Signatures and encryption: cryptography on strings.

## Plan

1. Done: the modules above with their runs, and the proofs of their safety properties.
2. Payouts over the escrow component, so that the refund guard of the dispatcher and the
   money sent to client and artist are related, and with it the cross-check of payouts
   in Reconciliation. It has to start from what can go wrong: a refund whose call was
   paid and whose booking was refused leaves the payout free to go out.
3. Proofs: for what item 2 adds, on top of `EscrowPromises` and `RefundsImplement`.
