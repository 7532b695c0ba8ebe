# Formal models of the payment microservice

TLA+ specifications of the service in `src/`, configurations that model-check
them with TLC, and theorems about them that TLAPS checks. Every definition is
translated from the TypeScript source; `PROJECT.json` maps it to the lines it
stands for. Paths below without a directory are under `src/src/modules/`.

## 1. The system

A NestJS service (two API replicas and two worker replicas in
`docker-compose.prod.yml`) over Postgres (Prisma, READ COMMITTED), Redis and
BullMQ queues, and over the providers Stripe, Razorpay and cash. The replicas
share nothing but the database, Redis and the queues, so every `await` is a
point where another replica may act, and the only atomic units are one SQL
statement, one database transaction and one Redis command.

| Component | State it keeps | Operations that change it | What makes it correct | Module |
|---|---|---|---|---|
| Orchestrator (`payment/orchestrator`) | none of its own | `initiatePayment`, `verifyPayment` | one attempt per transaction wins; only money confirmed by the provider is booked; what was paid is settled | Payment |
| Transactions (`payment/transaction`) | `Transaction` rows | `create`, `updateStatus` | one row per idempotency key | Payment |
| Attempts (`payment/attempt`) | `PaymentAttempt` rows, a partial unique index | `create`, `markSuccess`, `markFailed`, `markExpired`, `expireStalePendingAttempts` | at most one SUCCESS; a CANCELLED attempt has a settled sibling | Payment, Reconciliation |
| Ledger (`payment/ledger`) | `LedgerEntry` pairs | `recordPayment`, `recordRefund` | agrees with the attempts, the refunds and the providers | Payment, Refund |
| Idempotency cache | Redis keys with a TTL | `get`, `store` | what it returns is backed by rows | Payment |
| Jobs (`events/`) | BullMQ queues | verify, expire, renew | a repeated job does no harm | Payment, Renewal |
| Refunds (`payment/refund`) | `Refund` rows, `Transaction.status` | `createRefund` | a refund shown is paid and booked, a key moves money once, and refunds fit the transaction | Refund |
| Webhooks (`payment/webhook`) | `WebhookLog` rows | both providers' handlers | what is acknowledged was handled; every event is handled in the end | Webhook, Sync |
| Reconciliation (`payment/reconciliation`) | a Redis lock | `reconcileStaleTransactions` | one run at a time but for what a lock that expires lets in, nothing booked twice, nothing left open | Reconciliation |
| Invoices (`billing/`) | `Invoice` rows | `createInvoice`, `issueInvoice`, `voidInvoice` | numbers without gaps or repetitions, VOID is final, the tax is right | Billing, Gst |
| Renewal (`subscription/`) | `Subscription`, `SubscriptionCycle` rows | `processRenewal`, `cancelSubscription`, `updateSubscriptionPlan` | no period is free, a period has one cycle but for overlapping jobs, the price is that of the plan, what is due is renewed | Renewal |
| IAM settings (`iam/`) | a cache in each process | `getGstConfig` | a renewal is taxed by recent settings, and a failure of the IAM service does not live on | Settings |
| Provider-managed subscriptions | `Subscription` rows with a provider id | `syncExternalSubscription`, `cancelSubscription` | the row mirrors the provider | Sync |
| Plans | `Plan.isActive` | `deactivate` | | Sync |
| Saved methods (`payment/payment-method`) | `CustomerBillingProfile` row, Stripe's customers | list, `createSetupIntent`, `completeSetupIntent`, `setDefaultPaymentMethod` | a customer is charged with its own card; row and Stripe agree | Method |
| Backfill script, interceptor, admin, audit, auth, config, health | see `PROJECT.json` | | | not modelled |

How they interact. A caller's request runs `initiatePayment`, which opens an
order at each chosen provider and an attempt for each order. The customer pays
at the provider. Then any of four actors runs `verifyPayment` on an attempt: the
caller, a webhook handler, a queue worker, the reconciliation. It asks the
provider and, if the provider confirms, settles attempt, siblings, transaction
and ledger in one database transaction. Failure events, expiry jobs and the
reconciliation's last step write attempts without asking anybody. Refunds hang
on a settled transaction. Subscriptions have two sources: `processRenewal` bills
those of the service through invoices, taxed by what the IAM service says;
webhooks and `verifyPayment` mirror those that a provider manages. The query for
due subscriptions does not tell the two apart.

What is hard here: reads before an `await` used after it (nearly every service
reads, tests and later updates by id); a provider call and a database write that
no transaction covers; at-least-once delivery of webhooks and jobs; providers'
events out of order; a lock with a time to live; a crash between any two steps.
The repository has one test file, for currency helpers; nothing tests any of
this. `PROJECT.json` lists the hazards, each at its line.

## 2. The modules

| Module | Models | State | Composition |
|---|---|---|---|
| `Settlement` | abstract: collecting a payment is one step | `paid`, `settled`, `books` | implemented by Payment and by Webhook |
| `Payment` | `initiatePayment` and `verifyPayment`, each await and each SQL statement a step; row locks (`rowLock`), the unique index (`slot`), the cache, crashes, deadlock and timeout rollbacks | transaction, attempts, ledger, requests, verifications | `Abstract == INSTANCE Settlement`, property `Settles` |
| `Refund` | `createRefund` with its catch block, the providers' three answers and lost answers | refund rows, ledger, payouts | |
| `Webhook` | deliveries, `WebhookLog`, dispatch, `verifyPayment` as a handler calls it | events, log, attempts, ledger | `INSTANCE Settlement`, property `Settles` |
| `Sync` | `syncExternalSubscription` from events and verifications, `cancelSubscription`, plan deactivation; the tenant an event names | provider's history, rows, events | |
| `Renewal` | `processRenewal` step by step, its catch block, BullMQ's retries, cancellations, changes of plan, the events of a provider that bills the subscription as well, a clock in billing periods | subscription, cycles, invoices, queue | `SyncPeriod` is Sync's handling of an event in one step |
| `Billing` | `generateInvoiceNumber` (count, then insert), issue and void | invoices, calendar | |
| `Gst` | `calculateTax`, `calculateItem` and the invoice's sums, in whole units and with half-up rounding | items, subtotal, tax | amounts of Billing's invoices |
| `Settings` | `getGstConfig`: cache, request, timeout, defaults for a failure; the renewal that asks and bills | IAM service, cache entry, renewals, age of every answer | extends Gst: its items are what `Bill` makes |
| `Reconciliation` | the Redis lock with its TTL, the batch, the loop, expiry at the end | lock, runs, attempts, ledger | |
| `Method` | the four operations as sequences of Stripe and database calls | profile row, Stripe's customers, defaults, subscriptions' card | |

`MCX` instantiates `X` for TLC (symmetry sets); `XProofs` holds its theorems,
`InvoiceProofs` those of Billing, Gst and Settings. A definition named `Operation_Something` is a mutant, the operation with one
plausible bug; no specification uses it.

Correspondence. `pc`, `rpc`, `vpc` (`stage` in Settings) say where in a handler's code an actor is;
labels are named for the call it makes next. One action is one `await` with the
assignments around it, and its guard is the code's condition or early return. A
database transaction is several actions where its statements can be seen or can
block (Payment), and one action where it reads nothing (Refund's `Commit`) or
where Payment has shown what it does (`Settle` in Webhook and Reconciliation).
Rows are functions or sequences of records with the columns that some condition
reads. Names follow the source.

### In turn

Several promises of the code hold for calls one after the other and fail when
calls overlap. They are not assumed away: the runs let calls overlap, a history
variable records it (`overlapped` in Refund, Webhook, Method and Renewal,
`disturbed` in Sync, `crossed` and `outlived` in Reconciliation), and the property
is claimed of the behaviours in which it has not happened (`...InTurn`), or of the
rows that it has not touched, or, for `outlived`, within the bound that it sets.
These behaviours still hold crashes, lost answers and repetitions at every step.
What happens outside of them is listed in section 5.

## 3. The runs

TLC, two workers. States are distinct states. No run takes more than three
minutes.

| Run | Instance | States | Shows |
|---|---|---|---|
| `payment_race` | 1 request, Stripe + Razorpay + cash, 2 verifications, 1 expiry job | 272 k | with the unique index one attempt wins, ledger and attempts agree, every step is a step of Settlement |
| `payment_retry` | 2 requests with one key, 1 verification, fairness | 17 k | results are backed by rows also after a crash or an eviction; what is paid is settled, unless a failure notice got there first |
| `refund` | 3 calls, 2 keys, amounts up to the total, Stripe or Razorpay | 3.1 M | SUCCESS means paid and booked; the status never says more than the ledger; in turn, a key has one row and moves money once, and what is paid or booked fits but for refunds that ended unshown |
| `refund_exceeds` | 2 calls, 2 keys, cash | violation | two overlapping calls refund more than the transaction |
| `webhook` | 2 handlers, 2 attempts, 1 stranger, captures that name their transaction or not | 5.2 M | acknowledged means handled; steps of Settlement; in turn, booked once |
| `webhook_live` | 1 handler, 2 attempts, fairness | 55 k | every event is processed in the end |
| `sync` | 2 handlers, 2 changes among 3 statuses, 3 rows, 1 cancellation, 1 loss, with and without the tenant's name, the plan, a period's bounds | 4.1 M | a row is a state the provider has told; an event that is acknowledged and can be written has been; undisturbed, one row of a tenant, and the one the events are for ends as the provider's |
| `renewal` | 2 workers, 2 plans, provider-managed or not, clock to 2, 2 upsets (cancellation, end at the provider, change of plan, failure, restart, late or repeated event, a job beside another), fairness | 2.4 M | no free period, PAID means invoiced, at most as many live cycles of a period as workers, a cycle says its invoice's plan; unless jobs overlapped, what is due is renewed or expires |
| `billing` | 4 invoices, 2 months, 2 clerks | 3.9 M | numbers follow time, the next number is free, no gap within a month, whatever is issued or voided; VOID is final where no two calls cross |
| `tax` | 2 renewals of a process, time to live 2, timeout 1, 2 settings and a service that may fail, and 2 items of other callers, fairness | 1.2 M | settings are recent and settle on the service's; nearest unit, fair split, bounded drift |
| `reconciliation` | 3 replicas, 2 transactions, batch of 2, 2 crashes, a lock that once expires during a run, fairness | 194 k | an expiry during a run lets in one run more, and nothing else does; booked once where no two verifications cross, nothing left open |
| `method` | 2 calls, 2 SetupIntents, 3 Stripe customers, 2 crashes | 1.05 M | nobody is charged with another's card; in turn, row, Stripe and subscriptions agree; listing repairs |

### Bounds, and why they are enough

* Two concurrent actors: every race listed is between two actors that read, then
  write. A third is there where a third plays another part (refund's third call
  repeats a key while two race; Payment adds failure events and an expiry job).
* Payment: three providers give one attempt with a shared order, one with an
  order of its own and one that confirms offline, the three cases that the code
  tells apart; two verifications meet on one attempt or on siblings.
  The expiry job is written though nothing in the repository produces one: the
  worker and its handler exist.
* Refund: with two keys every pair of calls shares a key or does not; amounts up
  to the total give sums below, at and above it. Calls with one key may ask for
  different amounts. Cash, which refuses nothing, is in `refund_exceeds`.
* Sync: two changes are two states of the provider, enough for one to be
  overtaken and for a repetition of the older. `past_due` and `trialing` are left
  out of `Reported`: the code treats them as it treats `active`, under other names.
  Three rows are enough for twins of one tenant beside a row of the other; no handler
  waits for `MaxRows`.
* Renewal: three periods let a job of one period run in the next two; two
  upsets hit a job and its retry, or a change of plan and the renewal that meets
  it. A job that begins beside another one costs an upset, so two workers are at
  work at once at most twice, and once with another mishap; the theorems need no
  such bound. `MaxInvoices` is above what these can create: no worker waits for it.
* Billing: four creations around one end of a month can leave two or more
  invoices on either side and be in progress across it.
* Tax: 10 at 5 % is an exact half, and the other amounts and rates leave
  remainders on either side of one; the theorems cover the rest. Times are in units of the request's timeout; what matters is that a
  request can outlast an entry's last moment and a second request overtake it.
* Reconciliation: three replicas are one more than an expired lock lets in at
  once; two transactions may both be in one run's batch, or one become stale
  after it; two crashes can hit consecutive runs. The batch is not exceeded in this
  run (three transactions are more than it can finish in time); one that an older
  transaction keeps out of it would be expired unasked like one that becomes stale
  after it, and the theorems hold for any batch.
* Method: three Stripe customers are one of an earlier payment and two that
  racing setups create.

The theorems of section 4 need none of these bounds. Each module has a type
invariant, `TypeOK`. Theorems prove it for all modules, and no run
repeats it. `PostedOnlyIfConfirmed` and
`SettlementIsGuarded` are left to their theorems too, as `Settles` and
`OneSuccess` say of TLC's instance what follows from them.

### Deadlock

Checked where the system can always go on (`webhook_live`, `reconciliation`,
`method`). In the others calls are finite, or the clock stops at its bound, and a
state in which all have returned has no successor; their `.cfg` says so.

### Fairness, and what justifies it

* Payment: verifications of an order are asked for again and again (callers
  poll, providers redeliver, BullMQ retries): strong fairness of starting one,
  and of its steps, so that a crash or a deadlock does not hit every time; a
  timeout ends a transaction or call that waits: weak fairness of the exits. No
  fairness of payments, failures or expiry.
* Webhook: the provider repeats an unacknowledged delivery (strong fairness); a
  handler goes on (weak); handlers do not crash for ever.
* Renewal: what `findDueForRenewal` returns is enqueued at some time, by a
  scheduler outside the repository; a worker goes on with its job; of a
  provider's periods the last one is told of at least once (providers repeat
  what is not acknowledged). What can go wrong is bounded by `MaxUpsets`. That a
  renewal has been overlapped is excluded by `DueIsRenewedInTurn`, not by fairness.
* Settings: time passes, and a renewal goes on with its work, which its timeout
  ensures. The IAM service owes nothing.
* Reconciliation: time passes, the key expires, a run that started goes on
  (weak), and the service is called again and again (strong: it may find the
  lock taken each time it looks). No module of the repository wires
  `reconcileStaleTransactions` to a cron; its comment says that a cron is meant.
  Nothing
  bounds a run by its lock's 300 s: the key may expire at any step of a run,
  `MaxOutlived` times.

## 4. The theorems

TLAPS proves them for every value of the constants that satisfies the module's
`ASSUME`. Each follows from an inductive invariant; the invariants are needed
because the properties speak of rows and the steps that write rows rely on what
an actor has read before.

* `PaymentProofs`. `BaseInv` (types, and `LockInv`: a verification inside its
  transaction holds the rows it will write), `IndexInv` (with `UniqueIndex`: the
  uncommitted index entry `slot` belongs to a verification that is past
  `markSuccess`, and no attempt is SUCCESS meanwhile), `LedgerInv` (a
  verification past the provider's answer has a confirmed attempt; what is
  SUCCESS is booked; what is CANCELLED has a booked sibling).
  Results: `TypeCorrect`, `AtMostOneSuccess`, `GuardedSettlement`,
  `NoUnconfirmedBooking`, `NoUnbookedSuccess`, `NoCancelWithoutSettlement`,
  `NoUnbackedResult`, and the refinement
  `PaymentImplementsSettlement`: `Commit` maps to `Settle`, a payment to `Pay`, a
  late overwrite to `Withdraw`, everything else to a stutter. The three results
  on sibling attempts assume the index, the others do not.
* `RefundProofs`. `FreshInv`, `AnswerInv` (a call with the answer SUCCESS has
  had money paid out under its key), and `SerialInv` for the behaviours
  without overlap. A sum of amounts is modelled as the number of units that a
  set of calls refunds, so that lemmas about it (`SumGrows`, `SumOfOneMore`) need
  no induction. `BookedInv`: the sum that a call has read was booked when it read
  and the ledger only grows, so a call that commits a stale sum commits a low one.
  `FitInv`, without overlap: what a call past `CheckAmount` adds still fits; and
  (`ShownFits`) money paid or booked is of a SUCCESS row, of the one call under
  way, or `Unshown`.
  Results: `NoHollowRefund`, `NoDoublePayout` (in turn, at any provider: it rests
  on the row that a call leaves before it asks), `OneRowWhenSerial`,
  `StatusMatchesLedger`, `RefundsFitWhenSerial`, for all amounts.
* `InvoiceProofs`, Billing. `SeenInv`: what a creation has counted was there when
  it counted and stays. Two creations with one count would have the same number or
  straddle a month. `CheckInv`: on an invoice that no two clerks have been at
  work on at once, what an issuing clerk has checked still holds when he writes.
  Results: `NumbersInOrder`, `NumberingNeverJams`, `SequentialWithinAMonth`,
  `VoidIsFinalInSequence`.
* `InvoiceProofs`, Settings and Gst. `AgeInv`: whatever a renewal or the cache
  holds was the service's answer no longer ago than its request has lasted, or its
  entry lived. `InvoiceInv` bounds the distance of the sums (`Near`) item by item.
  Results: `SettingsAreRecent`, for any renewals, times to live and timeouts;
  `TaxesAreNearest`, `SplitsAreFair`, `DriftBounded`, for all amounts, rates and
  lengths.
* `RenewalProofs`. `Billed`: all time before the period that a worker has read
  is invoiced or told of, and stays so, because invoices are only added and
  issued; `WorkerInv`: a worker past `issueInvoice` has an issued invoice for that
  period; `CycleInv` ties a cycle to its invoice; `PriceInv`: while no plan has
  been changed under way, the cycle, the worker's copy and the invoice of a
  renewal have one plan. Results: `NothingIsGivenAway`, `PaidCyclesAreInvoiced`,
  `CyclesSayThePrice`, for any number of workers, repeated and overlapping jobs,
  failures, cancellations and events; and `CyclesBounded`, by `RoomInv`: the cycles
  of a period that have not failed, or that a worker still holds, can be assigned to
  different workers so that every worker who has found none, and is about to create
  one, still has a place.
* `WebhookProofs`. `JobInv` (what a handler at a step has already done), `RowInv`
  (what an attempt's status says of the books), `TurnInv` (before any overlap, an
  attempt that is being verified is not booked yet). Results:
  `NothingIsAcknowledgedEarly`, `BookedOnceInSequence`, and the refinement
  `WebhookImplementsSettlement`.
* `ReconciliationProofs`. `LockInv`: there are no more runs in progress than the
  lock and its expiries during runs account for, since every DEL comes with the
  end of a run. `TargetInv` and `BookedInv`: an attempt that is being verified and
  is not `crossed` is not booked yet, thanks to the early return and not to the
  lock. Results: `RunsBounded`, `OneRunAtATime` (while no lock has expired during a
  run), `NothingIsBookedTwice`.
* `MethodProofs`. `CallInv`: a call that sets a default does it to the Stripe
  customer who owns the card. `TurnInv`, for calls in turn: the row, the customer
  and its subscriptions agree but while a call goes through its last writes.
  Results: `MethodTypeCorrect`, `DefaultsAreOwned`, `CardsAgreeInSequence`,
  and by `RepairInv` (without overlap, what a listing has read is what is there)
  `ListingAlwaysRepairs`.
* `SyncProofs`. `JobInv`: what a handler works on is an event that exists, of a
  supported status once it is past `Accept`, and the row it will update is one of
  its tenant. `StoredInv`: what is answered is marked, and what is marked and
  can be written has been written by a delivery of its own. `Lasts`, which every
  step satisfies, says what never goes: the history, the marks, the rows and their
  tenants. Results:
  `SyncTypeCorrect`, `RowsTold`, `AcknowledgedStored`.
  For deliveries that neither overlap nor overtake: `OneInv` (one handler is at
  work, and where it will create, its tenant has no row) gives
  `OneRowWhenSerial`. `OrderInv` adds that marks have no holes, that a handler
  comes after all events before its own and writes only an event that is not
  marked, that a verification has a state no older than any mark, and that the row
  shows, for every mark, that event or a later one. It gives
  `MirrorsWhenSerial`, which assumes `Deduped` (a repeated event has its old id)
  since `sync_replay.cfg` refutes it for Razorpay's ids.

Every safety invariant and action property of a passing run is stated by one of
these theorems. Only model-checked: liveness (`PaidIsSettled`, `EventIsProcessed`,
`DueIsRenewedInTurn`, `RateConverges`, `NoneStaysPending`), since TLAPS does not prove
fairness arguments that rest on ENABLED.

## 5. Known deviations

What the code or its documentation says and the models refute. The first is a
finding with a run of its own; for each of the others the table names a
configuration, or the run whose constants to change and the property to check.

| Statement | What happens | Reproduce |
|---|---|---|
| "Total refunded amount cannot exceed original transaction amount" (`payment/refund/refund.service.ts:8`) | the sum (line 75) counts SUCCESS only and is read without a lock; two calls both pass | run `refund_exceeds` |
| the same, in turn | a PENDING answer is paid and booked and leaves the row PROCESSING, and a payout whose record is rolled back leaves it FAILED or PROCESSING; the next call does not count either, and together they exceed the total | `refund` with `RefundsFitInTurn` without `\ Unshown` |
| "DB-level partial unique index ensures only one SUCCESS" (`src/prisma/schema.prisma:132`) | only `src/prisma/seed.ts:20-24` creates the index, the deployment does not run it | `payment_no_index.cfg`, `OneSuccess` |
| "Idempotency: already processed" (orchestrator `:268`), "exactly two entries" (`schema.prisma:164`) | two verifications of one attempt pass the early return; `markSuccess` accepts SUCCESS and `recordPayment` runs twice | `payment_booked_twice.cfg`, `BookedOnce` |
| "Concurrent attempt updates use SELECT … FOR UPDATE" (`payment-attempt.service.ts:10`) | `markFailed` and `markExpired` do not: a late failure overwrites SUCCESS | `payment_attempt_final.cfg` |
| "PENDING → PROCESSING → SUCCESS/FAILED" (`transaction.service.ts:6`) | a slow `initiatePayment` sets SUCCESS back to PROCESSING | `payment_retry` with `TransactionSuccessIsFinal` |
| "same idempotencyKey returns existing refund" (`refund.service.ts:11`) | two calls at once both find none | `refund_duplicate.cfg` |
| "so it can be retried" (`refund.service.ts:170`) | the retry is handed the FAILED row | `refund` with `FailedIsRetried` |
| "duplicates skipped" (`webhook.service.ts:9`) | two deliveries in progress are both processed and book twice | `webhook_twice.cfg` |
| "we never lose events" (`webhook.service.ts:11`) | after a failure event the capture is acknowledged and not booked | `webhook_lost.cfg` |
| the same | a `payment_intent.succeeded` whose metadata lacks `transactionId` is acknowledged and not booked (`:179`). The service writes it into every PaymentIntent (`stripe.provider.ts:73`), and a caller's metadata may overwrite it | `tagged` in Webhook, `Ignored` |
| the same, for subscriptions | an event without plan, customer or period bounds is acknowledged and not stored (`:239`, `:258`, `:447`, `:462`), and a verification without them succeeds without a row (orchestrator `:392`, `:448`) | `sync`, `AcknowledgedIsStored` without `Storable` |
| the same `:9`, for subscriptions | two deliveries create two rows; a repeated Razorpay event has a new id (`:304`) and sets the row back | `sync_twin.cfg`, `sync_replay.cfg` |
| "tracks lifecycle" (`schema.prisma:310`) | events out of order leave the older state | `sync` with `Mirrors` |
| the lifecycle of `subscription.service.ts:4` | a cancellation is undone by the provider's next event, or by a renewal under way | `sync_revived.cfg`; `renewal` with `CancelledIsFinal` |
| "Idempotent: checks if already renewed" (`subscription-renewal.processor.ts:7`) | a job that restarts invoices its period again, or the next one ahead of time | `renewal_twice.cfg`; `renewal` with `NotRenewedAhead` |
| "One billing cycle per subscription period" (`schema.prisma:336`) | two jobs at once create one each | `renewal` with `Cardinality(Live(p)) <= 1` |
| "After max retries → move to EXPIRED" (`subscription.service.ts:13`) | a FAILED cycle is not reused, each retry counts from 0 | `renewal_retries.cfg` |
| "On success → advance currentPeriodEnd" (`:11`) | a slow worker sets it back to a PAID period, where every later job returns early | `renewal_stuck.cfg` |
| the same | a cancellation that read the period before a renewal and writes its end after it, undone by a job that fails, leaves a period of length zero; renewing it leads to itself, and its cycle is PAID | `renewal`, with `sub.status = "CANCELLED"` for `cancels > 0` in `DueIsRenewedInTurn` |
| the same, for a provider's subscription | a late or repeated event, or the worker that renews it here, sets the row back to a PAID period | `renewal`, without `crossed` in `DueIsRenewedInTurn` |
| "provider-managed" (`subscription.service.ts:142`) | the query for due subscriptions finds these too, and invoices what the provider has billed | `renewal` with `BilledByProviderOnly` |
| `updateSubscriptionPlan` (`:313`) does not look at renewals | the invoice has the new plan and the cycle, begun before, the old one | `renewal`, without `~repriced` in `CycleSaysPriceInTurn` |
| `metadata.tenantId ?? 'easydev'` (`webhook.service.ts:236`) | Stripe's metadata has no tenant (`stripe.provider.ts:211`): events keep up a second row, of the default tenant, and the tenant's own stays as it was when he paid | `sync_tenant.cfg` |
| "Find subscriptions due for renewal" (`:553`) | the query leaves TRIALING out, and nothing ends a trial | `renewal` with `Trial = 1`, `Grace = 5`, `TrialEnds` |
| "sequential per tenant" (`billing.service.ts:278`) | two creations on either side of a month's end get one serial | `billing` with `SerialsAreSequential` |
| "Void an invoice (no further processing)" (`:153`) | an issue that read DRAFT makes it ISSUED | `billing_void.cfg` |
| settings of the IAM service (`iam/iam-settings.service.ts:92`) | a GST rate of 0 counts as missing and becomes 18 % | `Parsed` in Settings |
| the same, when a request fails (`:51`) | the defaults are cached like settings, and a slow answer replaces a newer one; for up to one time to live and one timeout invoices get that tax | `ReturnsRecent` is the bound |
| "only one instance runs reconciliation at a time" (`reconciliation.service.ts:46`) | the lock expires after 300 s, and DEL removes any lock | `reconciliation_outlived.cfg` |
| "A webhook was never delivered" is caught (`:6`) | attempts past their time are expired unasked | `reconciliation_expired.cfg` |
| "Completes SetupIntent verification" (`src/docs/API.md:193`) | two setups create two Stripe customers, one of whose intents is refused | `method_refused.cfg` |
| "Replaces the customer's default saved method" (`API.md:206`), "the provider remains the source of truth" (`schema.prisma:358`) | overlapping calls leave customer, subscriptions and row with different cards | `method` with `DefaultIsCharged`, `DefaultIsLive` |

## 6. What the models leave out

* One transaction key, one subscription, one customer at a time; tenants only
  where an event may miss the right one (Sync).
* Payment: the recurring branch is in Sync; the `createSubscription` call of a
  recurring cash payment (orchestrator 399-419) is not modelled. It is one more
  insert of the transaction that Payment has: a closed plan rolls it back, and two
  verifications that book twice create two subscriptions. An attempt is named by
  its request and provider.
* Refund: the lock that the final `UPDATE` takes on the transaction row lasts
  only for `Commit`, which is one step. The ledger is written whatever the
  provider answers, as in the code. `findUniqueOrThrow` at the end is returned
  unawaited, so its failure reaches the caller and not the catch block.
* Webhook: one order per attempt; the events that speak of a stranger are one.
* Sync: `markExternalSubscriptionStatus` has no caller; a trial's dates and the
  metadata of a row are left out. Of what an event may lack, the customer is not told
  from the plan: the code returns early for either.
* Renewal: the update of a provider's event writes ACTIVE, PAST_DUE or CANCELLED
  with the period; it never writes EXPIRED, TRIALING is in Sync, and the plan and the
  customer it writes are the ones the row has, since plans of a provider's
  subscription are not changed here. `createInvoice` and `issueInvoice` are one step each (Billing takes
  them apart), and so is the handling of a provider's event (Sync does). A plan
  stands for its amount; closed plans refuse a change, as if it had not been asked.
* Settings: one tenant and one process; processes share no cache. `invalidate`
  has no caller.
* The attempts of a failing renewal are never counted to their maximum
  (`renewal_retries.cfg`), so there is no property about that maximum.
* `src/scripts/backfill-legacy-subscriptions.mjs` is a migration run by hand. It
  reads the transactions and subscriptions first and then inserts one by one
  without a constraint: two runs at once, or a synchronisation that overwrites a
  row's `metadata.sourceTransactionId` in between, would create twins. Nothing of
  the service calls it.
* Billing: `markPaid` has no caller; texts and addresses are left out.
* Method: a profile that is discovered from earlier rows comes without a default:
  it would be `defaultPaymentMethodId` of their metadata, which no code of the
  service writes and only a caller's own metadata could hold. A card is named by the SetupIntent that saved it; the loop over the
  customer's running subscriptions is one step; Stripe's dashboard is outside.
* Not modelled: the HTTP idempotency interceptor (nobody registers it), the
  permission registrar (one call at start-up), admin (reads), audit (append only, errors swallowed),
  authentication, configuration, health.

## 7. Plan

Order of work, the most important behaviour first: Settlement and Payment; Refund
and Webhook (money in, money out, at least once); Renewal, Billing and Gst (what
is charged); Sync; Reconciliation; Method; Settings. These modules, their runs
and the proofs of section 4 are done. What would come next:

1. Liveness of Sync's events while the plan is active.
2. The subscription that a recurring cash payment creates, in Payment's
   transaction, and the backfill script over the rows it leaves.
