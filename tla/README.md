# Nexora Gateway: a TLA+ verification

Nexora Gateway takes crypto payments for merchants. A merchant's payment is one
*payment intent*: it is quoted at a locked rate, screened, a deposit is seen on a
chain, the deposit is confirmed, routed, and settled to the merchant. This
directory holds TLA+ models of the code that does so, their TLC configurations,
and TLAPS proofs.

Every definition is written from the TypeScript under `src/packages` and the SQL
under `src/packages/db/src/migrations`; `PROJECT.json` (`map`) names the lines.

## 1. Inventory

Two processes exist: `api-gateway` (three replicas) serves HTTP; `worker` (one
replica, a second one during a rolling update) watches chains and runs jobs. They
share one Postgres database and nothing else. `settlement`, `routing-engine`,
`compliance`, `recovery`, `reconciliation`, `gas-abstraction` and `rate-lock` are
libraries with tests; `worker/src/composition.ts` says they are composed later.

| Component | State | Operations | Interacts with |
| --- | --- | --- | --- |
| Durable job queue (`worker/src/job-queue.ts`) | table `jobs` | enqueue, claimBatch, complete, fail, reclaimStale, run | watcher and tracker enqueue; handlers call the intent service |
| Payment intents (`payment-intent`) | tables `payment_intents`, `intent_events` | create, quote, await, recordDeposit, detect, confirm, route, settle, fail, expire | api-gateway, job handlers, webhook delivery |
| Webhook delivery (`payment-intent`) | table `webhook_deliveries` | deliverWebhook, processRetries | every service operation; the merchant's endpoint |
| Deposit watcher (`worker`) | subscriptions in memory, timers | start, refresh, onDeposit, stop | chain clients, job queue |
| Confirmation tracker (`worker`) | timer | runOnce | intents in DETECTED, chain clients, job queue |
| Worker composition (`worker/src/composition.ts`, `index.ts`) | the parts above, an abort controller, the pool | start, stop, signal handlers | the operating system, all of the worker |
| Chain clients (`chain-abstraction`) | callbacks, polling timers, last block | watchDeposits, stop, getTransactionStatus | RPC endpoints, watcher |
| Route engine (`routing-engine`) | circuit breaker per provider | quote fan-out, execute, breaker calls | route providers |
| Route providers, registry, scorer (`routing-engine`) | the registered providers | register, quote, score, execute, status | aggregators over the HTTP client |
| Settlement and ledger (`settlement`) | tables `settlements`, `ledger_entries` | settleIntent, retry, double-entry records | chain clients |
| Reconciliation (`reconciliation`) | table `reconciliation_records` | five checks, report, summaries | settlements, ledger, intents |
| Recovery (`recovery`) | table `recovery_cases` | detect, resolve, processStuckTransactions | chain clients |
| Rate lock, price oracles (`rate-lock`) | in-memory locks and price caches | create, consume, cancel, check, cleanup | price sources |
| Compliance: gate, orchestrator, velocity, scorers (`rate-lock`, `compliance`) | in-memory caches, windows and sets | five screenings | sanctions list, vendors |
| Gas abstraction (`gas-abstraction`) | configuration per chain | estimate, prepare, execute | chain clients |
| HTTP client (`shared/src/utils/http-client.ts`) | none | request with timeout and retries | external services |
| API gateway, auth, dashboard, seeds, deployment files | sessions, UI | request parsing, pages | intent service |

### What is hard here

* **Interleaving.** Every `await` is a point where another request, job or worker
  runs. The queue's claim, the intent's read-then-transition, the watcher's lists,
  a settlement's five writes and the in-memory maps of the libraries all straddle awaits.
* **Crash and restart.** The worker is killed between a state change and the
  acknowledgement of its job; deliveries, settlements and resolutions are cut in half.
* **At-least-once delivery.** Jobs are run twice after a reclaim, chain clients
  report a transfer twice, merchants receive a webhook twice.
* **Stale data.** Prices, risk scores, lists of intents and statuses of bridges are
  used some time after they were read, and answers overtake each other.
* **Liveness.** A deposit that arrived must in the end reach the intent.

The full list, with lines, is `hazards` in `PROJECT.json`.

### What makes each part correct

The properties that were looked for, as far as the code keeps them. Section 7
says what it does not keep.

* **Job queue.** Concurrent workers never hold the same row unless it was
  reclaimed; a final status has its reason (a run, or spent attempts, or no
  handler); every job ends unless the loop died.
* **Payment intents.** The row agrees with its event log; the log is a path of
  the transition table; the merchant hears only of what committed; nothing is
  settled that was not paid.
* **Webhook delivery.** DELIVERED means accepted; an event is sent again only for
  a reason; a row that was never sent stays due.
* **Deposit pipeline** (chain client, watcher, tracker, handlers). A transfer is
  credited once and to one intent; an intent confirms only on a final
  transaction; a final deposit gets a durable confirm job in the end.
* **Worker.** The watcher's table and the clients' callbacks agree; every awaited
  address is polled; the pool closes after the last job.
* **Routing.** A provider with an open breaker is left alone; a request ends
  although no provider answers; the chosen quote is not worse than another in
  every respect; a status was true at some time since it was asked for.
* **Settlement and ledger.** An entry stands for a payout that is deep in the
  chain and has its fee; a call that ends leaves a row that tells how.
* **Reconciliation.** Table and ledger differ by the calls in flight, cut off or
  booked in an error, and by nothing else; a clean report vouches for what existed
  when it began.
* **Recovery.** RESOLVED means executed; a cron job accelerates a case once;
  a resolution that began ends.
* **Rate lock.** A locked rate is recent; a lock is used once per cancellation.
* **Compliance.** What a source called listed, recently, is not allowed; a vendor's
  scorer that was told nothing blocks; what is allowed stays within the velocity limits.
* **HTTP client.** Only what is undecided (the vendor was busy, its answer is not
  known) is sent again, within the budget, and none is given up early.
* **Gas abstraction.** A chain announced as gasless is one, at the quoted fee.

## 2. Modules

The first group is what the two running processes do, the second the libraries no
process builds yet. Each was planned, written and checked in this order.

| Module | Models | Composes or refines |
| --- | --- | --- |
| `JobLifecycle` | abstract specification: the life of a job, ADR-002 | |
| `JobQueue` | the queue: SQL statements, loop, crashes | implements `JobLifecycle` |
| `PaymentIntent` | rows, event log, service operations | |
| `WebhookDelivery` | deliveries and their retries | |
| `DepositPipeline` | EVM poller, watcher, tracker, handlers | implements `JobLifecycle`; intent states |
| `Worker` | start and stop, refreshes, pollers of all chains | the loop of `JobQueue` from outside |
| `RouteEngine` | fan-out, timers, circuit breakers | |
| `HttpClient` | attempts of a request | |
| `RouteProviders` | adapters, mocks, registry, scorer | extends `HttpClient` |
| `Settlement` | settleIntent, retries, ledger entries | |
| `Reconciliation` | the report, query by query, and the summaries | extends `Settlement` |
| `Recovery` | cases, resolutions, the cron job | |
| `RateLock` | locks, oracles and their caches | |
| `Compliance` | screenings, scorers and their caches, velocity window | |
| `GasAbstraction` | estimate, prepare, execute | |
| `Sums` | the sum of a function over a finite set | used by `Settlement`, `Reconciliation`, `Compliance` |

`MC*` modules hold instances for TLC. Four of them put models that share no state
under one specification: `MCWorker` (`JobQueue`, `Worker`), `MCIntents`
(`PaymentIntent`, `WebhookDelivery`), `MCGuards` (`RateLock`, `Compliance`) and
`MCAdapters` (`HttpClient`, `RouteProviders`, `GasAbstraction`). Their variable
`subject` says which of the models a behaviour takes the steps of; interleavings of
the models would show nothing. `MCJobQueue` is the queue as the composition root
wires it up.

The proofs are in seven `*Proofs` modules, one for each group of parts that is
reasoned about together, and in `Lemmas`, which they share:

| Module | Proves about |
| --- | --- |
| `WorkerProofs` | `JobQueue` and its `JobLifecycle`, `Worker` |
| `PaymentIntentProofs` | `PaymentIntent`, `WebhookDelivery` |
| `DepositPipelineProofs` | `DepositPipeline` and its `JobLifecycle` |
| `AdaptersProofs` | `RouteEngine`, `HttpClient`, `RouteProviders`, `GasAbstraction` |
| `ReconciliationProofs` | `Settlement`, `Reconciliation` |
| `RecoveryProofs` | `Recovery` |
| `GuardsProofs` | `RateLock`, `Compliance` |
| `Lemmas` | least numbers and smallest sets; `Min` and `Max` of two; `Sums` |

Where one module extends two models, a name that both would have carries a prefix
in one of them: `Screening...` in `Compliance`, `Delivery...` in `WebhookDelivery`,
`Process...` in `Worker`.

What is left of the plan: the readings of the API gateway, the daily and monthly
groupings of the reports, and the Tron and Solana pollers once they find deposits
(section 8).

## 3. From the code to the modules

### `JobQueue` and `JobLifecycle`

A job is one row of `jobs`, named by its idempotency key. `status`, `attempts`,
`lockedBy` are columns; `due` and `stale` are what `run_at` and `locked_at` say
when they are compared with now. `pc`, `token` (the count in the worker's copy of
a row) and `cur` are the locals of one `JobQueue.run`. `Enqueue`, `ClaimRows`,
`CompleteRow`, `FailRow`, `ReclaimRows` are the SQL statements, each atomic;
`Reclaim`, `Claim`, `Dispatch`, `HandlerReturns`, `HandlerThrows`, `Complete`,
`Fail` and `EndOfBatch` are the loop between its awaits. The failures are a
statement that throws with or without having committed (`CompleteError`,
`LoopError`), a crash, and a graceful stop. `LoopError` ends `run()` for good while
the process stays up: `composition.ts` logs the rejection and goes on, so `LoopDied`
is a state of the program. A handler is anything that returns or throws.

`JobLifecycle` has only `status` and `attempts`: the arrows of ADR-002, a counter
that counts the runs, and nothing that leaves a terminal status.

### `PaymentIntent`

`state`, `version`, `deposit` and `quote` are columns of `payment_intents`, `log` is
`intent_events`, `hooks` is what was handed to `WebhookDeliveryService`. A caller
is a request of the API or a job of the worker; `call` holds its locals, the row
it read (`seen`) among them. An operation that decides on a row before an await
and writes after it is two actions or more: `RecordDeposit` / `AcceptQuote` /
`DetectDeposit` / `Transition` / `DeliverWebhook`. `Transition` is the repository's
`transition()`: row lock, check against `VALID_TRANSITIONS`, update and event
insert in one transaction. `Refuse` is its throw. `Break` ends a call at any await.
`Operations` is the set of operations the callers use: the repository itself calls
`createIntent`, `generateQuote`, `recordDeposit` and `confirmDeposit`, its tests
the others.

### `WebhookDelivery`

One row per intent and event type. `deliverWebhook` upserts the row and goes on to
`attemptDelivery`; `processRetries` selects a batch of due rows and goes over them one by
one; `doing` is where a caller is in it. `attemptDelivery` is `getDelivery`, then
`Reschedule` when the attempt is not the first, else `Post`, then `RecordDelivered` or
`RecordFailed`. `accepted` and `posts` belong to the merchant's endpoint, which accepts,
refuses or answers too late.

### `DepositPipeline`

`chain` is what a transaction looks like to an RPC endpoint (unsent, mined, deep or
reverted; a reorg makes a mined one unsent), `state` and `paidBy` the intents,
`jobStatus`, `attempts` and `intentId` the jobs. In memory of the worker are the
watched addresses (`watched`), the transfers the poller has passed (`passed`;
watching begins at the head of the chain, which passes all that is mined by then),
the callbacks before and after their lookup (`observed`, `resolved`), the tracker's
list of intents (`sweep`), whether the queue's loop is still there (`polling`) and the job
being handled (`running`, `outcome`). `Poll` is the client's block scan, which reports a
transfer to or from a watched address, `Sweep` and `Examine` the tracker's `runOnce`, and
`AcceptQuote`, `DetectDeposit`, `ExpireQuote`, `ConfirmDeposit`, `ConfirmRefused`,
`LogUnattributed` the handlers, split where they may be cut. `Crash` drops the memory
and leaves the tables. The queue is used as `JobLifecycle` describes it, and the run
checks that it is (`QueueSpec`). Handlers run only if the loop polls the queue the jobs are
in (`Polled`); the composition root polls another (`jobqueue_wiring`), so this module takes
that queue as a constant and the liveness it checks ends before the handler.

### `Worker`

`starting` follows `main()` through `start()`, `stopping` follows the signal handler
through `stop()` (`shutdown`, `LoopAwaited`, `HealthClosed`, `Exits`; `Exits` with code 1 is
also the deadline of `forceExit`). `subscribed` is the watcher's table, `listening` counts the
callbacks in the chain clients. `refresh` is split at its query: the list is read in
`reading`, and applied in a later turn, perhaps after a newer one or after the stop.
An EVM client has one poller for all addresses, whose test and setting straddle an
await (`startPolling`); Tron and Solana have one timer per address. The job loop is seen
from outside: where it is, whether it is aborted, whether it ended.

### `RouteEngine`

`state`, `failures`, `cooldown` are the fields of each `CircuitBreaker`.
`selectBestRoute` and `getAllRoutes` ask every available provider in one
synchronous step; `createTimeout` and an answer race per provider. A call whose
timer won is an orphan: it is still running, and its end still reaches `onSuccess`
or `onFailure`. `executeRoute` goes through the same breaker without a timer.

### `HttpClient` and `RouteProviders`

`http[c]` is where call `c` of `request()` is, `outcomes` how its attempts ended: the status
of the response, if there was one, and whether its body was read, could not be (`Unread`), or
none came. A status is one of the five classes that the client, an adapter or ADR-006 tells
apart. `RouteProviders` uses such a call, with
no retries, as its `work`: `fetchRawQuote` and `fetchStatus` begin one, `QuoteEnds` and
`StatusEnds` convert what came of it (`normalizeQuote`, `told`). Socket answers for two
transactions, and `socketTold` is its `destinationTxStatus ?? sourceTxStatus`; `of` records which
of the two a result is from. `requestRoutes`, `selectQuote` and `executeChosen` are the
engine's request, choice and execution. The scores are
computed as in `route-scorer.ts`, in integer units. `bridge` is the execution in the outer
world, which goes on while a status is under way; `seen` records what it was meanwhile.

### `GasAbstraction`

The service keeps `chainConfigs` only (defaults overlaid by `customConfigs`); the variables
`estimate`, `prepared`, `result` are what a caller got from the last call of each
operation, in any order and for any chain.

### `Settlement` and `Reconciliation`

A call of `settleIntent` and the row it inserts share a name. `status`, `tx_hash`,
`completed_at` are columns, `pc` is where the call is, `payout` what the chain says of its
transaction, `ledger` the set of entries. Each await is an action: `executeTransaction`,
`SetProcessing`, `waitForConfirmation`, `SetCompleted`, `recordFee`, `recordSettlement`, and
`handleSettlementFailure` for whatever throws. A statement may throw without effect
(`StepThrows`) or after it committed (`CommittedStepThrows`); a SETTLEMENT entry that was
committed and reported as an error makes its call one of the `disowned`. `retrySettlement`
is also the timer's. `Reconciliation` adds the row of `reconciliation_records` and what the
call holds: `RunCheck` is one query and the discrepancies computed from it, and settlements
go on between two of them.

### `Recovery`

`status`, `resolution_action`, `resolution_tx_hash`, `resolved_at` are columns. `resolve` is
`SetResolving`, `execute`, `RecordResult`, or `RecordFailed` in its catch.
`processStuckTransactions` selects a `batch` once and resolves its cases one by one. `sent`
and `credited` record what was carried out, `cut` the cases a process died over. No code
calls `processStuckTransactions`, so cron jobs may come or not.

### `RateLock` and `Compliance`

Both count time relatively: entries of a cache carry the time that is left and the age of
their content, and `Tick` ages everything, so no clock needs a bound. `createLock` asks all
oracles (`calls`, `quotes`); `Answer` is the source's reading, `Arrive` its return to the
oracle, which stores it whatever came since; `StoreLock` takes the median. `locks` is the
map in order of insertion, which `getLock` searches for the first entry of an intent. In
`Compliance` a call is one of five screenings; it is answered from the cache or asks the
scorer's source (`providerAnswers`, `callChainalysisRisk`, `callTRMRisk`, or none for a
basic scorer without a provider, `noProvider`), and `ResultArrives` decides; `scorer` and
`velocityChecks` are how the orchestrator was built; `LookUp` is that source's reading and
`ScreeningTick` the time. `basis` is history: what the decision was told, and how long ago.

## 4. Runs

Each `.cfg` gives the constants; `MC*.tla` hold the functions a `.cfg` cannot
write. Bounds are constants named `Max*`, and `Places`, the places for records in the
velocity window; they appear in guards, never in a constraint.

| Run | Instance | States | What it shows |
| --- | --- | --- | --- |
| `worker` | queue: 2 jobs (one without a handler), 2 workers, 2 attempts, batch 2, 1 restart, 1 database error, acknowledgements may be lost; process: 2 EVM addresses, 1 Tron address, 2 refreshes, 1 change, 1 failing query | 296k + 261k | claims are exclusive, verdicts have reasons, every job ends unless a loop died, as a rolling update runs the queue; table and callbacks agree; a stop drains; what is awaited is polled |
| `jobqueue_wiring` | jobs on the queue the producers name | violation | the worker polls another queue |
| `intents` | 1 intent, 2 callers (symmetric), every operation, transfers that are exact, short and in excess, 8 events; webhooks: 2 rows, 1 request, 1 retrier, 2 attempts, 2 calls per row, 1 error, 1 crash | 930k + 902k | row, log, webhooks and table agree under any overlap of two calls; DELIVERED is true; posts are bounded; a row that was never sent stays due |
| `deposit_pipeline` | 2 intents at one address, 2 transfers in 2 transactions, one of them also sent from it, 2 attempts, 1 fault (error, end of the loop, repeated report, crash or reorg) | 375k | a transfer pays one intent; confirmation is final; a succeeded record job has recorded; the queue is used as `JobLifecycle`; a final deposit gets its confirm job |
| `route_engine` | 2 requests, 2 providers, threshold 2, 3 failures, 1 orphan per provider | 484k | breaker state and count agree; OPEN shields; requests end |
| `adapters` | an HTTP call with 2 retries; 2 adapter calls over 3 providers and 4 responses; gas on 5 chains with 2 custom configurations | 3.60M | retries, statuses, choice and gasless promises |
| `socket_status` | the instance of `adapters` | violation | COMPLETED while the bridge is crossing |
| `reconciliation` | 2 settlements of 1 or 2 intents, 1 fault (a crash, an error, an error after the commit), one payout that may revert, 1 report | 425k | rows, chain and books say how far they agree; a clean report is sound; calls end |
| `settlement_paid` | the same without faults | violation | a payout that failed on the chain is completed |
| `recovery` | a stuck case and one without a client, 1 operator with 2 calls, 2 cron jobs, 1 fault | 117k | RESOLVED is true; no cron job sends twice; a resolution ends |
| `guards` | 2 callers, 1 oracle of each kind, 2 locks; 2 overlapping screenings, 4 deployments (one for each scorer, TRM's without velocity checks), 3 places for records (callers, screenings and places are symmetric) | 1.83M + 0.92M | locked rates are recent although answers overtake each other; locks are used once; what a source called listed is not allowed; limits hold |
| `fail_closed` | the instance of `guards` with the basic scorer only | violation | a failing provider lets a payment through |

Why the bounds are enough to be interesting: two workers, callers, requests, refreshes,
settlements or cron jobs are the least that can overlap, and each is split at every await,
so every order of two is explored; two attempts make the first failure retry and the second
give up; one restart and one error can fall between any two steps; three failures with a
threshold of two take a breaker past its threshold and through HALF_OPEN back to OPEN; eight
events are enough to reach SETTLED, whose shortest log has eight. Two intents at one address
are what `public-intents.ts` produces for a merchant. Two callers of two oracles are the
least whose answers overtake each other in a cache, and give a median of one and of two
prices; two retries give a first, a middle and a last attempt; three records exceed a
velocity limit of two. In `deposit_pipeline` every transfer has its own transaction (section
7 has the other case); its safety was also run with two faults (3.3 million states).
Deadlock is checked except where all work may be done or the process exits.

The four violation runs check one sentence of the repository each that the code does
not keep; `findings` in `PROJECT.json` quotes it. Where a passing run has a property about
the same code, that property says what holds nevertheless.

## 5. Fairness

* `JobQueue`: weak fairness of each worker's loop and of the restart of a stopped
  process (Kubernetes restarts it), and of time (`BecomeDue`, `Expire`). A handler
  ends because every call it makes has a deadline or is a statement that returns
  or throws. Nothing forces an enqueue, a failure, or the death of a process whose
  loop has died; hence the disjunct `LoopDied`.
* `RouteEngine`: timers and continuations. A provider owes nothing, not even an
  end to its calls.
* `DepositPipeline`: the timer of the tracker, each examination it begins, and the restart.
  Nothing is assumed of customers, of the chain, of callbacks or of the queue's loop, which
  may poll another queue or have ended.
* `Worker`: while the process runs, the continuations of `start()`, the refresh interval,
  the answer of each query, and the await in `startPolling`. No batch, signal or
  connection has to end.
* `Reconciliation`: each step of a call of `settleIntent` and of the report; the
  confirmation loop has a deadline of five minutes. The chain owes nothing.
* `Recovery`: the steps of a call that has begun. Nobody has to call: `EveryCaseEnds` is
  about resolutions that began.

`processRetries` and `processStuckTransactions` have no caller in the repository, so nothing is
assumed of them: `WebhookDelivery` has safety properties only, which say what they would find.
`intents`, `guards` and `adapters` check safety only. In `MCWorker` each fairness condition is
asked of the behaviours whose `subject` it is about, so that the other ones do not satisfy a
liveness property by being excluded.

## 6. Proofs

Every safety invariant and every safety action property of the passing runs is stated by
a theorem, for every value of the constants that satisfies the modules' named
assumptions. Each proof shows `Init => IInv`, `IInv /\ [Next]_vars => IInv'` and
`IInv => Inv` for an inductive `IInv`. `theorems` in `PROJECT.json` lists the results.
Six of them say something that no run lists, because another property says more about
the code's hazards; they are marked (*).

**`WorkerProofs`**

* *Queue.* `IInv` adds to the safety invariants that a worker's current job is in its
  batch (`CurInBatch`), that an idle worker holds nothing (`IdleHoldsNothing`), that a
  worker at `complete` has seen its handler return (`CompleteAfterReturn`), and that a row
  in a batch that was never reclaimed is neither PENDING nor absent (`HeldIsNotPending`).
  Without the last, `SharedOnlyIfReclaimed` is not inductive: a second worker could claim
  the row. `VerdictsAreReal` proves `VerdictsJustified`. `LocksAreNumbered` (*): a locked
  row has been counted. `OneWorkerImplementsLifecycle` (*) has as hypotheses one worker and
  no lost acknowledgement: with either gone TLC finds a counterexample. One worker
  reclaims only between its batches, so each row it holds is RUNNING with the count it
  holds (`HeldIsRunning`) and its verdict never falls on a row that has ended.
* *Process.* `CallbacksAreBooked`: `Watch` adds and removes exactly the difference of table
  and list (`WatchBooks`), whatever list is applied when. `StopDrains`: the loop exists from
  the turn in which the start is through, and what follows `loop` in `stop()` has seen it end.

**`PaymentIntentProofs`**

* *Intents.* `History` is the strengthening: which events every path of the table to a state
  has emitted. `CallOK` ties a caller's locals to the operation it runs, `QuoteReady` says a
  caller about to emit QUOTE_GENERATED has written the address, and `WebhookReady` that a
  caller about to send a webhook has committed its event. `HistoriesAreLegal` proves
  `LogIsHistory`; `QuotesAreWatchable` (*) that a quoted intent has a deposit address.
* *Webhooks.* `OutcomeOK` ties a caller about to record DELIVERED to an accepted POST.
  `FirstOnly` says that a caller at or past its POST is at its first attempt, so with
  `MAX_ATTEMPTS` above one no row is ever FAILED (`RefusedRowsStayPending` (*)), a statement
  about what the code does not do (section 7).
* *Unsent rows* (`UnsentRowsStayDue`). A row without a POST has the columns it was inserted
  with: a caller that writes them is past a POST of the row (`Unsent`).
* *The number of POSTs* (`PostsAreBounded`). `PostBudget` is not inductive, since it does
  not say who may still send. `BudgetOK` adds it: as long as `attempt_count` is 0, each POST
  of a row was forgotten by an error or a crash or is one of those whose outcome is yet to
  be written (`Unrecorded`); once it is not, only callers that had read the row before can
  add one, and those that are about to (`Sending`) have not yet done so. `Slack` is that
  remainder. A crash forgets at most one outcome of each caller, an error one.

**`DepositPipelineProofs`**

* `CreditedOnce`: the record job of a transfer has one row, whose `intentId` is written once,
  and an intent is paid by a transfer only through that job (`CreditedByItsJob`).
  `ConfirmedIsFinal`: a confirm job is enqueued only for a deep transaction, and deep
  transactions stay (`ConfirmJobsAreFinal`). `RecordedJobsAreDone`: the intent of a succeeded
  record job no longer awaits a deposit. The assumptions allow transfers that share a
  transaction. `PipelineUsesLifecycle` proves the refinement that the run checks.

**`AdaptersProofs`**

* *Breakers.* `ClosedIffHealthy` and `CanRecover` (`NoBreakerIsStuck` (*): an OPEN breaker has a
  cooldown that will pass) are inductive with the types; `OpenShields` follows step by step.
* *HTTP client* (`OnlyUndecidedIsRetried`). `HttpInv` says that a response being read has a
  status and that what is returned was a 2xx (`CallOK`), that an attempt under way is within
  the budget and that all before it left the request undecided (`WithinBudget`).
* *Statuses* (`StatusesAreFresh`). A call carries what the bridge was while it was under way;
  `StatusCall` says that the answer of its HTTP call is one of these until it is converted.
  `LifiMeans` and `SocketMeans` go through the vocabularies: what is read is true of that state
  of the execution or, without a word of the destination, of the source transaction.
  It needs that no two adapters share a call and that the names in the registry are unique
  (`NamesAreUnique`), which `RoutesTypeCorrect` (*) proves with the types.
* *Choice* (`ChoiceIsNotDominated`). `ChoiceOK` says that the ranked quotes are those that
  answered and that the chosen one has the best score; the score grows in no respect in
  which a quote is worse, for any bounds the quotes of the request give.
* *Gas* (`GaslessIsKept`). `GasInv` holds what a caller was told against the configuration of
  the chain: an estimate that announces a gasless execution has a strategy that is available
  and its fee (`Promised`), what is prepared depends on the chain alone, and what is
  executed on that chain succeeds at that strategy's fee (`Executed`).

**`ReconciliationProofs`**

* *Settlements* (`RecordsAgree`). `CallOK` ties the place of a call to its row and its payout
  (`fee` and `entry` only with a deep payout and a completed row), `EntryOK` says that a
  SETTLEMENT entry belongs to a call at its end or, if it is disowned, on its way to the catch,
  and `EndOK` what such a call has left. Entries of other settlements and of other types are
  different (`EntriesDiffer`), so a step concerns its own settlement only (`OthersStay`).
* *Clean reports* (`CleanReportsAreSound`). `ReportInv` says what each check has established as
  long as nothing is found, and `SettlementsGoOn` that settlements do not undo it: rows stay,
  the ledger grows, and a row that completed once does not complete again.
* *Sums* (`BooksAgree`). `BooksInv`: the ledger is finite and is what it held before plus fee and
  payout entries of the rows. The sums over the ledger and over the table are split by
  settlement; they differ by the completed rows without an entry, which are those of calls in
  flight or cut off, and by the entries without a completed row, which are disowned.

**`RecoveryProofs`**

* `ResolutionsAreReal` needs that a caller about to record a success has carried it out
  (`SuccessIsBooked`). `NoSecondAcceleration`: a job takes new cases only, marks each
  RESOLVING before it acts, and no case looks new again (`CasesStayBegun`).

**`GuardsProofs`**

* *Locks* (`LocksAreUsedOnce`). `GoodLocks`: a lock that may be consumed is one use behind its
  cancellations. `consume` and `cancel` write the entry they read in the same turn, so the
  map stays a sequence of such locks (`StoreOK`), in whatever order entries are cleaned up.
* *Rates* (`LockedRatesAreRecent`). Each step ages what it does not replace, so the invariant
  bounds sums: the age of what a cache holds plus the time it has left is at most
  `CacheTtl + MaxFetch` (`CacheOK`), and all requests of a call that are under way have lasted
  equally long (`Timely`), which bounds the age of those that answered while others are awaited.
* *Screenings* (`KnownMatchesAreBlocked`). `Telling`: a risk, cached or on its way, says
  SANCTIONED if the answer it rests on did, whichever scorer made it, and a vendor's rests on
  an answer; `Granted` is the promise of a verdict that lets through, kept by each of the five
  decisions. That no answer blocks too is not true of the basic scorers (`fail_closed`).
* *Velocity* (`LimitsAreRespected`). `WithinLimits` bounds number and sum of the allowed records
  in the window. The check counts the records that were refused too, so it is stricter than
  the invariant; ageing and cleaning only remove records, which lowers both.

**`Lemmas`.** Sums over sets are defined by recursion, and induction over data is out of the
prover's reach. The facts needed (`SumSplits`, `SumGrows`, `SumParts`, `SumImage`) are
obtained by looking at a smallest counterexample: `Least` gives a least element of a set
of numbers, `Smallest` a set of least cardinality, and a sum is the end of a walk
(`SumIsWalk`, `WalksAgree`, `WalkExists`) that can be prolonged by one element.

*Only model-checked*: liveness, because fairness and ENABLED are out of the prover's reach:
`EveryJobSettles`, `EveryRequestResolves`, `FinalIsQueued`, `EverySettlementEnds`,
`EveryCaseEnds`, `EveryAwaitedIsPolled`. The violation runs are
counterexamples and have nothing to prove. Where a module's type invariant is not among a
run's properties it documents the state. No module declares a RECURSIVE operator.

## 7. Disagreements

Checked, one violation run each:

* `jobqueue_wiring`: the producers enqueue to `deposits`, the loop polls `default`.
* `settlement_paid`: confirmations are compared before the status, so a payout that failed
  on the chain is completed.
* `fail_closed`: the basic scorer takes a failure of its provider for safe, and the
  orchestrator, which says that it fails closed, allows the payment.
* `socket_status`: Socket's status falls back on the source transaction and says COMPLETED
  while the bridge is crossing.

Read in the code while it was modelled; the models have this behaviour, and the
properties state what holds in spite of it.

*Queue.*
* A job that was reclaimed from a slow worker can be finished twice: the late
  `complete()` or `fail()` writes over a terminal status (`job-queue.ts:268`, against
  ADR-002:33).
* `reclaimStale` returns a row to PENDING whatever its `attempt_count`, so
  `max_attempts` bounds failures and not attempts (ADR-002:36).
* A database error in `reclaimStale`, `claimBatch` or `fail` ends the loop for good, and
  readiness does not notice. The loop may claim a whole batch after the abort.

*Intents and webhooks.*
* A short transfer processed while the full payment is recorded turns DETECTED into
  UNDERPAID (`payment-intent.service.ts:200-203`, 255).
* From AWAITING_PAYMENT `detectDeposit` asks for UNDERPAID or OVERPAID, which the table
  refuses (README.md:232-233, `payment-intent.service.ts:183`).
* `updateQuote` is unconditional: of two overlapping `generateQuote` calls the one
  that then loses the transition may leave its address in the row
  (`payment-intent.repository.ts:224`).
* Attempts after the first are counted and return before the POST
  (`webhook-delivery.service.ts:114`), against the schedule at lines 10-16: a refused webhook
  is never sent again and never FAILED (theorem `RefusedRowsStayPending`). A crash between a transition
  and `deliverWebhook` loses the webhook; there is no outbox.
* `processRetries` and `processExpiredQuotes`, and `processStuckTransactions` of recovery, have no
  caller.

*Deposits and worker.*
* The second of two overlapping transfers to a shared address ends as a succeeded job
  that credits nothing.
* The key of a confirm job is the transaction: one transaction that pays two intents
  confirms one of them (`confirmation-tracker.ts:141`).
* A failure after `confirmDeposit` committed makes the retry throw, so a job whose
  work is done is dead-lettered (`job-handlers.ts:70`).
* The last block is in memory: transfers in blocks mined while the worker is down are
  not reported (`evm-chain-client.ts:361`). A callback whose statements fail is
  logged and lost (`deposit-watcher.ts:130`).
* A transfer reported again after it was recorded enqueues an unattributed job.
* Addresses are compared exactly in places, while token events carry them in lower case;
  the asset of a transfer is not compared at all.
* A signal during startup: `stop()` finds no loop, `start()` goes on and runs one, and the
  pool closes under it, against `index.ts:30`. `PoolClosesLast` excludes it (`early`).
* Two EVM watches in one turn start two pollers, and the first interval leaks.
  `chains > 0` makes the worker ready with no subscription (`health-server.ts:59-62`).

*Routing and HTTP.*
* A HALF_OPEN breaker lets every call through, and a late success closes an OPEN one
  (`circuit-breaker.ts:9-15`). A quote may have expired by `executeRoute`.
* The body is parsed before the status is looked at (`http-client.ts:209-213`), so a 4xx whose
  body cannot be parsed is retried as a network error, against "Never on 4xx other than 429"
  (ADR-006:37).
* Only `idempotent === false` keeps a call from being retried (187): a POST that leaves the
  option unset is, against "only for idempotent requests" (ADR-006:38). No caller does.
* `Retry-After` is not capped (`http-client.ts:235`); 500 is given up at once (138), where
  ADR-006 has "429/5xx"; the timer is cleared before the body is read (204); a 2xx whose body
  cannot be parsed is sent again.
* A fee that is NaN leaves the ranking undecided. Scores do not look at the amount that arrives.
  `executeRaw` sends nothing.
* Gas: without `paymasterConfig` a paymaster chain is said to be unavailable but executes;
  `executeGasless` ignores the request's chain.

*Libraries.*
* Settlement: two calls of `settleIntent` pay twice; a FAILED row may be paid; RETRYING
  is never executed; a crash leaves PENDING or PROCESSING for ever; `recordDeposit`
  and `recordSettlement` both debit the pending account and the fee is charged in the
  amount and in the ledger. `verifyConsistency` compares a sum with itself. Discrepancies
  are never inserted. The "optimistic locking" of the repositories is unconditional.
* Recovery: two resolutions of one case may refund twice. `getRelatedIntent` is always null,
  so TOP_UP_LINK always fails.
* Rate lock: the median of two prices is the larger one. CoinGecko's `last_updated` is not
  looked at. A cancelled lock can be consumed, and a consumed one cancelled and consumed
  again. `getLock` returns the first lock of an intent although it has expired.
* Compliance: a payment is counted by the velocity window at its creation and at its deposit;
  blocks that arrive late are not counted. Flags of a cached verdict are made up from
  its score. `autoBlockThreshold` is unused and no screening decides REVIEW.

## 8. Not modelled, and why

* Request parsing, authentication, sessions, the dashboard, configuration, logging,
  migrations, seeds, the connection pool and deployment files: input, output or
  declarations. The pool's transactions are the atomicity of the actions.
* The bodies of the health probes; gas estimates, balances and submission of the EVM
  client, single calls without state; the other operations of the Tron and Solana
  clients, stubs at this commit; the chain registry, a map.
* Daily and monthly reports, other groupings of the sums in `Reconciliation`;
  `verifyOwnership` in recovery, which changes nothing and whose result nothing reads.
* Amounts of transfers and routes are reduced to the comparisons the control depends on;
  settlement amounts, fees and scores are computed, in integers, without floating point error.
* Clocks are reduced to whether a deadline has passed, or to ages. Two clocks that disagree
  are not modelled: the queue compares only times of the database.
* Batches of 100 in the tracker, which starve later intents when the first hundred
  never confirm.
