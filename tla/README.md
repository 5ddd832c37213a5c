# Nexora: TLA+ specifications of the operations platform

This directory models the control plane of Nexora: how a submitted operation is
queued, claimed by a worker under a lease, executed, retried, cancelled,
dead-lettered and redriven; how its events are charged and sent to webhooks; and
how requests get in. TLC checks the models on small instances, and TLAPS
proves the main safety properties for every value of the constants. Paths and
line numbers are those of the repository; `operations` stands for
`cmd/operations/main.go`.

## 1. The system

| Component | Code | State | Operations | Interacts with |
|---|---|---|---|---|
| Operation state machine | `internal/domain/state.go` | none | `CanTransition`, `IsTerminal`, `RetryDelay` | used by the Operations service |
| Operations API | `operations` 147-340 | `operations.operations` | create, get, list, cancel, redrive | starts DBOS workflows |
| Queue workflow | `operations` 104-145 | DBOS system tables | sleep until `NotBefore`, mark QUEUED, XADD | PostgreSQL, Redis stream |
| Claim transaction | `operations` 342-405 | row locks | lock operation, lock tenant, count, update | every worker |
| Private worker protocol | `operations` 480-645 | `private-worker-cursor:<tenant>` in Redis | poll, heartbeat, complete, fail | enterprise workers over HTTP |
| Cloud worker handlers | `operations` 342-478 | the row | claim, heartbeat, complete, fail | cloud worker |
| Lease reaper | `operations` 706-757 | the rows of its last scan | scan, dead-letter or requeue | starts DBOS workflows |
| Event dispatcher | `operations` 647-702 | `operations.event_outbox` | deliver to Usage, back off | Usage |
| Enterprise worker | `cmd/enterprise-worker/main.go` | its loop | poll, execute, heartbeat, report | Operations through the gateway |
| Cloud worker | `cmd/worker/main.go` | consumer group's pending list | read, claim, execute, report, emit, ack | Redis, Operations, Usage |
| Usage | `cmd/usage/main.go` | ledger, webhook endpoints and outbox, live subscribers | record event, dispatch webhooks, stream events | PostgreSQL, customer webhooks |
| Gateway | `cmd/gateway/main.go` | rate counters in Redis | authenticate, rate-limit, route | all services |
| Access | `cmd/access/main.go` | tenants, users, API keys | seed at the start, login, verify, create keys and tenants | PostgreSQL |
| Demo target, platform helpers, consoles | `cmd/acme`, `internal/platform`, `web` | none of the platform's | | |

What is hard here:

* **Concurrency.** Handlers, workflows, the reaper and the workers write the
  same rows, mostly with single conditional UPDATEs, sometimes after a separate
  SELECT (`workerFail`, the reaper). All polls of a tenant share a Redis cursor
  without a lock. A claim is a transaction of four statements.
* **Two systems per step.** A row is committed before the workflow that moves it
  on is started; the workflow writes PostgreSQL, then Redis, then its checkpoint.
* **Identity by attempt.** Workflow IDs and event keys are made of the operation
  and its attempt; DBOS starts nothing under a known ID, the outbox drops a known
  key. Redrive makes attempts start over.
* **At least once, with one charge.** Events are sent again until they are
  answered; webhook rows are marked before they are sent and counted after it.
  Cloud workers send their events themselves, once, and acknowledge messages that
  nobody reads twice.
* **Several processes of a service.** Replicas of Usage pick webhook rows from one
  table, replicas of the gateway count in one Redis key.
* **Leases.** They expire while a worker executes or reports; requests may be
  lost, or be served after their worker has given up.

What makes each component correct: the concurrency limit is never exceeded; a
lease exists exactly while an operation is RUNNING; every status change is one
of the domain map's, and only a dead letter leaves a terminal status; a success
has its event, and is charged once; no more dead letters are recorded than there were; a report moves the
attempt it is about; an operation that waits for a worker is brought to one;
every operation is settled in the end; an event is charged once, together with
its webhook rows, and every recorded event is charged in the end; a webhook row is
sent as often as it is counted and settled in the end; no tenant exceeds its rate
within a window; a request goes on only as what its credential was granted, and
no tenant is left without a user.

## 2. Modules

| Module | Role |
|---|---|
| `OperationStatus` | statuses, the domain map, the status sets of the claim, cancel and redrive statements |
| `OperationLifecycle` | abstract specification: what the status column promises, with an atomic claim below the limit |
| `ClaimTransaction` | `claimOperation` statement by statement against the other writers; implements `OperationLifecycle` |
| `Operations` | the service without workers: create, the workflow, cancel, redrive, atomic claim, leases, reaper, crash |
| `PrivateWorkers` | extends `Operations` with the enterprise workers and their four handlers; implements `OperationLifecycle` |
| `CloudWorkers` | extends `Operations` with the cloud workers, their consumer group and the internal handlers |
| `UsageLedger` | abstract specification: an event is charged at most once with its webhook rows, and settled rows stay settled |
| `UsageDelivery` | event outbox, dispatcher, `recordEvent`, live subscribers, webhook dispatcher; implements `UsageLedger` |
| `Access` | tenants, users, keys, the bootstrap, tokens and `verify` |
| `Gateway` | extends `Access` with the gateway's requests and the transactions they end in |
| `MC...` | instances for TLC |
| `ClaimTransactionProofs`, `OperationsProofs`, `PrivateWorkersProofs`, `CloudWorkersProofs`, `UsageDeliveryProofs`, `GatewayProofs` | theorems and their lemmas about the module of that name |

`PrivateWorkers` and `CloudWorkers` compose the same `Operations` with one kind of
worker each. What passes from there to `UsageDelivery` is a set of event keys, at
any time: `InsertEvent` is the outbox's, `Emit` a cloud worker's.

### ClaimTransaction

`status` is the column, `pc`, `target` and `running` the local state of each
claim being served. PostgreSQL's locks are read off the program counters, since
a lock is held until its transaction ends. Another writer waits for the row's
lock and tests its WHERE clause afterwards, which is what READ COMMITTED does;
it takes effect at its commit. `Rollback` stands for a failing statement and for
an UPDATE that meets no row. The foreign key of a new row needs a share lock on
the tenant, so `Insert` waits for a claim's tenant lock.

### Operations

`row` holds status, attempt, lease owner and whether the lease has expired
(`lease_expires_at` in the past). `event_outbox` is the set of event keys, so
adding a known key changes nothing, as `ON CONFLICT DO NOTHING`. `workflow` maps
every workflow ID ever used to its stage; `starting` holds the IDs whose row is
committed and whose `RunWorkflow` is still to be called. The gap is where a crash
leaves a row behind. `admitted` is a create between its checks and its INSERT,
`reaping` the rows of the reaper's scan.

| Action | Code |
|---|---|
| `Admit`, `Insert` | create: the checks, then the INSERT (a second request with the key returns the row) |
| `StartWorkflow`, `StartFails` | `dbos.RunWorkflow`, called from create, redrive, workerFail and the reaper |
| `EnqueueUpdate`, `EnqueueSelect`, `EnqueuePublish`, `EnqueueCheckpoint`, `EnqueueFails` | the statements of `enqueueOperationStep`, and the step's result |
| `Cancel`, `Redrive` | the handlers; their one UPDATE |
| `ClaimOperation` | `claimOperation` as one step, justified by `ClaimTransaction` |
| `LeaseExpires` | time |
| `ReaperScan`, `Reap`, `ReapFails` | `reapExpiredLeaseBatch`: the SELECT, then one row at a time |
| `ServiceCrash` | what the process holds is lost; DBOS runs unfinished workflows again |

### PrivateWorkers

`cursor` is the tenant's Redis key as an index of the stream, `agent` a worker
with the poll it waits for, `calls` the reports under way. A report carries the
attempt it is about only in the model, for the properties; the request does not.
`Poll...` are the statements of `workerPoll`, `WorkerFailRead` and
`WorkerFailCommit` the SELECT and the transaction of `workerFail`. `CallTimesOut`
makes a request late, `CallLost` loses it, `PollReturnLost` loses a claim's
answer, `Crash` cuts every request off. `PollStatusFails` is the status SELECT
that fails after a refused claim: it leaves an empty status, so the cursor moves
past the message (:526) and the branch for the error (:528) is not reached. `Heartbeat` is the renewal of an expired
lease: a renewal in time changes nothing the model tells apart.

### CloudWorkers

`group` is the last message the consumer group has delivered, `pending` what it
holds unacknowledged, `agent` each worker with the message in its hands, `calls`
the requests being served, `emitted` the event keys Usage got from workers, `late`
the operations whose deadline has passed. `Receive`, `RejectExpired`,
`IgnorePrivate`, `AskClaim`, `Report`, `Emit` and `Ack` are `run` and `process`
of the worker in their order; `AfterCall` is what `process` makes of an answer:
a refused claim or completion ends it without acknowledging, the answer to a
failure report is ignored. `Claim`, `Heartbeat`, `Complete`, `FailRead`,
`FailUpdate` and `FailReturn` are the handlers at `operations` 342-478; `fail`
reads the attempt in one statement and decides in the next. A request that failed
for its worker may still be served (`CallFails`) or not (`CallDropped`). A worker
that dies does not come back: the process that replaces it has another ID, and so
another consumer name, and finds nothing pending.

### UsageDelivery

`outbox` is the status column of `operations.event_outbox`, `emitted` the events a
cloud worker has posted itself, without a row there, under keys no row has, and
without looking at the answer: such an event may be lost for good. `Emit` posts it
once; what a key that is sent twice does is seen on the outbox's. `batch` and
`current` are the dispatcher's loop, `request` how far each `recordEvent` has
come: its transaction is open in `inserted` and `fanned`, so that another INSERT
of the same key waits (`KeyLocked`). `ledger` and `webhook_outbox` change at
`Commit` only. A request outlives the dispatcher's patience (`TimesOut`) or its
process (`OperationsCrash`); it then runs on or is rolled back. Requests are
alike, so a new one takes a fixed free place (`NextFree`). `inhand` are the rows a
replica has committed as IN_FLIGHT and not sent, with the attempt it has read, as
`deliver` computes the next one from that copy. `sent` counts the requests an
endpoint got and is not a column. `subscriber` are live connections with their
channel; a full one drops the event. Only one tenant is modelled: nothing crosses
tenants in these tables.

### Access and Gateway

`Bootstrap` runs one statement per step, at every start; `demo` says whether the
demo key is configured this time. `tokens` are the claims of tokens that have not
expired: they are valid whatever the tables say. A `request` goes through `authenticate`,
the clock, the counter, and, for `createTenant`, through the statements of its
transaction; a second transaction with the same slug or email waits, as for any
unique key, and `CreateTenantFails` is an error of any of its steps, which rolls
it back. `counter` holds the Redis keys with the time they expire at. `Tick`
lets a request take `MaxDelay` at most between the clock and the counter:
`EXPIRE` is ten seconds longer than the window, and `RateType` asks for no more
than that. `Offered` is what clients send, including a role header they should not.

What is abstracted: payloads, results, error texts and the AI explanation (data
no decision depends on); the target's answer (any outcome); versions, timestamps
and `transition_log` (written, never read by the code); the quota (a request may
be refused or not); delays (a workflow may run as soon as it exists, or later);
malformed messages (they are never written); webhook signatures and bodies;
passwords, hashes and signatures of tokens.

## 3. Runs

| Run | Instance | Checks |
|---|---|---|
| `claim_transaction` | 3 operations of a tenant with limit 2, 1 of a tenant with limit 1, 2 claims at once | types, `RunningWithinLimit`, `CountNotBelow`, `TargetStaysClaimable`, `ClaimEnds`, refinement of `OperationLifecycle` |
| `private_race` | 2 operations, 2 workers of one tenant, limit 1, 1 attempt | `NeverStranded`, `EventuallySettled` |
| `private_retries` | 1 operation, 2 workers, 2 attempts | `ReportsMatchLease`, `OverrunByOne`, `EventuallySettled` |
| `private_faults` | 2 operations of 2 tenants, 1 worker, 1 attempt, 1 redrive each, 1 failure | types, `LeaseIffRunning`, `EventsFollowOutcome`, refinement of `OperationLifecycle` |
| `cloud_workers` | 2 operations of one tenant, one with a deadline, 2 workers, budget 2; a private operation's message first; 1 failure, or a worker dead from the start and no failure | types, `LeaseIffRunning`, `SuccessChargedOnce`, `NeverAckedAway`, `SettledOrAbandoned`, `LifecycleSteps` |
| `usage_delivery` | 2 events, one of which a worker may post instead, 1 endpoint, 2 replicas, 1 subscriber with 1 slot, 2 requests, 2 deliveries, 1 failure | types, `KnownIsCharged`, `SentAsCounted`, `EventuallyCharged`, `WebhookSettles`, refinement of `UsageLedger` |
| `gateway` | 3 requests of 5 kinds, 3 tenants, 2 emails, limit 1, admins 2, windows of 2 and counters of 3; the clock advances, or Access restarts once | types, `WindowLimit`, `ForwardedAsGranted`, `TenantHasUser`, `GrantsAreKept` |
| `cloud_refused` | 2 cloud operations, 2 workers, limit 1, no failure | `RefusedIsRetried` is violated |
| `redrive_strands` | 1 operation, 1 worker, 2 attempts, 1 redrive | `RetryPublishedAgain` is violated |
| `stale_scan` | 1 operation, 1 worker, 2 attempts | `AttemptWithinBudget` is violated |
| `silent_dead_letter` | 1 operation, 1 worker, 1 attempt, 1 redrive | `DeadLetterRecorded` is violated |
| `late_report` | 1 operation, 1 worker, 2 attempts, 1 failure | `NoStaleOverwrite` is violated |

Bounds. `MaxRedrives` and `MaxFaults` bound redrives and failures; everything
else is bounded by the attempts. Two claims and two workers suffice for the
races, which are between two actors: one holds a lock, a count or a cursor the
other changes. The limit is stated where a claim is several statements; in the
other modules it is part of the refined lifecycle. With limit 1 and two operations the limit refuses claims; limit 2
with three operations shows that counting, not only locking, is needed. Two
attempts are the least with a retry, and the least for which a stale scan differs
from the row. One failure reaches every gap between two steps; the safety
properties over more failures are what the proofs are for. `BatchSize` 2 (50 in
the code) is more than one message, so a poll goes on after a skipped one.

`cloud_workers` starts with a private operation cancelled and its message on the
stream, so that the workers meet a message that is not theirs. In
`usage_delivery` two requests are one the dispatcher has given up and the one it
sends next, a channel of one slot (16) is full after one event, and two
deliveries (8) are the least with a retry. In `gateway` a limit of 1 and an
admin's of 2 are exceeded by three requests, and a counter that lives as long as
its window only is caught; the requests create the same tenant, two tenants with
one email, and one that the bootstrap also seeds. Requests are symmetric.
`MaxTime` and `MaxRestarts` bound the clock and the restarts, and an initial
state has either all of the time or all of the restarts used up: the counter does
not depend on Access's restarts.

`private_race` and `private_retries` have no failures and no redrives, and this
is part of what they say: the liveness properties are false otherwise (see
`redrive_strands`, and the crash between a commit and `RunWorkflow` in the
hazards).

Fairness. `ClaimTransaction`: a statement that can run is run (weak), and a
transaction waiting for a tenant's lock that is released again and again gets it
(strong; PostgreSQL queues its waiters). Failing is never required.
`PrivateWorkers`: each of the goroutines, DBOS, the reaper's ticker, each worker's
loop and the serving of reports goes on when it can (weak); a request to a target
ends, since the client has a timeout of 45 s; and a lease not renewed expires.
Submitting, cancelling, redriving and renewing are never required, nor is any
failure. The workflows share one condition, as do the reports: each of them takes
finitely many steps in these instances, so none can starve another.

`CloudWorkers` assumes the same. `UsageDelivery`: the dispatchers' tickers, the handlers
and the deliveries go on (weak); recording an event, failing, connecting and
reading a live stream are never required, so a subscriber that never reads does
not hold up a charge. One condition is shared by a replica's picking and its
deliveries, which alternate. `Gateway` and `Access` have no liveness property.

Deadlock is checked in the `private_*`, `usage_delivery` and `gateway` runs. In
`claim_transaction` and the cloud runs it is not: consumers rest when the stream
is read, and in `claim_transaction` the system may rest with every operation settled;
`ClaimEnds` states that no transaction is stuck.

What the liveness properties leave out is what the code does
leave open. `SettledOrAbandoned` excepts an operation whose deadline has passed
(its message is acknowledged without a row having changed), one whose message is
pending with nobody, and any failure. `WebhookSettles` excepts rows that a failure
has left IN_FLIGHT: nothing reads them again. `EventuallyCharged` has no
exception among the outbox's events: lost answers, lost updates and crashes only
delay a charge. What a worker posts itself is not held to it.

`EventsFollowOutcome` says what the event keys of an operation tell of it: a
success event there is exactly when the operation has SUCCEEDED, and one, of its
attempt; a dead letter that was never redriven has its event; and dead-letter
events are never more than dead letters. It does not say that each dead letter
of a redriven operation has an event of its own, which is false
(`silent_dead_letter`).

### Disagreements between code and documents

* `cloud_refused` (the log line at cmd/worker/main.go:86). A refused message is left
  "unacked for retry", and never read again: the operation stays QUEUED.

* `redrive_strands` (docs/codebase.md:323). `redrive` resets `attempt`, workflow
  IDs are made of the attempt. The second `retry:<id>:1` is one DBOS has seen, so
  the row stays RETRYING and nothing publishes it.
* `stale_scan` (docs/api.md:253, docs/codebase.md:323). The reaper's UPDATE does
  not ask for the attempt its scan saw; the budget is exceeded by one attempt.
  `OverrunByOne` shows that it is never more.
* `silent_dead_letter` (docs/codebase.md:323). The second dead letter of a redriven
  operation at the same attempt has a known event key and is not recorded.
* `late_report` (docs/codebase.md:321). The lease test knows the worker, not the
  attempt: a late report of the worker's earlier attempt moves its newer one.

## 4. Proofs

TLAPS proves what follows from the assumptions the modules name: finitely many
operations, limits above zero (the schema's CHECK), budgets from 1 to 10 (create),
model values outside the sets, and for the gateway `RateType`, which says that a
counter outlives its window by the longest delay of a request (`Window + MaxDelay
<= TTL`; the code has 60 and 70 seconds). The theorems hold for any number of
operations, tenants, workers, replicas, requests, redrives and, unless they say
otherwise, failures.

* `ClaimTransactionProofs`. `IInv` is the conjunction of types, `LocksExclusive`,
  `TargetStaysClaimable`, `CountNotBelow` and `RunningWithinLimit`. The limit
  alone is not inductive: a commit preserves it only because its count, taken
  earlier, is not below the present number, and that holds because no other claim
  of the tenant can commit in between (`LocksExclusive`) while the other writers
  only take operations out of RUNNING. `LocksExclusive`, which says what the
  guards of the lock statements establish, is no theorem of its own; the other four are,
  and so is `ClaimRefinesLifecycle`: a commit is the lifecycle's atomic claim, every other
  statement one of its moves or a stutter.
* `OperationsProofs`. Lemmas: every step of the service preserves `ServiceInv`
  (types, `LeaseIffRunning`, and that an admitted create has no row yet, without which an INSERT could overwrite a running row), and moves a
  status only along the lifecycle. The lemmas that both kinds of workers need are
  here too: what a step other than a claim may do to a row (`RowStep`), to an
  operation's budget (`BudgetOK`), and to the IDs and workflows that bring it to a
  worker (`NamesOK`, `CarryOK`).
* `PrivateWorkersProofs`. `IInv` adds the workers' types and `AgentOK`: a poll
  never looks past the stream (so its message exists) and a worker past its claim
  has an operation. From it follow `PrivateTyped`, `LeaseFollowsStatus`,
  and `PrivateRefinesLifecycle`. `OutcomesHaveEvents` is a second induction, on
  `OutcomeInv`: the property itself and that there are finitely many events, by
  which a dead letter adds at most one to their number.

  `AttemptInv` adds what a report rests on: a worker waits for at most one report,
  about what it has in hand, and what it has in hand is at the row's attempt while
  it owns the lease. That survives every failure, because giving a report up makes
  it late. `OwnersReportTheirAttempt` and `AwaitedReportsAreCurrent` follow, so a
  late report is the only one that can move a newer attempt; `ReportsAreCurrent`
  is what is left when `MaxFaults = 0`, and the run `late_report` shows that one
  failure breaks it. Until something fails it also bounds the attempts: an
  operation waits only within its budget, and where the reaper is about to retry
  one by an old scan, the attempt beyond the budget has not begun (`BudgetOK`).
  The bound of `StaleScanCostsOne` alone is not inductive: only the last part
  keeps a stale decision from queueing an operation that has overrun already.

  `CarriedInv` is why `NothingStranded` holds. An operation that is PENDING or
  RETRYING has a workflow that starts or sleeps (`CarryOK`), and the ID of that
  workflow is new: IDs are made of attempts, and those in use are of attempts
  that are over. This is where a redrive, which counts from zero again, is
  excluded. A QUEUED private operation has a message that is ahead of its tenant's
  cursor and of every poll that has read the cursor (`QueuedOK`, `AheadOK`); a
  message is passed only when it is not the tenant's own, or its operation is not
  claimable or has been claimed.
* `CloudWorkersProofs`. `IInv` is `ServiceInv` with the workers' types, that a
  worker waits for at most one call, the one about its message (`CallOK`), and
  `ChargeOK`: a success that a worker is about to emit belongs to a SUCCEEDED row,
  is nowhere emitted yet and is in no other worker's hand. `CloudChargesOnce` alone
  is not inductive, since emitting is a step after the handler's commit.
  `CloudKeepsLifecycle` needs the types only; with the initial state it is
  `CloudRefinesLifecycle`.

  Its `CarriedInv` has the same `CarryOK` and `BudgetOK`, which here rest on what a
  failure report has read being the row's attempt while its worker owns the lease
  (`ReadOK`). A QUEUED cloud operation whose deadline has not passed has a message
  that the group has not delivered, or one that is pending and whose worker, if
  it has one, has just received it or waits for the answer to its claim
  (`QueuedOK`, `Ahead`): a worker gets past the claim, on the way to XACK, only
  with the operation RUNNING. `NothingAckedAway` and `CloudStaleScanCostsOne`
  follow.
* `UsageDeliveryProofs`. `IInv` says of a request under way what its transaction
  has read and written (its event is charged, or about to be by this request
  alone), that the dispatcher waits for a request about an event of the outbox,
  of rows that their event is charged and that a row in hand is IN_FLIGHT,
  in one hand and counted, and of subscribers that what they hold is charged. From
  it follow `ChargedBeforeKnown`, `RowsSentAsCounted` and the refinement
  `DeliveryKeepsLedger`.
* `GatewayProofs`. `AccessInv` says how far the bootstrap's statements have come
  and that users, keys and tokens agree with the tenants; `RequestInv` that an
  authenticated request carries what a user or a key granted and that an open
  createTenant holds its email; `CountInv` that a window's counter was set by a
  request of that window and outlives it, and that counted requests have distinct
  numbers. The last maps the requests that passed into `1..Limit`, one to one,
  which bounds how many there are (`LimitPerWindow`); without the counter's life a
  second counter of the same window could start from one.

The theorems that speak of states before any failure say it in the property
(`faults = 0 =>`), not by an assumption on the constants, except
`ReportsAreCurrent`. `NeverStranded` and `NeverAckedAway` cannot be had beyond the
first failure: a crash between a commit and `RunWorkflow`, a failed step of the
workflow, or a failed status SELECT of a poll does strand an operation (see the
hazards).

Every invariant and every safety property of a step that a passing run checks is
a theorem. Only model-checked: the liveness properties (`ClaimEnds`,
`EventuallySettled`, `SettledOrAbandoned`, `EventuallyCharged`, `WebhookSettles`),
since fairness and ENABLED are out of the prover's reach. The five properties a
run refutes have no theorem; `OverrunByOne` and `AwaitedAreCurrent` are the
strongest statements found that hold in place of `AttemptWithinBudget` and
`NoStaleOverwrite`.

## 5. Not modelled, and the plan

Not modelled: the demo target (a counter and a switch, used by demonstrations
only), platform helpers (configuration, connections, logging), the consoles, the
gateway's `assistant` and `ready` and the AI explanations (they read and answer,
and keep nothing), password hashing and token signing, and everything that only
reads. One process of the Operations service is modelled, hence one reaper and
one event dispatcher; Usage and the gateway have replicas. Of the two demo
tenants, which are seeded alike, one is kept. A reconfigured admin email or demo
key is not modelled. Quotas are not: a submission is refused when the charges of
the month have reached the quota, but operations under way count for nothing, so
the code promises no bound that could be stated. Delays are not: nothing says how
long a backoff is, only that it may end. docs/codebase.md:462 names a unique key on
`webhook_outbox` that the migrations do not create; the model follows the
migrations, and one row per event and endpoint follows from the ledger's key.

Next:

1. Idempotency keys of concurrent and repeated submissions; both kinds of workers
   over one `Operations`; a second operations process.
2. Proofs: what redrives leave of `NeverStranded` (a redriven operation is lost
   only when an attempt number repeats), and how many messages an operation has.

The hazards without a property are listed in `PROJECT.json` with a note each.
