# Formal models of the limit management system

TLA+ specifications of the IMPS velocity-limit service under `src/src`, the TLC
configurations that check them on small instances, and proofs, checked by TLAPS, of
the properties that matter most for every instance.

The service decides whether a payment may go ahead. For each client and direction it
keeps counters of what was approved in a calendar or rolling window, compares them with
the limits the client has configured, and increments them when it approves. It runs as
several Node.js processes over one MongoDB replica set, without multi-document
transactions: everything it promises rests on single-document operations, their guards
and their order. That is what these models are about.

## 1. Inventory

| Component | Code (under `src/src`) | State | Operations |
|---|---|---|---|
| Transaction saga | `services/transaction.service.js`, `repositories/transaction.repository.js` | `transactions`: one record per client, direction and identifier, with its status and the keys it counts in | `submit`: claim, waterfall, compensate, resolve; `reverseTransaction`: flip, give back; `getStatus` (read only) |
| Counter engine | `services/counterEngine.service.js`, `repositories/counter.repository.js`, `models/counter.model.js` | `counters`: amount and count per scope and window; tier 2: shards; per process: a `HotCounterCache` of shard totals | per-transaction check, guarded increment (tier 1, rolling), soft check and increment (tier 2, sharded rolling), guarded decrement |
| Rolling windows | `models/rollingCounter.model.js` | the buckets, by hour or minute, and the running total of a `DAILY_ROLLING` document | one aggregation pipeline per increment or decrement; every write moves its TTL on |
| Stale-claim reaper | `services/staleClaimReaper.service.js` | none; a timer per process | sweep: read the stale PENDING claims, abandon each |
| Reconciliation | `services/reconciliation.service.js`, `repositories/reconciliation.repository.js` | `reconciliationQueue`: drift signals | queue a signal; drain the queue; sweep closed windows; overwrite a counter |
| Registry administration | `services/registry.service.js`, `models/registry.model.js` | `clientConfigs`: per client, the dimensions and windows of each direction, with two versions; per window its activation clock and its history of shard factors | replace the registry of one direction; bump the limits version |
| Limit definitions | `services/limitDefinition.service.js`, `models/limitDefinition.model.js` | `limits` | create, update, deactivate |
| Client administration | `services/client.service.js` | `clients`: status, enabled directions, timezone | create, rename, change status, set the enabled directions |
| Configuration cache | `services/configCache.service.js` | per process: the registry and the definitions of each client | warm at start, refresh one client, poll |
| Archival | `services/archival.service.js` | `transactionsArchive` | sweep: read old decided records, copy each, then delete it |
| Audit trail | `repositories/limitsAudit.repository.js`, `configAudit.repository.js` | append-only entries | record |
| Metrics and monitors | `services/metrics.service.js`, `clockSkew`, `replicationLag` | none that decides anything | observe, alert |
| HTTP layer | `app.js`, `server.js`, routes, controllers, middleware | none | wiring, parsing, error mapping |

How they interact. A submission reads the client's record (middleware), the cache of its
own process, then `counters` and `transactions`. The reaper and the archival sweep only
touch `transactions`. A failed floor guard of a decrement queues a drift signal; the
reconciliation reads `transactions` and overwrites `counters`. MongoDB's TTL index
deletes counters on its own. Admin calls write their collection, record an audit entry,
bump a version and refresh the cache of their own process; every process polls.

What is hard about it:

* **Interleaving.** Submissions, retries, reversals, the reaper, the reconciliation and
  the TTL index interleave at every `await`, within and across processes.
* **Partial failure.** A call may throw or die between any two operations. There is no
  log to resume from: somebody else must notice (reaper, reconciliation) or nobody does.
* **Unconfirmed writes.** A `w: majority` write can be applied and reported as failed; an
  `$inc` that is reported as a transient error is issued again, applied or not.
* **Timeouts.** The reaper takes a claim for orphaned after 60 seconds, dead or slow.
* **Stale reads.** The cache, the shard totals, the list a sweep has read, the shard
  factor a process still believes in.
* **Time.** Windows begin and end under running calls; the activation clock, the bucket
  labels, the horizon and the TTL must agree on what lies in a window.
* **Order.** Counter before record when approving; record before counter when reversing.

What makes each component correct:

* saga: every counter is the sum of what it counts; limits are never exceeded on strict
  keys; a refusal holds nothing that can be given back; a decrement misses only for a
  reason that can be told; an approval names everything it holds; the status moves
  only along its lifecycle; callers are told what is on record; every claim is decided;
  one reversal at most;
* reconciliation: a live counter is never rewritten; a counter of an open window never
  undercounts; a signal is resolved once, and is resolved; closed counters end up right, if
  a sweep can read all that are due;
* configuration: no approval without the mandatory limit, or under a mixture of two
  registries; a direction is enabled only once it was ready; the last good snapshot
  stays; every cache converges to the store;
* counter engine and rolling windows: a bucket is exactly what was recorded in it; 24
  hours never hold more than the strict limit; a soft limit is overshot only by what is
  younger than the caches; no shard is orphaned by a change of the factor that keeps its
  history; what was recorded can be given back;
* limit definitions and activation: what the API reports as effective is what the
  waterfall compares with; no edit opens a gap in an enforced window; no window is
  enforced on a part of its period as if it were whole, while it keeps its counter;
* archival: the last decision on a record stays on record, but for what a duplicate key
  costs, and a decision is found; the archived copy is the last one; old records leave the
  hot tier.

The hazards of this code, each at its line, with the properties that cover it, are listed
in `PROJECT.json`.

## 2. Modules

```
Amounts --+-- TransactionSaga -- SagaClaims -- MCSaga     (implements TransactionLedger)
          |     +-- TransactionSagaProofs -- SagaConservation
          +-- Reconciliation -- ReconciliationClaims -- MCReconciliation
          |     +-- ReconciliationProofs
          +-- CounterEngine -- CounterClaims -- MCCounter
          |     +-- CounterProofs
          +-- AmountProofs (which the proofs of the three rest on)
ConfigPlane   -- ConfigClaims  -- MCConfig
                +-- ConfigProofs
Enforcement   -- MCEnforcement
                +-- EnforcementProofs
Archival      -- MCArchival
                +-- ArchivalProofs
```

Every module on the right EXTENDS the one to its left; the `Claims` modules hold
statements of the repository's documents that the code does not keep. Every action of the
models is the code between two `await`s: one single-document database operation and the
local computation around it. What a process keeps in local variables is a record per call
with a program counter `pc`. Enforcement alone has whole calls as steps.

The modules share one system and divide it so that each can be checked: TransactionSaga
has the calls and what they hold; CounterEngine opens up one counter of it over time;
Reconciliation the counter's repair; ConfigPlane how configuration reaches a submission;
Enforcement which limit a submission meets; Archival what becomes of its record. Where one
rests on another it says so: Enforcement takes a counter for the records that name it,
which is LedgerConservation; Archival takes a decision and a reversal for one step each.

**Amounts** is the sum of the amounts of a set of records, as the number of their paise,
so that facts about sums are facts about cardinalities, which can be proved. CounterEngine
sums the buckets of a document in the same way, as the number of their units.

### TransactionSaga

`txn` is the `transactions` collection, `counter` the `counters` collection, `req` and
`rev` the calls of `submit` and `reverseTransaction`, `stale` the claims older than the
staleness threshold, `reaping` those a sweep has read, `signals` the drift signals raised.
Two variables have no counterpart in the code: `lapsed` says of each key which of the
records it counted were deleted with a document or pruned with a bucket, `retries` how many
updates were issued twice.

| Code | Actions |
|---|---|
| `submit`: direction check | `RefuseDirection` |
| `submit`: `claim()`, duplicate key, `#responseForExisting` | `Claim`, `ClaimDuplicate`, `ReplayExisting` |
| `#runWaterfall`, one check | `PerTxnCheck` (a limit that is missing fails closed), `GuardedIncrement`, `GuardedIncrementMisses`, `ReadBreach`, `SoftIncrement`, `SoftBreach` |
| `#compensateAll`, one key | `Compensate` |
| `resolve()` and its `catch` | `Resolve`, `ResolveMisses`, `ResolveThrows` |
| `StaleClaimReaperService.sweep` | `ReaperScan`, `ReaperAbandon` |
| `reverseTransaction`, `#reverseAppliedKeys` | `ReverseFlip`, `ReverseMisses`, `ReverseLookup`, `ReverseKey`, `ReverseAnswer` |
| the TTL index; `pruneBucketsStage` of a rolling update | `Expire`, `Prune` |
| faults | `Crash`, `CallThrows`, `ClaimUnconfirmed`, `ResolveUnconfirmed`, `ReverseStops`, `ReverseUnconfirmed`; `ReissueIncrement`, `ReissueCompensation`, `ReissueReversal` |

`Plan` gives the checks a record meets, in waterfall order: a per-transaction limit, which
may be missing, or a window with its key. It stands for the registry and the definitions,
which ConfigPlane and Enforcement have. `Faults` says what may go wrong: `"crash"` (the
process dies), `"throw"` (an operation fails after its retries, without effect),
`"unconfirmed"` (a write has its effect and fails), `"slow"` (a call outlives the
staleness threshold), `"retried"` (a counter update has its effect, is reported as a
transient error, and is issued again by `withTransientRetry`, at most `MaxRetries` times).

A decrement *matches* if it names a document or bucket, that is still there, and holds
enough (`Matches`). It names none where `checkAndIncrementRollingSharded` recorded no bucket
label (`ShardedRolling`), and what it names is gone if the record has lapsed there: a
reversal may come after the window was closed, or be overtaken by its end. What a `submit`
in flight has applied does not lapse (`InFlight`): a document outlives its window by five
minutes, and a bucket stays for 24 hours.

Abstractions: amounts are paise; a missing counter is a zero counter, since the bootstrap
only inserts zero documents; the metrics a rejection names are left out; a tier 2 key
allows any soft decision (CounterEngine says how far it may be off); a rolling key is a
guarded one like tier 1, of which a bucket may be pruned (CounterEngine has the buckets and
their times); thresholds, and whether a key is hot, are fixed during a behaviour; a key
stands for the documents of a window, one after the other.

**TransactionLedger** is the abstract specification: records and the keys they hold,
without calls, counters or documents. A limit is compared there with the holders
themselves. `TransactionSaga!ImplementsLedger` is the refinement: a record's holdings are
what its APPROVED record lists, what a call has applied and neither handed over nor given
back, what a reversal has yet to give back or has skipped, and what a decrement missed,
less what has lapsed. From `Stuck` keys, the sharded rolling ones, nothing is given back.

#### What the service leaves behind

A call that throws or dies in the waterfall or the compensation leaves what it had
applied in the counters. Its claim is abandoned later, but `abandon()` only sets
`needsReconciliation: true`, which nothing reads, and the record lists no keys. The same
holds for a call that finds its claim abandoned at the resolve, and for a reversal cut
short after its flip: a retry is told `alreadyReversed`. So in LedgerConservation a dead
call still *holds* its keys, and in TransactionLedger an abandoned or reversed record may
hold keys until they lapse. The direction is safe (limits bind earlier), and the window's
end is what finally forgets it, or the sweep of closed windows where it comes first.

A sharded rolling window gives nothing back, to a compensation or a reversal: each leaves a
drift signal, which is only alerted, and its amount stays counted for 24 hours. A reversal
that comes when the document or the bucket is gone leaves a signal as well, of a drift that
is none. DriftIsExplained says that these are the only failures of a floor guard.

A counter update that was applied and reported as a transient error is issued again and
counts twice. An increment counted twice costs false rejections. A decrement applied twice
takes away another record's amount: the window then lets through more than its limit, which
BRD 3.3 says never happens. LedgerConservation, StrictLimits and the refinement are false
then, and are stated without that fault.

### Reconciliation

A transaction is reduced here to one counter document and the order of its writes
(`use`, in the document `keyOf`), so that the reconciliation can be seen in detail: `window` is whether `expireAt`
has passed, `doc` the counter document, which the TTL index may delete and an increment
recreate, `signal` the queue, `worker` the runs of `processQueue` and
`sweepClosedWindows`. `#reconcileOne` is three steps (`ReadDocument`, `Derive`,
`Correct`) and `markResolved` a fourth (`Mark`). A drainer compares `expireAt` with the
time its run started (`closed`). A query with a limit and no sort returns any so many of
what it finds (`Batches`): `QueueLimit` is 200 signals in the code, `SweepLimit` 500
documents of a client. A drainer's signals leave the queue, so that a later run takes what
is left. A sweep's documents do not leave its query until the TTL index deletes them: where
more are due than it reads, it may read the same ones every time, and DriftIsRepaired asks
that in the end no more are due. `AutoCorrectOpenWindows` is the option of the service that
`app.js` never sets.

### ConfigPlane

`registry`, `definition` and `enabled` are what the store holds of one client, `cache`
the entry of each process, `load` the refreshes in flight, `call` the admin calls,
`submission` the part of `submit` that depends on the configuration. A refresh is two
reads in either order and an install; refreshes of one process overlap. `replaceRegistry`
is a read, a write of the merged document, an audit entry and a refresh; a definition
call is a look-up, a write, an audit entry, a version bump and a refresh;
`setEnabledDirections` reads the client, then the registry, then per direction the
definitions. `past` is a history variable: every policy the store has held.

A policy is its set of dimensions; scopes, windows, effective dates and activation times
are Enforcement's, shard factors CounterEngine's. A definition is the mandatory Global
Per-Transaction limit of a direction. A process restart is in the model only as an initial
state (`Warmed`). `find` with several results is read as one step. A process that is not
the home of any admin call only polls; it behaves as one whose pushed refreshes all fail,
which the fault `"refresh"` allows, so one process is enough to see both.

### CounterEngine

One logical counter, of one of three kinds: a sharded calendar window (`tier2`), the
strict 24 hour window (`rolling`), the sharded one (`rolling-sharded`). `clock` counts
ticks. `docs` are its documents by base key and shard, each with its buckets by label and
`expireAt`; `entry` is the window's entry in the stored registry, with its history of
shard factors and its granularity; `dropped` whether that history was dropped, as by a
registry that gives no factor; `snapshot` what each process has of that; `cache` the
`HotCounterCache` of each process; `call` the calls.

| Code | Actions |
|---|---|
| `checkAndIncrement` entered, with a time taken at arrival | `Enter` |
| `checkAndIncrementRolling`: prune, sum, guard, merge in one pipeline | `RollingUpdate` |
| `HotCounterCache`, `getTotal`, `getRollingTotal` | `CachedTotal`, `AskForTotal`, `SumShards` |
| `incrementShardUnconditional`, the sharded rolling pipeline | `IncrementShard` |
| `compensateTier1`, `compensateRolling`, by the saga or a reversal | `GiveBack` |
| `resolveShardFactorHistory`, with its history or without, a new granularity; a refresh | `ChangeWindow`, `Install` |
| the clock; the TTL index | `Tick`, `Expire` |

Labels are numbers in the order in which the code compares the strings: an hour's label
comes before those of its minutes. Four constants stand for delays the code does not bound
by itself: `Slow` (how long after its arrival a call may still increment; at most `Grace`,
the five minutes a document outlives its window), `Poll` (how far a registry snapshot lags
behind), `Refresh` (`refreshIntervalMs`, which is never 0) and `Grace`. Tick refuses to go
further than they allow; `Poll`, `Slow` and an hour together are within the 24 hours, where
a process polls every two seconds and a call takes seconds. A `find` over several shards is one step, the process a call runs in is chosen
as it enters, and an update is applied once (TransactionSaga has those that are re-issued).

### Enforcement

One dimension beside GLOBAL, in one direction. `shape` is its list of attributes and `hot`
whether it is hot: each combination of the two has counters of its own (`Counter`). `windows` holds for each type of window its
entry in the registry with `declaredAt`, `boundaryAt` and `warming`, `definitions` the
`limits` collection in the order the cache has it, `records` the APPROVED transactions with
the counters they name. `Replace` is `replaceRegistry` with `resolveActivationTiming`, which
lets the clocks of declared windows go on though `shape` or `hot` moves them to other counters;
`Create`, `Update`, `Deactivate` are the three calls on definitions; `Approve` is a
`submit` that approves; `Tick` the clock. `Consulted` is `findApplicableDefinition` under
the conditions of the waterfall, `Effective` is `evaluateEffectiveness`: two pieces of code
that should agree. `covered` is a history variable: since when, without a break and in the same
counter, a limit has applied to a customer in a window, since nothing is counted where no
limit applies.

Attribute maps are reduced to two shapes of attribute lists: a scope is a shape and a
customer, and matches if the dimension is over that shape. Every transaction is worth 1. A
hot window reads a total that may be as small as its cache is old, here down to nothing.

### Archival

`hot` and `archive` are the two collections, `old` the hot records past the retention
cutoff, `sweep` what each sweep has read and copied, `lookup` the calls of `getStatus`,
`claims` the number of claims of an identifier, which tells a record from an earlier one
of the same identifier. `Scan`, `Copy`, `Delete` are `findTerminalOlderThan`,
`insertArchived` and `deleteArchived`; `SweepStops` a process that dies or an operation
that throws; `Claim`, `Decide`, `Reverse` what a submission, the reaper and a reversal do to
the hot tier; `Look`, `LookHot`, `LookArchive` the two reads of `getStatus`. `last` and
`touched` are history: a record as it last was, and whether it was written to while a copy
of it was on its way. DecisionsStay is about the decision `last` has, not about the
identifier: where it is in neither tier, the archive has the one it superseded.

## 3. Runs

All bounds are in the `.cfg` files and the MC modules; no state constraint is used, and
every counter is bounded by the finite sets of calls. Deadlock is not checked: a finite
set of calls comes to its end.

| Run | Question | Properties | Instance |
|---|---|---|---|
| SagaFaults | do safety and the refinement hold when processes die, calls are retried, reversals race and documents go? | TypeOK, LedgerConservation, StrictLimits, DriftIsExplained, ReplyMatchesRecord, OneReversal, ImplementsLedger | 2 records, 3 submissions (1 retry), 2 reversals of one record (both pairs symmetric), a strict and a sharded rolling counter; crashes, expiry, pruning |
| SagaLive | with operations that throw, slow calls, unconfirmed and re-issued writes, is every claim decided, does every call end and is nothing forgotten? | ApprovedInFull, StatusLifecycle, ClaimsAreDecided, SubmitsEnd, ReversalsEnd | 2 records, 2 submissions, 1 reversal, a sharded and a strict calendar counter, 1 re-issued update, a plan that fails closed half way |
| ReconcileSafe | do the drainers of several processes leave live counters and resolutions alone? | LiveCounterUntouched, ResolutionsStand | 2 transactions, a flat and a rolling document, 2 drainers (symmetric) of 1 signal a run; operations that throw, unconfirmed writes, runs that stop |
| ReconcileLive | is everything that drifts repaired, and everything signalled resolved? | TypeOK, NeverUndercounts, SignalsAreResolved, DriftIsRepaired | 2 transactions, 2 flat documents, 1 drainer of 1 signal a run, 1 sweep of 1 document a run, crashes and TTL deletion |
| ConfigServing | is every approval governed by one registry and the mandatory limit while admins work, and do caches converge? | TypeOK, ApprovedIsGoverned, OneRegistryApplied, EnabledWasReady, LastGoodStays, CachesConverge | 1 process, 2 admin calls of 6 kinds, 1 poll, 1 submission |
| Counters | are the documents exact, the limits kept and the overshoot bounded over time? | TypeOK, BucketsExact, RollingStrict, ShardsCovered, OvershootIsBounded, BucketIsGivenBack | 3 kinds, 2 processes, 2 or 3 calls, 24 hours = 4 ticks, a clock to 6, 1 change of the registry, which may drop the history |
| Archive | do decisions survive overlapping and broken sweeps, and are they found? | TypeOK, LookupsFind, ArchiveIsLast, DecisionsStay, OldRecordsLeave | 2 records (1 claimed twice), 2 sweeps of batch 1, 1 stop, 1 lookup |
| Limits | is the limit a transaction meets the one that is reported, without gaps and over whole periods? | TypeOK, ConsultedIsReported, ReportedIsConsulted, WholeWindows, EnforcementStands | 2 shapes, 2 customers, 5 policies (one of them hot), 4 definitions, 2 updates, 4 edits, 1 record, two months of 2 days |

Four runs check a statement of the repository that the code does not keep; TLC finds the
counterexample:

| Run | Statement | What happens |
|---|---|---|
| ClaimOverApproval | BRD 3.3: "The error direction is always toward rejection, never over-approval" | The resolve is applied and reported as failed. `submit` gives back every counter, its SYSTEM_FAILURE write matches nothing, and an APPROVED record is counted nowhere; the next one takes its room. |
| ClaimRepair | STORY-05-02: "the closed-window counter is corrected to the value derived from the transaction records" | The sweep derives its total, a call that spans the boundary writes APPROVED, and the sweep overwrites a counter that was right. |
| ClaimCarries | STORY-08-03: "replacing one direction never disturbs the other direction's already-loaded snapshot" | Two replacements read the same document; the second write restores the old registry of the direction the first replaced. |
| ClaimHotUndo | STORY-03-04: "the specific recorded bucket is decremented and the summed total reduces correctly" | `checkAndIncrementRollingSharded` returns no `bucketLabel`; the decrement asks for `buckets.undefined` and matches nothing, though the bucket is there. |

**Why the bounds are enough.** *Saga.* Two records with amounts 2 and 1 meet in a counter
with room for either and not both by amount, and in one whose check is soft, in opposite
orders: the smallest instance in which a check passes alone, fails in company, and a later
check fails after an earlier one was incremented, be it one that can be given back or not. A
retry is a second call on the same record; two reversals race. The reaper needs one claim.
SagaFaults has both counters rolling, so that either may lose a bucket or a document; a
crash leaves a call where an exception does, so it has no operation that throws. SagaLive
has those, and calendar windows; it leaves out the retry of a submission, which takes no
part in what decides a claim. One re-issued update is enough for a counter to be wrong at
every later step. *Reconciliation.* Two transactions of one document let one
hide behind the amount of the other, and two drainers meet at one signal. A document of an
open window drifts only by an unconfirmed resolve, so ReconcileSafe has that fault;
NeverUndercounts is false with it (ClaimOverApproval), so ReconcileLive has not. A limit of
one signal and one document leaves something behind whenever there are two; that one is
found to be settled does not free the place.
*ConfigPlane.* Two admin calls are the smallest race, and a poll beside a push the smallest
pair of overlapping refreshes. ConfigServing starts with a registry in place: where there is
none yet, a refresh that read before the first one was written may install "none" over it
until the next poll, which LastGoodStays excepts and section 5 tells of. *Counters.* The
limit of 3 with amounts 2, 2, 1 lets two calls fit or not as they are paired. The clock
passes the horizon, the grace and one change of window, so that a document is pruned,
expires, and is written again; two processes differ in their caches and snapshots; factors 2
and 3 go up and down, with `boundaryAt` before or after the change. *Archive.* Two sweeps
meet at one record; a batch of one makes each leave a record for a later sweep; a second
claim of an identifier meets the copy of the first. *Limits.* Four edits are enough to
declare, undeclare or make hot, and declare again with a definition in place; the month is two days, so
that a day boundary is a month boundary or is not. One approval is enough to be missed by a
counter, or to fill a limit of 1.

**Fairness**, and why the code justifies it. *TransactionSaga*: a call that has begun goes
on (promises settle, the driver times out); a PENDING claim grows older; the reaper's
interval timer fires on some process and gets to each claim it has read. Faults and new
calls are never fair. *Reconciliation*: time passes; calls that have begun go on; both
timers fire. ReconcileLive has no fault that stops a run, since a run that always fails
repairs nothing. *ConfigPlane*: the poll timer fires
and its reads return; strong fairness of `Install` says that the refreshes of a process do
not fail for ever; admin calls that have begun go on, or fail. *Archival*: each process's
sweep timer fires and its sweeps go on; they stop half way at most `MaxStops` times.
OldRecordsLeave rests on the bound on claims: an identifier claimed again and again faster
than it is swept has a young record for ever. CounterEngine and Enforcement promise nothing
that must eventually happen.

Each property of a passing run has a *mutant*: a definition in the module, named after
what it breaks, that stands for a plausible bug (a dropped guard, an overwritten list, a
refresh that empties the cache) and under which TLC finds that property violated.

## 4. Proofs

| Module | Theorem | Statement, for every value of the constants |
|---|---|---|
| TransactionSagaProofs | TypeCorrect | `Spec => []TypeOK`, under every fault; a counter never goes negative |
| | LifecycleHolds | `Spec => StatusLifecycle`, under every fault |
| | RepliesMatch, ReversalsAreUnique | `Spec => []ReplyMatchesRecord`, `[]OneReversal`, under every fault |
| SagaConservation | ApprovalsInFull | `Spec => []ApprovedInFull`, under every fault |
| | Conservation, DriftExplained, LimitsHold, RefusalsHoldNothing | `Spec => []LedgerConservation`, `[]DriftIsExplained`, `[]StrictLimits`, `[]FailedHoldsNothing`, given `Reliable` |
| | LedgerImplemented | `Spec => ImplementsLedger`, the refinement, given `Reliable` |
| CounterProofs | TypeCorrect, BucketsStayExact | `Spec => []TypeOK`, `[]BucketsExact` |
| | GivenBackWhileThere | `Spec => BucketIsGivenBack` |
| | RollingLimitHolds, NoShardIsOrphaned | `Spec => []RollingStrict`, `[]ShardsCovered` |
| | OvershootBounded | `Spec => OvershootIsBounded` |
| ReconciliationProofs | TypeCorrect | `Spec => []TypeOK`, under every fault |
| | FirstResolutionStands, RollingDocumentsStand | `Spec => ResolutionsStand`, `RollingUntouched`, under every fault |
| | LiveCountersStand | `Spec => LiveCounterUntouched`, given `~AutoCorrectOpenWindows` |
| | OpenCountersNeverUndercount | `Spec => []NeverUndercounts`, given that and no unconfirmed writes |
| ConfigProofs | TypeCorrect, ApprovalIsGoverned, OneRegistryIsApplied, EnabledDirectionsWereReady | `Spec => []TypeOK`, `[]ApprovedIsGoverned`, `[]OneRegistryApplied`, `[]EnabledWasReady` |
| | LastGoodIsKept | `Spec => LastGoodStays` |
| | ConfiguredClientsAreServed | where the registry was there before the first read, an instance that has an entry always serves one |
| ArchivalProofs | TypeCorrect, LookupsFindDecisions, ArchiveIsLastCopy | `Spec => []TypeOK`, `[]LookupsFind`, `[]ArchiveIsLast` |
| | DecisionsAreKept, CopiesGoOnly | `Spec => []DecisionsStay`, `Spec => OnlyCopiesGo` |
| EnforcementProofs | TypeCorrect, ConsultedAreReported, ReportedAreConsulted, WindowsAreWhole | `Spec => []TypeOK`, `[]ConsultedIsReported`, `[]ReportedIsConsulted`, `[]WholeWindows` |
| | EnforcementIsKept, PartialApprovalsAreFlagged | `Spec => EnforcementStands`, `PartialIsFlagged` |

FailedHoldsNothing, RollingUntouched, OnlyCopiesGo and PartialIsFlagged are proved but in no
run: each is close to a property that is in one (ImplementsLedger, LiveCounterUntouched,
DecisionsStay with ArchiveIsLast, WholeWindows).

**Assumptions.** Each module names the assumption on its constants, mostly types. Four say
more: `AmountAssumption`, that there are finitely many records of bounded amounts;
`PlanAssumption`, that a plan names a key at most once, as a registry declares a dimension
once and a dimension a window once; `ConfigPlaneAssumption`, that a registry that is there
at the start has GLOBAL in every direction it configures, as its validation demands;
`EngineAssumption`, that a call ends within the grace of its documents, that hours divide
the horizon, and that a registry change is known and a call over well before the horizon.
`Reliable` says that neither `"unconfirmed"` nor `"retried"` is in `Faults`: with
unconfirmed writes the theorems that assume it are false, which is the finding of
ClaimOverApproval, and with re-issued updates as well (section 2). Crashes, exceptions,
slow calls, expiry and pruning are allowed.

**TransactionSaga.** LedgerConservation alone is not inductive: that a counter loses
exactly what a record held needs to know that the record held it once. There are the keys
that *list* a record, which calls and records hand to one another, and those that *hold* it:
the listed ones and those of its signals, less the lapsed ones. `SagaInvariant` adds

* `StepInPlan` and `AppliedSoFar`: what a call has applied is exactly the windows of its
  plan before the current step, until it unwinds;
* `SingleOwner`: one call at most holds keys of a record, and while it does the record is
  PENDING or ABANDONED, never decided;
* `SingleReversal`: one reversal at most gives back keys of a record, and only once it is
  REVERSED;
* `LapsedLater`: nothing of a record has lapsed or missed while its checks may still count
  it, and what a call in flight has applied has not lapsed;
* DriftIsExplained itself, since a key that was missed still counts its record.

Then a step does one of four things to the ledger: it takes one key for one record, gives
one back, takes one key from the records that lapse there, or leaves all holdings as they
are. The lemmas of AmountProofs say what that does to the sums; SagaConservation shows each
action to be one of the four. The counter is the sum over a set with the record in it, so
that what a decrement asks of it is there unless the record has lapsed, which only happens
to a reversal: DriftExplained. LimitsHold needs one more invariant, that a strict counter is
within its limits (`CounterLimits`), from which the approved records, a part of its holders,
are.

That callers are told what is on record needs `SingleClaimant`, that one live call at most
works on a claim and finds it undecided unless its own last write decided it, and
`ReaperKeepsAway`, that a sweep takes a claim from no call that is in time. That a record is
reversed once needs `FlippedOnce`: the call that flipped it is alone on its way to the
answer REVERSED. None of these needs `Reliable`.

LedgerImplemented goes step by step. Under the mapping every action is a hold, a release, a
lapse, a change of one record's status or a stutter of TransactionLedger. What the ledger asks of a
hold, that the *holders* leave room, follows from the guard on the counter, because the
counter is their sum; what it asks of a decision follows from `SagaInvariant`, since an
approval lists just what its call applied and a refusal has given all of it back that can be.

**CounterEngine.** Each of its steps leaves all documents as they are, writes one, prunes
one that refused, gives one call back, or deletes one that has expired. Four invariants, each
resting on the ones before:

* `Exactness`: every bucket is the sum of the calls recorded in it. A bucket that was pruned
  or expired must not come to life again for one of its calls while another is in it, so
  what is gone is too old for any call in flight to write to (`GoneAreOld`). That rests on
  when calls were made (`InTime`), under which label they are recorded (`Labelled`), and
  how far each write has moved the document's expiry on (`ExpirySet`).
* `Strictness`: what is no longer in a rolling document has left the 24 hours
  (`GoneHaveLeft`), for which calls that still take an hourly window for one of minutes must
  not prune hours that count (`HoursAreRecent`). The sum a guard compares with is then at least
  that of the calls in every 24 hours the new one is part of: RollingLimitHolds.
* `ShardsKnown`: every document is in a shard that the stored registry has had in force, and
  what is older than a snapshot lags behind is in one of the snapshot's. The read factor is
  the largest in force, so NoShardIsOrphaned. This one and the next speak of the time before
  the history is dropped (`dropped`).
* `TotalsKnow`: a total read or cached at some time has all that was applied `Slow` and
  `Poll` before it, and a call that has passed the check fits with what it must know of.
  OvershootBounded is the step after that.

**Reconciliation.** `KeysKnown` and `ItemsKnown` make the types inductive. That a
resolution stands needs `SignalledOnce`: a signal is raised by the last step of an unwind
or a reversal, and neither is run twice. That a live counter stands needs `ClosedIsKnown`: what a run
took for closed is closed, and a closed window never opens. That an open counter does not
undercount needs `HeldIsCounted`: it holds what every call that has raised it and not yet
lowered it adds up to, on record or not; the approved ones are among these.

**ConfigPlane.** `IInv` says of every document in flight, in a cache, in a refresh, in an
admin call's hands, in a submission, that it is one the store has held (`DocumentsSeen`),
that all those with a direction have GLOBAL in it (`PastIsGoverned`), that a submission's
remaining and used dimensions together are those of one of them (`SubmissionsFollow`), and
that an enabling call has seen what it checked (`CallsProceed`, `CallsVetted`,
`Versioned`). `EntriesStay` says that the entry a submission works with does not go away.

**Archival.** `IInv` adds that what a sweep has copied is in the archive
(`CopiedIsArchived`), that a lookup that is due finds its record where it looks next
(`LookupKnows`), that a record nobody changed on its way is everywhere what it last was
(`CopiesAreLast`), and that what is copied of any other is that or something it superseded
(`CopiesAreOfRecord`).

**Enforcement.** ConsultedAreReported and ReportedAreConsulted unfold both definitions and
need only types, and that the first position of a set of them exists. WindowsAreWhole needs
`WholeInv`: a window's `boundaryAt` is the end of one of its periods (`ClocksSet`), a limit
that has covered a customer since some moment covers it now (`CoveredSince`), and every
record approved after both that moment and `boundaryAt` names the window's counter, as it is
with the present attributes and `hot` (`RecordsCounted`).

**Only model-checked.** All liveness (ClaimsAreDecided, SubmitsEnd, ReversalsEnd,
SignalsAreResolved, DriftIsRepaired, CachesConverge, OldRecordsLeave), because fairness needs
ENABLED, which this prover does not have. Every other property of a run that passes is a
theorem; what the theorems assume beyond the constants is in the table.

## 5. Other disagreements met

Seen while modelling, and kept as prose rather than as runs.

*Submissions.*

* STORY-04-02 says that after a claim is abandoned "a fresh retry of that identifier is
  accepted". ABANDONED is terminal, so it is returned verbatim to every retry
  (`transaction.service.js:234`).
* STORY-05-02 says the keys of an abandoned claim are queued for targeted reconciliation;
  nothing queues them (see "What the service leaves behind"). It also says that counter and
  records can only disagree after a crash; a slow call whose claim was abandoned leaves its
  increments without any crash, and its caller is told APPROVED while the record says
  ABANDONED.
* BRD 3.3 has all per-transaction limits checked before any counter is written; the
  waterfall takes the dimensions one after the other.
* BRD 3.4 has a reversal skip an expired counter; its decrement matches nothing there,
  which is queued as `REVERSAL_FLOOR_GUARD_FAILED`, as is that of every sharded rolling
  window, whose document is there (DriftIsExplained).
* BRD 3.3 says "The error direction is always toward rejection, never over-approval".
  `withTransientRetry` issues an `$inc` again whether or not it was applied
  (`retry.js:36`): a decrement applied twice takes away what another record holds (section
  2).
* The metrics of a rejection are read after the guarded increment missed; if the counter
  has room again by then, the rejection names none.

*Counters.*

* `src/src/services/reconciliation.service.js:5` says that a closed window stays
  reconcilable for 90 days. `expireAt` is the boundary plus five minutes, which is both when
  the sweep may look at the document and when the TTL index deletes it: a sweep every six
  hours meets few of the documents the index goes through every minute.
* BRD 3.5 has "a full nightly pass per closed window". A sweep reads 500 documents of a
  client, in no order, with no mark of what an earlier one has settled
  (`counter.repository.js:180`): DriftIsRepaired holds only if in the end no more are due.
* STORY-03-05 has a decrease of the shard factor wait for the next boundary. `boundaryAt` is
  carried forward from the window's declaration; once it has passed, a decrease takes effect
  at once. ShardsCovered holds all the same, because reads take the largest factor in force.
* Making a window hot, not hot and hot again, or undeclaring and redeclaring it, drops its
  history of factors (`registry.model.js:78`). A smaller factor is then in force at once,
  and what is in the shards beyond it is no longer summed though the window is open:
  STORY-03-05 has reads never orphan a shard. ShardsCovered and OvershootIsBounded speak of
  the time before (`dropped`); that buckets are exact and can be given back does not depend
  on it.
* A process whose snapshot is older than an increase sums fewer shards than others write to,
  until it has polled: `Poll` in OvershootIsBounded.
* A rolling window changed from hours to minutes prunes an hourly bucket when its first
  minute leaves the horizon: RollingStrict excepts those calls (`CountsFrom`).
* The `HotCounterCache` never forgets a key: its map grows by one entry per counter and day.

*Configuration.*

* A waterfall takes the registry once but asks the cache for definitions at every check, so
  that it may combine an old registry with new definitions. OneRegistryApplied and
  ApprovedIsGoverned say what holds nevertheless.
* A poll that read before an admin write may install after the refresh the write pushed, so
  that the process goes back to the old entry until its next poll; if it read before the
  client had its first registry, the process serves none until then.
* `DEPLOYMENT.md` says a change "propagates to every replica within that window, no restart
  needed". A process polls the clients it has an entry of (`configCache.service.js:70`): one
  onboarded after its start is never loaded and fails closed there until a restart.
* `replaceRegistry` writes back the `limitsVersion` it read and undoes a concurrent bump.
* An update may set both thresholds of a definition to null, an `effectiveTo` before its
  `effectiveFrom`, or a count on a per-transaction definition, all of which creating it
  refuses. A per-transaction threshold of null rejects every transaction.
* A definition can be reported effective and never be consulted: when an older one has the
  same scope, or when its scope keys are not the attributes of the dimension
  (ReportedIsConsulted says exactly when; STORY-02-05 reads as if never).
* Making a dimension hot, or no longer hot, moves its windows to other counters, which have
  nothing of the period (`transaction.service.js:379`), but a window that is declared keeps
  `boundaryAt` and stays ACTIVE (`registry.model.js:52`): for the rest of the period it lets
  through up to its limit once more, and no approval is flagged. BRD 4.3.2 has a window wait
  for its boundary just to avoid that. WholeWindows asks for the same counter since before
  the period began (`covered`).
* Nothing is counted while no definition applies. A definition created in mid-window, or a
  dimension whose attributes change, starts a counter cold, and no approval is flagged for
  it: `Steady` in WholeWindows. A rolling window becomes active at midnight although its 24
  hours reach back before its declaration, so it under-counts for up to a day, unflagged
  (BRD 4.3.2); WholeWindows is about the calendar windows only.
* The warming flag is not on a rejection by another window or by a per-transaction limit,
  and `warming: true` in a replacement is ignored for a window that is already declared.

*Archival.*

* `archival.service.js:14` calls what its two operations leave behind harmless. A reversal
  during a sweep is deleted with the hot copy and the archive keeps APPROVED; an identifier
  claimed again after its record was archived loses the later record when that is swept (the
  archive keeps the first); a sweep that read the old record may delete the PENDING claim of
  a retry. DecisionsStay names the two ways in which a decision is lost, and with
  ArchiveIsLast and OnlyCopiesGo says that nothing else goes wrong.
* A reversal of an archived record is answered NOT_FOUND: `reverseTransaction` asks the hot
  tier only.

## 6. Not modelled, and why

The HTTP layer, logging, metrics, clock skew and replication lag monitors: they decide
nothing. The audit trail: nothing reads it; that recording may fail is in ConfigPlane.
Creating, renaming and suspending clients, and changing their timezone, are single writes
that no other operation here waits for; the effect of a new timezone on open windows is left
out. Validation and error messages of the admin API, deployment and database scripts.
Elections of the replica set: decisions are read from the primary with local read concern
(`config/database.js:15`), and counters are written with `w: 1`; a failover that rolls back what was read or written
is left out. Making a key hot while records of it are under way, in
TransactionSaga: what a record lists is given back by the tier it was counted in.

## 7. State of the plan

Done, in this order: TransactionSaga with TransactionLedger and its proofs; Reconciliation;
ConfigPlane; CounterEngine; Archival; Enforcement; the proofs of Reconciliation,
ConfigPlane, Archival and Enforcement; the refinement and the remaining invariants of the
saga; the proofs of CounterEngine. What a next step would add:

* That OvershootIsBounded and RollingStrict are the soft and the strict checks that
  TransactionSaga takes for granted: an abstract counter between the two modules.
* The client's lifecycle (suspended, reactivated, another timezone) beside submissions.

To check everything by hand, in this directory: `tlc -config <run>.cfg <module>` for each
row of section 3 (`MCSaga` for Saga* and ClaimOverApproval, `MCReconciliation` for
Reconcile* and ClaimRepair, `MCConfig` for ConfigServing and ClaimCarries, `MCCounter` for
Counters and ClaimHotUndo, `MCArchival` for Archive, `MCEnforcement` for Limits), and
`tlapm` on `AmountProofs`, `TransactionSagaProofs`, `SagaConservation`, `CounterProofs`,
`ReconciliationProofs`, `ConfigProofs`, `ArchivalProofs` and `EnforcementProofs`.
