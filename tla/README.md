# TLA+ specifications of Unisense

Unisense is a metric semantic platform: it collects metadata from data sources, lets owners define metrics on it,
reviews and publishes them, answers queries, and keeps lineage, search and audit in step. The backend
(`src/backend/app`) is a FastAPI application and an arq worker that share MySQL (REPEATABLE READ) and Redis;
Neo4j, Elasticsearch and MinIO are fed from them. This directory specifies the parts of the backend whose
correctness depends on the order of events: concurrent transactions, jobs that crash, leases that expire, caches
that lag, queues that overflow, scans that stop half-way.

| File | Content |
|---|---|
| `MetricVersions.tla`, `MCMetricVersions.tla`, `MetricVersionsProofs.tla`, `MetricAnswersProofs.tla` | life of one metric, its versions and the consumers' confirmations |
| `CollectionJobs.tla`, `SourceMutex.tla`, `CollectionJobsProofs.tla` | collection jobs of one data source; the abstract mutual exclusion they implement |
| `ConflictArbitration.tla`, `MCConflictArbitration.tla`, `ConflictArbitrationProofs.tla` | conflicts between metric definitions, from detection to ruling |
| `LineageScan.tla`, `LineageScanProofs.tla` | the scan that derives lineage edges from scripts, and the life of an edge |
| `EventDelivery.tla`, `CallDuties.tla`, `EventDeliveryProofs.tla` | event bus and dead letters of one API process; the duties to its subscriber that it keeps |
| `AuditArchive.tla`, `AuditArchiveProofs.tla` | nightly move of audit records to cold storage |
| `CircuitBreaker.tla`, `CircuitBreakerProofs.tla` | circuit breakers of several workers for one dependency |
| `*.cfg` | one model-checking run each, named `<module>_<question>.cfg` |
| `PROJECT.json` | the map from definitions to source lines, runs, mutants, hazards, theorems |

An `MC` module only adds the symmetry set that its cfg needs. Definitions whose comment begins with `mutant of` are not
part of the system: each is a definition with a plausible bug, and a run with it in place must fail.

## 1. Inventory

| Component | State it keeps | Operations | What is hard | What makes it correct |
|---|---|---|---|---|
| Metric lifecycle (`services/semantic`, `tasks/semantic_tasks.py`) | `metric` row with `row_version`; `metric_version` rows; `pending_version_confirmation` rows | edit, submit, approve, reject, emergency publish, grey release (promote, recycle, rollback), deprecate, reactivate, drop and recover a source, delete, restore; confirm, reject, extend a version; accept by timeout | a compare-and-swap that only some writers use; decisions on a snapshot; a cron that answers for absent consumers | status follows the state machine; one version at a time waits; nothing takes effect without consent; nothing waits for ever |
| Collection jobs (`services/collector/{queue,tasks,worker,distributed_lock}.py`, `tasks/stale_collection_jobs.py`) | a job hash in Redis, a lock per source, an idempotency key, run rows in MySQL, the arq queue | enqueue, run with heartbeat, cancel, sweep, schedule | worker crashes, redelivery, expiring leases, four records written one after the other without conditions | jobs of a source exclude each other; COMPLETED means committed; nothing stays RUNNING |
| Audit archive (`tasks/audit_archive.py`, `tasks/lock.py`) | hot rows and the archive log in MySQL, objects in MinIO, the cron lock | read a batch, upload, delete and log | two stores without a common transaction; one cron per replica | no record is lost or moved twice; no link of the hash chain is wrong |
| Circuit breakers (`core/resilience.py`) | a local breaker per process, a shared state and a probe lock in Redis, a one-second cache | allow, record success, record failure | late outcomes, lost outcomes, cached views | cooling is shared; an open breaker keeps probing |
| Conflicts and arbitration (`services/conflict`, the checks and the gate in `services/semantic`) | conflict rows with a unique key on the active pair; one flag per metric | check, arbitrate, escalate, close, reopen, escalate what is overdue | writes that compare nothing; one flag for several conflicts; a loser that is deleted or deprecated | one active conflict per pair; an active conflict is shown, unless marking it failed; nothing stays open for ever |
| Lineage scan (`services/lineage/{dp_sync_service,repository}.py`) | watermark, run log, edge rows with a count of missed rounds | full, incremental and manual rounds; confirm or restore a stale edge | tasks that fail, rounds that are cancelled or die, two commits at the end | no edge is missed without cause; no insertion closes a cycle; edges follow the scripts in the end |
| Event bus and dead letters (`core/eventbus.py`, `core/dlq.py`) | handlers, tasks and a bounded queue in memory | publish, deliver with retries, announce, send to the dead letters, replay | failures that are swallowed, a queue at its limit, restarts | a call is made or remembered; what falls out was replayed before |
| Metric cache (`services/semantic/cache.py`) | metrics in Redis with a TTL | get, set, invalidate | invalidation before commit | no stale definition outlives the TTL |
| Notifications and escalation (`services/notify`) | notifications, delivery log | store, retry, escalate | retries, webhooks | each recipient is told once |
| Graph and search copies (`services/lineage`, `services/search`) | Neo4j graph, Elasticsearch index, retry tables | push, retry, poll | stores that are down or behind | the copies converge to MySQL |
| Governance (`services/governance`) | policies, PII reviews | decide, review | decision tables | a refused call changes nothing |
| Consumption and queries (`services/consume`, `services/query_engine`) | rate-limit counters, query plans | query, subscribe | limits at their edge | no more than the quota passes |
| Catalogues (`services/{dimension,measure_catalog,glossary,system_dict,subject_domain,...}`) | rows | create, read, update, delete | little | none beyond constraints |
| API, database access, frontend | sessions | routing, transactions | one transaction per request | commit once or roll back |

How they interact: the API calls the services inside one transaction per request. A service publishes events on
the bus, and its subscriber stores notifications. The API enqueues collection jobs, the arq worker
runs them and every cron task; both processes touch the same rows and the same Redis keys. A binding in
`services/dimension` creates a metric version; an approval asks for the conflicts of its metric, and an arbitration deletes
or deprecates a metric; the arq worker polls the scheduling platform every minute; the breakers guard the calls
to OLAP, Neo4j and Elasticsearch.

## 2. Plan

Done, in this order: `MetricVersions`, the core of the product, where most hazards are; `CollectionJobs` implementing
`SourceMutex`; `AuditArchive` and `CircuitBreaker`; `ConflictArbitration`; `EventDelivery` implementing `CallDuties`;
`LineageScan`; the proofs of the safety properties of each; and what would suffice for promises that the code breaks.

Worth doing next, in this order:

1. The copy of the edges in Neo4j (`services/lineage/service.py`, the nightly synchronisation) as a refinement of
   "the graph converges to MySQL", once deletions reach it: today the nightly job only adds, so the promise is false by
   construction and a model would show nothing new.
2. The timeout job over several metrics in one session, that is `MetricVersions` with a set of metrics.
3. The scheduler's watermark in `CollectionJobs`, the tickets of complex scripts in `LineageScan`.

`MetricCache`, planned before, is dropped: one key with a TTL, deleted before the writing transaction commits. A reader in
between caches the old definition again, and nothing but the 600 s of the TTL bounds how long it is served (the header of
`cache.py` says "< 1s"). A model of it would restate the TTL.

## 3. MetricVersions

One metric row with its version rows and answers. An operation of the service is an action with the operation's
name. Because every request is one transaction under REPEATABLE READ, an action reads a *view* and writes the current
state. A request in a slot of `Requests` has taken its view some time ago (`Begin`); the pseudo-request `Now` reads and
commits at once. The compare-and-swap on `row_version` is the set `fresh` of open requests since whose view nobody
has raised `row_version`: `Save` needs it and empties it; commits that do not raise `row_version`
(`CommitWithoutBump`) leave the others fresh, as in the code. A locked read (`SELECT .. FOR UPDATE` in
`confirm_version`) reads the current answers, not those of the view.

A definition is the number of the version that introduced it; deadlines are counted in weeks; refusals by
permission, PII, conflict or dependency checks are `Abandon`. `RetainLimit` is 50 in the code and 2 or 1 here, so that
rows are archived within the bound `MaxVersion`.

| Run | Shows | Bounds |
|---|---|---|
| `MetricVersions_race` | `AtMostOnePending`, and `VersionInv`, the invariant its proof rests on | two slots, so that two slow requests and the atomic one race; four versions, so that rows are archived |
| `MetricVersions_answers` | `NoStrandedVersion`, `ExtendedOnce`, `OnlyStaleTimeoutsOverrule` (a rejection is overruled only by a timeout job that had read the answer as missing), `EffectiveWithConsent`, `TypeOK` | two interchangeable consumers, one slot: the races are between one old snapshot and what happened since |
| `MetricVersions_life` | `LegalStatusSteps`, and `PendingIsResolved` under the fairness below | one consumer, all operations, one slot |

**Fairness.** `check_pending_version_timeouts` runs every minute, so `AutoAccept(Now, v)` is weakly fair; time passes.
No user is obliged to answer, no slow request to commit.

## 4. CollectionJobs and SourceMutex

All jobs of one source. `job[j]` is the JobStore hash, `runs[j][n]` the `collection_run` row of delivery `n`, `at[j]`
the place of the worker in `run_collection_task`: each await of the task whose effect others can see is an action.
`Faults` says which faults happen: crashes (kill -9, so no handler runs), interruptions (timeout, shutdown),
exceptions, a stall of two minutes, failing Redis calls. arq is external: it delivers a job again when its worker died
or was shut down. Time is in the guards: a delivery lasts at most 1800 s and the sweeper looks for 3600 s, so a job
that is being executed is never stale, except for a QUEUED hash that waited long before its delivery.

| Run | Shows | Bounds |
|---|---|---|
| `CollectionJobs_lease` | `Exclusion`, and that the module implements `SourceMutex` | two jobs (one manual, one scheduled), two deliveries each |
| `CollectionJobs_stalls` | `OthersKeepTheLock` when leases do run out under live workers | the same with stalls and failing Redis |
| `CollectionJobs_records` | `CompletedIsCommitted`, `TypeOK`; with fairness `LockIsFreed`, `JobsAreResolved`, `RunsAreResolved` | one job, two deliveries, every party; every fault but stalls, so that only the lease of an owner that is gone runs out |

Two deliveries are enough for an old and a new run of one job, and two jobs for a conflict about the lock. Deadlock
is not checked: finished jobs stop.

`Exclusion` is stated under `LeaseIsKept` (no stall, Redis answers). Without it the code lets two collections overlap:
the task does not look at the result of a refresh, and runs without a lock when Redis fails; the comments say so.

**Fairness.** A live worker goes on (`Work`). The TTL frees a lock whose owner is gone (`Expire`: it has died, or has ended
and its release failed); nothing obliges the lease of a live worker, which its heartbeat refreshes, to lapse: that is
`LoseLease`, a fault without fairness. The sweeper comes every 15 minutes
(`Scan`, `SweepRun`, `SweepOldRun` weakly, `SweepJob` strongly fair, since its process may die but does not always).
Redelivery, submission and cancellation are not fair.

## 5. ConflictArbitration

Conflict rows, the metrics as far as conflicts look at them, and the flag `pending_conflict`. Requests have views as in
`MetricVersions`; no write to a conflict compares what it overwrites, so the model's `Write` does not either, and only the
unique key on the active pair (`KeyIsFree`, migration 0100) refuses one. `Register`, `Redefine`, `Precheck` and
`PrecheckCode` are the four ways a check comes about; `Arbitrate`, `Escalate`, `CloseRuled`, `ForceClose` and `Reopen` are the
desk; `EscalateOverdue(Now, c)` is the daily job, which escalates conflict `c` and all older ones in one commit. `Impact` is what
a ruling does to the loser: deprecation of a published metric, soft deletion of one never in effect, nothing for a hard
conflict. `Approve` has the gate that asks for the newest active conflict; `Promote` (also the rollback of a grey release) and
`EmergencyPublish` publish without asking.

Much of this is best-effort: an exception is logged and the request goes on. With `"fail"` in `Ops` a check records its
conflict and does not mark the metric (`DetectAndMark`), a reopening does not mark it either or lets a deleted side pass
(`Reopen`, `SidesPass`), a ruling stands without its effect (`Apply`), a decision leaves the flag (`SyncFlag`), and the gate lets the
approval through (`Approve`). The history variable `unmarked` holds the conflicts left in the dark in this way.

What a check finds (the similarity of two definitions) is a choice; one finding per check, because findings are handled
one by one and alike. `Ops` selects what happens besides checks of registered metrics and decisions: candidates that
are not registered (`unknown`), duplicate codes (`code`), private data (`pii`), the review and publication of metrics
(`publish`), their end (`retire`), and swallowed failures (`fail`).

| Run | Shows | Bounds |
|---|---|---|
| `ConflictArbitration_desk` | `OpenConflictIsShown`, `TypeOK`; with fairness `OverdueIsEscalated` | two metrics, two conflicts, one request after the other; `code`, `publish`, `retire` and `fail` |
| `ConflictArbitration_race` | `OneActivePerPair`, `OnlyStaleDecisionsHide` | one slow request against the others, two interchangeable metrics, two conflicts; `unknown`, `pii` and `retire` |

Two conflicts are enough for a metric with one that is decided and one that is not, for two of one pair, and for one
that hides another. Each run has the part of `Ops` that its properties can tell apart, to stay within minutes; the theorems
cover every `Ops`. `OpenConflictIsShown` speaks of the conflicts not in `unmarked` and is checked without slow requests
because it is false with them: a decision that counted before a check recorded its conflict takes away the flag the check
has set. `OnlyStaleDecisionsHide` says that nothing else does. Deadlock is not checked in `desk`: the table may be full,
everything closed and every metric deleted.

**Fairness.** Conflicts grow old and the job of `sla_tasks.py` runs every day: `EscalateOverdue(Now, c)` is weakly fair.
That holds for a session that commits; a row that makes the job fail would take the others back, day after day.

## 6. LineageScan

`Begin` reads what a round has to do: all tasks when it is full (no watermark, a day since the last full round, or on
request), else those changed since the watermark and those that failed last. `Prefetch` reads the scripts,
`ScanTask(t, done)` is the transaction of one task, which a stop may end after the steps `done`, `AskVerdicts` and `Judge`
handle the deferred complex steps, `CloseEdges` and `CloseRun` are the two commits at the end. `TaskFails`, `JudgeFails` and
`ForceStop` roll a task back after some of its steps, whose edges stay in `seen` as in the code's `seen_pairs`; `Stop`, `Cut`,
`Abort` (an exception or the job's timeout; the retry list may be lost with it) and `Crash` are what else goes wrong; `Edit`
and `DropTask` are the platform; `ConfirmStale` and `RestoreStale` are the user at the queue of stale edges.

A script is the set of edges it derives, out of `Scripts`; edge 12 leads from table 1 to table 2. The clock of the platform
has seconds, and two changes may share one. Edges depend on each other through the search for cycles: an edge that would
close one (`Cyclic`, of what stands and of the other edges of its step) is neither stored nor seen, but noted in `skipped`
(the code's log line). `Storings` are the outcomes of storing one step after the other. The search follows active rows
and the rows just written, and passes stale ones over; edges of other channels, which it follows too, are left out.

| Run | Shows | Bounds |
|---|---|---|
| `LineageScan_rounds` | `MissedForCause`, `InsertsCloseNoCycle`, `TypeOK` (which says when an edge is stale); with fairness `EdgesFollowScripts` | two tasks, one with a simple step and one with a complex one; scripts that derive one of two edges, which close a cycle with each other, or both, or none; the threshold of the code; two upsets (changes, failures, stops, crashes, users) |

Two upsets are enough for a change that a failing round misses, or for a script that changes after a cycle was skipped;
rounds themselves are not bounded. `MissedForCause` names every cause a round may have: the script was changed after the
round had asked, the user stopped it, a verdict is out, or the edge would have closed a cycle. `EdgesFollowScripts` claims
activity of an edge that closes no cycle with what is active from some time on: of two scripts that derive A->B
and B->A, one edge stays out as long as the other stands. Cycles arise within a step and between tasks; for two steps of
one task, `InsertsCloseNoCycle` holds of the instance `Steps = {11, 12, 21}`, `Complex = {}` too (1.65 million states, not kept),
and of every other by the theorem `NoCycleWritten`.

**Fairness.** The poll task runs every minute (`Begin(FALSE)`), a round that has begun goes on (`Work`), days pass. Scans
that fail or are stopped for ever are excluded by the bound on upsets: the property is claimed of scripts that stay as
they are from some time on.

## 7. EventDelivery

One API process. What is followed is a *call*, the duty to call the subscriber once for an event: publishing makes one,
and so does an announcement that fails, whose letter calls the subscriber when it is replayed. `Return` and `Raise` are
the outcome of an attempt, `SendToDlq` appends to the bounded queue and may drop its oldest letter, `Take`, `Replay` and
`Replayed` are the replay loop, interleaved with everything else because it awaits between them. `Restart` forgets all: nothing
restores the letters.

| Run | Shows | Bounds |
|---|---|---|
| `EventDelivery_bus` | `EveryCallIsAccounted`, `ImplementsDuties`, `TypeOK`; with fairness `EveryCallReturns` | two events, hence four calls; queue of three, so that it overflows; batches of two, so that letters fall out under the loop; two attempts; all faults |

`CallDuties` is the abstract specification: a set of calls that are due, from which a call goes when its subscriber has
returned, when it makes room for another while more calls are due than the queue has places (`Yield`), or when the process
restarts. `ImplementsDuties` says that the bus is no worse: a call never returns twice, and neither letters that have been
replayed nor a second letter of one call ever cost another its place. `Due` is the refinement mapping. Replayed letters
stay in the queue, so this depends on the order in which they are taken: `ReplayedFallFirst`.

**Fairness.** Tasks and the loop go on, and a subscriber that is called again and again returns at last (strong
fairness of `Return`). Without the last, a call would be replayed for ever.

**Replays that fail.** The comments on `_skip_dlq` (`eventbus.py:78`, `dlq.py:270`), the status EXHAUSTED and the loop guard of
`test_dlq.py` suggest that a call whose replay fails returns to no queue and is given up after five replays. The code
never gets there: `publish` starts the handlers as tasks and returns before one of them fails, so the replay counts as
done, and the failing task sends a new letter with a new count. The tests mock a `publish` that raises. The model follows
the code: that a failing call comes back again and again is why `EveryCallReturns` holds.

## 8. AuditArchive

Replicas that run `audit_archive_task` under the lock of `tasks/lock.py`. The hash of a file is the set of records
in it; the key of an object is the second at which the run began, as in the code. An upload may have replaced the
object when it reports a failure. One transaction deletes the rows and writes the log. The lookup of the last hash may
fail (fault `database`); the failure is swallowed, and the batch is archived as a success without predecessor (`PrevHashes`).

| Run | Shows | Bounds |
|---|---|---|
| `AuditArchive_nights` | `OneRunner`, `MovedOnce`, `LinksAreTrue`, `ColdBeforeHotLeaves`, `TypeOK`; with fairness `BacklogIsArchived` | two replicas, three records, batches of one, two batches per run, so one run is not enough; two seconds, so that runs share one or do not; one failed upload, so that it lies between two successes; all faults |

**Fairness.** The cron fires every night on every replica (`Begin`, strongly: at times the lock is taken), the lock's TTL
runs out (`Expire`), and a step that is reached night after night succeeds in the end (strong fairness of `Read`, `Upload`,
`Commit`): crashes and failures may come again and again, but not every time.

## 9. CircuitBreaker

`allow`, `record_success` and `record_failure` do not await: each is one action (`allow` one per outcome). The call in
between is not, so its outcome meets whatever breaker there is. Time is in ticks of the cache's second: a cached view
lives on into the next tick and is gone before or with the one after it. Timers count down. Calls of the store by a
worker in `CutOff` may fail: a load then stops nobody (`AdmitBlind`), a probe goes without the lock (`AdmitProbeBlind`), a
save or a release may or may not have happened (`SaveFails`, `ReleaseProbeLock`). A worker in `Restarting` may start anew,
closed. A worker that never had a store behaves like one that is alone.

| Run | Shows | Bounds |
|---|---|---|
| `CircuitBreaker_cluster` | `CoolingIsShared`, `OpensWhenDue`, `NeverStuck`, `TypeOK` | two workers, one of them restarted and cut off at times; threshold two, a window of two outcomes that tolerates no failure, a reset of three ticks, a probe timeout of four, two calls in flight per worker |

Two calls per worker let the outcome of an older one arrive during a probe. A reset of three ticks is the least in which
a view cached before the opening can be gone (a second spans two ticks) while the cooldown still lasts. In a window of
two outcomes without tolerance, a success and a failure are enough for the error rate to open the breaker before the
threshold does. One worker with faults suffices: the other sees what they leave in the store, and the two meet
symmetrically otherwise.

**Fairness.** Only time passes; nothing is assumed of calls.

## 10. What the code says and does not keep

The last section of a module states what comments and docstrings promise and the code does not keep; TLC refutes each of
these properties. To see the counterexample, take the cfg named here, write `SPECIFICATION Spec`, and replace its property
lines by one `INVARIANT` or `PROPERTY` line for the definition (and change a bound where noted).

| Definition | What happens | cfg |
|---|---|---|
| `PublishedHasEffective` | `promote_metric` publishes a metric under review, without an effective version | `MetricVersions_life` |
| `ConsumersConsulted` | `promote_metric` on a published metric marks the pending version PUBLISHED unasked | `MetricVersions_life` |
| `VersionNeverRegresses` | a pending version is promoted over a higher one that took effect at once | `MetricVersions_life`, `MaxVersion = 3` |
| `EffectiveNotCancelled` | a rejection after the promotion cancels the version in force | `MetricVersions_life` |
| `NextVersionFree` | after a rollback, or a rejected dimension binding, the next number is taken | `MetricVersions_life` |
| `DefinitionMatchesEffective` | approving a metric whose source was dropped makes a pending version effective without its definition | `MetricVersions_life` |
| `PublishedIsNotDeleted` | the soft delete does not look at `row_version` | `MetricVersions_life` |
| `SunsetIsReversible` | neither `reactivate_metric` nor `restore_metric` accepts what the sunset job has archived | `MetricVersions_life` |
| `RetiredIsFrozen` | `confirm_version` promotes a version of a deprecated metric, which `auto_accept_timeout` refuses | `MetricVersions_life` |
| `RejectedNeverTakesEffect` | the timeout job answers for a consumer who has rejected meanwhile, and the cancelled version takes effect | `MetricVersions_answers` |
| `RejectionIsFinal` | the timeout job overrules a rejection it has not seen, and a confirmation may follow | `MetricVersions_answers` |
| `CancelledIsFinal` | the progress of the worker overwrites the cancellation | `CollectionJobs_records` |
| `CompletedIsNotCancelled` | `cancel` writes what it decided ten seconds earlier | `CollectionJobs_records` |
| `SweepSparesLiveJobs` | the sweeper fails a job that has started since it was read as stale | `CollectionJobs_records` |
| `OneActivePerSides` | two metrics have an active conflict in each direction: the key of migration 0100 keeps their order | `ConflictArbitration_desk` |
| `FlagIsBacked` | the flag of the existing side of a conflict is set by a check and never taken away by a decision; private data flags without a record | `ConflictArbitration_desk` |
| `EveryConflictIsShown` | marking the metric failed, the failure was swallowed, and the conflict stays | `ConflictArbitration_desk` |
| `HardConflictBlocks` | an older hard conflict hides behind a newer soft one; the gate is open when its query fails; `promote_metric` and the emergency publication have no gate | `ConflictArbitration_desk` |
| `LineageIsAcyclic` | the search for cycles passes stale rows over, and `mark_seen` and `restore_stale` bring them back without a search | `LineageScan_rounds`, `MaxTurns = 3` |
| `StoppedScanKeepsWatermark` | after the last task nobody looks at `cancel_event`, and the steps left out count as scanned | `LineageScan_rounds` |
| `LettersSurviveRestart` | the copy of the letters in Redis is written, and nothing reads it | `EventDelivery_bus` |
| `ChainUnbroken` | the lookup of the last hash failed, and the batch is archived without predecessor | `AuditArchive_nights` |
| `NothingLost` | a later batch of the run replaces the only copy of an earlier one: all batches share one key | `AuditArchive_nights` |
| `HashesMatch` | the log entry of an earlier batch states the hash of a replaced object | `AuditArchive_nights` |
| `OnlyProbesPass` | closed peers pass calls as soon as the cooldown is over | `CircuitBreaker_cluster` |
| `OneProber` | a success of an older call deletes the probe lock of another worker, or a worker that cannot reach the store probes without it | `CircuitBreaker_cluster` |
| `SuccessResets` | the window of outcomes survives the recovery and opens the breaker again | `CircuitBreaker_cluster` |

For some of them the proofs say what would suffice, and with it that nothing else in the model breaks them (section 11):
a compare-and-swap in the soft deletes (`PublishedIsNotDeleted`), a look at the status or the version row before a
promotion, a rejection or an edit (`PublishedHasEffective`, `ConsumersConsulted`, `EffectiveNotCancelled`, `RetiredIsFrozen`,
`VersionNeverRegresses`), locks on what the timeout job and the rollback read
(`RejectedNeverTakesEffect`), lookups of the last hash that succeed (`ChainUnbroken`), a key of its own for every uploaded batch (`NothingLost`, `HashesMatch`), a probe lock that only its
prober gives back (`OneProber`). Likewise for `OpenConflictIsShown`, which holds as long as requests follow one another: no
decision on an old snapshot.

Seen while reading, and either outside the models or allowed by them without a property of its own:

- *Conflicts.* A candidate that is not registered has no id, so two of them share the key `:b` and the second conflict
  is skipped without a word. Nothing guards a decision against another one: two arbitrations with opposite winners
  both take effect, the daily job escalates what has been ruled, and a loser that was published meanwhile is
  soft-deleted. `restore_metric` leaves `successor_code`. In `auto_escalate_overdue` the rollback for one item undoes the
  others. `tasks/conflict_tasks.py` is not registered with the worker.
- *Events.* `restore_from_redis` and `drain` have no caller, and the text that `lrem` looks for is never the one stored.
  The arq worker has no replay loop, so its dead letters wait for nothing. `handle_business_event` swallows its exceptions:
  a notification that was not stored counts as delivered. Events are published before the transaction commits, so a
  rollback leaves a notification of what did not happen.
- *Lineage.* A cancelled round forgets the retries of the one before it, and a crash between the two closing commits loses
  the list of failed tasks, as does a round that ends in an exception and cannot update its run log; the daily full round
  heals all of them. Once both edges of a cycle are active, each is skipped in every round because of the other, so both
  are missed, go stale and come back when they are seen again. Rows changed in the very second of the watermark are found
  by the next full round only. An edge whose round died before it was marked as seen, and whose task was then dropped,
  never becomes stale. The comment that a full round skips nothing does not hold for `step_max`.
- *Copies.* The clean-up of a deleted metric has no graph to clean, and the nightly synchronisation to Neo4j only adds.
- *Breakers.* `opened_at` is a monotonic clock, which workers of one host share and replicas on other hosts do not; the
  model is of one host.

## 11. What is proved

Every safety property of the runs is a theorem of the specification, for all values of the constants that the `ASSUME`s
admit. Two have a hypothesis, the one under which their run checks them: `ImplementsMutex` that leases are kept,
`OpenConflictIsShown` that requests follow one another.
Each proof module has the same shape: facts about the operators; the type invariant; an inductive invariant, made of named
conjuncts, that says *why* the property holds; one step per action.

| Theorem | Property | The invariant behind it |
|---|---|---|
| `MetricVersionsProofs!OnePending` | `AtMostOnePending` | Two requests that both saw no pending version must not both insert one. `VersionInv` says why: numbers have no gaps, and an open request that did not see row `v` saw none above it, so the number it inserts is the first it did not see, and if anything was inserted since, the unique key refuses it. |
| `MetricVersionsProofs!VersionsConsistent` | `VersionInv` | itself inductive, with `TypeOK` |
| `MetricAnswersProofs!PutOffOnce` | `ExtendedOnce` | a deadline that was put off is at most a week later |
| `MetricAnswersProofs!StatusIsLegal` | `LegalStatusSteps` | `FreshInv`: a request whose `row_version` is current has read the current status and version number |
| `MetricAnswersProofs!NobodyStranded`, `Consent` | `NoStrandedVersion`, `EffectiveWithConsent` | `AnswersInv`: a pending version has someone who has not answered and nobody who rejected; `Recalls`: what open requests remember of answers stays true, because nobody is asked twice about one version |
| `MetricAnswersProofs!RejectionStands` | `OnlyStaleTimeoutsOverrule` | `AnswersInv`, with the locked read of the answers: who confirms, rejects or extends has read the rejection and leaves it |
| `CollectionJobsProofs!MutualExclusion` | `Exclusion` | `LeaseHeld`: while leases are kept, whoever executes has the lock, since a crashed job is delivered again only when its lock is gone |
| `CollectionJobsProofs!Implementation` | `ImplementsMutex` | the same; `Start` enters, `Leave` and `Crash` leave, everything else stutters |
| `CollectionJobsProofs!NothingCompletedUncommitted` | `CompletedIsCommitted` | the worker is past its commit wherever it may still write COMPLETED |
| `CollectionJobsProofs!LockIsRespected` | `OthersKeepTheLock` | types suffice: acquisition and release compare the owner |
| `ConflictArbitrationProofs!OneConflictPerPair` | `OneActivePerPair` | `KeyInv`: active conflicts with the same key are the same |
| `ConflictArbitrationProofs!HiddenByStaleDecisions` | `OnlyStaleDecisionsHide` | rows keep their two sides, and a decision that has seen an active conflict of its candidate keeps the flag |
| `ConflictArbitrationProofs!ShownInTurn` (`Requests = {}`) | `OpenConflictIsShown` | `ShownInv`: of every active conflict that marking has not failed for, the metrics carry the flag, also those that are deleted and may come back |
| `LineageScanProofs!MissesHaveCauses` | `MissedForCause` | `FoundInv`: every simple script the round has read belongs to a task still to do, to one that failed, or each of its edges has been seen or was skipped as closing a cycle |
| `LineageScanProofs!NoCycleWritten` | `InsertsCloseNoCycle` | none: `StoredClosesNoCycle` says of one transaction that a cycle that appears passes through an edge of the last step that stored anything on it (`CycleThroughNew`), and the search of that step had all of it before its eyes |
| `EventDeliveryProofs!ReplayedGoFirst` | `ReplayedFallFirst` | `Ordered`: replayed letters are the oldest, and the batch refers to letters by their place |
| `EventDeliveryProofs!CallsAccounted` | `EveryCallIsAccounted` | `Account`: no two letters of a call wait together, no call waits in two kinds of places, and it waits if and only if it is due. Nothing is counted: letters that move up are renamed, and cardinalities appear only in the last step. |
| `EventDeliveryProofs!Implementation` | `ImplementsDuties` | the same, with `Ordered`: in a full queue that gives up a letter still to be replayed, all letters are still to be replayed and are of different calls, none of them the one that comes in, so more calls are due than there are places |
| `AuditArchiveProofs!MutualExclusion` | `OneRunner` | a runner has the lock; the TTL is longer than a run |
| `AuditArchiveProofs!NothingMovedTwice`, `LinksHold`, `ColdFirst` | `MovedOnce`, `LinksAreTrue`, `ColdBeforeHotLeaves` | `RunInv`: what the runner has read of the log is still true, because of the lock; `MovedInv`: what a successful archive contains is no longer hot |
| `CircuitBreakerProofs!CoolingRespected` | `CoolingIsShared` | `ViewInv`: a cached view that the store has outrun is of the last second |
| `CircuitBreakerProofs!OpensOnlyWhenDue` | `OpensWhenDue` | `ProbeInv`: a breaker that waits for a probe is open |

These theorems say what suffices for promises that the code breaks. Each hypothesis is a condition on steps that
rules out one fault and leaves the others of the model possible; TLC finds the properties violated without it and the
invariants kept with it.

| Theorem | Promise | Hypothesis | Invariant |
|---|---|---|---|
| `MetricAnswersProofs!DeletionNeedsCas` | `PublishedIsNotDeleted` | `DeletesAreSaved`: a transaction that deletes or restores commits only if `row_version` is what it read | `DeletedInv`, on top of `FreshInv` |
| `MetricAnswersProofs!RejectionNeedsLocks` | `RejectedNeverTakesEffect` | `ReadsAreLocked`: the timeout job reads current answers, the rollback current rows | `CancelledInv`: a cancelled version has a rejection, which nothing takes back |
| `MetricAnswersProofs!EffectiveNeedsGray`, `ConsultationNeedsGray` | `PublishedHasEffective`, `ConsumersConsulted` | `OnlyGrayIsPromoted`: `promote_metric` refuses what it has not read as a grey release | `EffectiveInv`, with `FreshInv`; `AnswersInv` for the consultation |
| `MetricAnswersProofs!ForceNeedsTimelyCancels` | `EffectiveNotCancelled` | `CancelsAreInTime`: a version is cancelled only while it waits | `SettledInv`: what a request has seen settled is settled, so a rollback chooses well |
| `MetricAnswersProofs!FreezeNeedsStatus` | `RetiredIsFrozen` | `ConfirmsArePublished`: `confirm_version` refuses a metric it has not read as published | `FreshInv`: who saves has read the current status |
| `MetricAnswersProofs!NumberNeedsTurns` | `VersionNeverRegresses` | `NumbersInTurn`: no new definition is edited in while a version waits, and no answer promotes one that does not wait | `TopInv`: nothing is numbered above a version that waits |
| `ConflictArbitrationProofs!ShownWhenCurrent` | `OpenConflictIsShown` with slow requests | `CommitsAreCurrent`: what is committed was decided on current tables | `ShownInv` |
| `AuditArchiveProofs!ChainNeedsLookups` | `ChainUnbroken` | `LookupsSucceed`: a batch that goes on to its upload has the last hash | `PrevInv`: whoever is going to log a success has the last hash, because of the lock |
| `AuditArchiveProofs!HashesNeedOwnKeys`, `RecordsNeedOwnKeys` | `HashesMatch`, `NothingLost` | `ObjectsAreKept`: no upload replaces an object | `StoredInv`: the object of a successful archive is what its entry says |
| `CircuitBreakerProofs!ProbersNeedOwnLocks` | `OneProber` | `LocksAreOwn`, `ProbesAreAskedFor`: a lock that has not run out is given back by its prober, and no probe goes without one | `LockInv`: the lock lasts as long as the probe |

Each module also proves `TypeCorrect`, `Spec => []TypeOK`. Assumptions are the named `ASSUME`s of the modules; TLC evaluates
them in every run.

Only model-checked: liveness (`PendingIsResolved`, `LockIsFreed`, `JobsAreResolved`, `RunsAreResolved`, `OverdueIsEscalated`,
`EdgesFollowScripts`, `EveryCallReturns`, `BacklogIsArchived`, `NeverStuck`), because the prover does not treat fairness or
ENABLED. That the properties of section 10 fail is shown by TLC alone.

## 12. What is not modelled

- Metrics: permission, PII and dependency decisions (they only refuse), mounts, imports and renaming, the cache (see the
  plan), and several metrics in one session of the timeout job.
- Collection: retries inside one delivery, run logs, the scheduler's watermark, connectors, classification.
- Conflicts: the similarity of definitions, ruling records, statistics, comments, reminders, renamed codes.
- Lineage: SQL parsing, fields, tickets, owners, manual edges and those of other channels, queries, the copy in Neo4j; the lock of the poll task opens
  when Redis is down, and two rounds then overlap.
- Events: the storing of a notification, the fallback without an event loop, `EscalationService` (no caller).
- Components without a module: catalogues (create, read, update, delete), governance (decision tables and single
  transactions), query compilation (text), rate limits and login throttle (a counter with a TTL that a second call sets),
  periodic computations whose results are overwritten (quality, health scores, dependency probes), read paths (search,
  recommendation, asset map), external models, HTTP and frontend. They have no order of events of their own that a model
  could get wrong and the code right; most of the lines of the repository are of this kind. `PROJECT.json` lists each with
  its reason, and the hazards no property covers.
