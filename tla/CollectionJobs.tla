--------------------------- MODULE CollectionJobs ---------------------------
(***************************************************************************)
(* The asynchronous collections of ONE data source: the API and the        *)
(* scheduler that enqueue them, the arq workers that run them, the user    *)
(* who cancels them, and the cron that sweeps up after crashed workers.    *)
(*                                                                         *)
(* Two records describe a collection and nothing makes them change         *)
(* together: the JobStore hash in Redis (`job`), written without any       *)
(* condition by everybody, and the collection_run rows in MySQL (`runs`),  *)
(* one per delivery of the job.  The collections of a source exclude each  *)
(* other by a Redis lock that is a lease: 120 s, refreshed every 60 s.     *)
(*                                                                         *)
(* The arq library is external: it delivers a job again when its worker    *)
(* died or was shut down.  WorkerSettings does not switch on the library's *)
(* allow_abort_jobs, so Job.abort leaves a running job alone.              *)
(*                                                                         *)
(* Abstractions.  Retries inside a delivery, progress texts, run logs,     *)
(* health status and notifications are left out.  Time is left to guards:  *)
(* a delivery lasts at most job_timeout (1800 s), a record is swept after  *)
(* 3600 s, a dead worker's job is delivered again after its lock expired.  *)
(***************************************************************************)
EXTENDS Integers, FiniteSets

CONSTANTS
  Jobs,           \* job ids of this data source
  Scheduled,      \* those of collect_scheduler; the others come from the API
  NoJob,          \* nobody
  MaxDeliveries,  \* bound: how often a job is delivered
  Parties,        \* who acts besides the workers: "user", "sweeper"
  Faults          \* which faults happen: "crash" (worker or API process),
                  \* "interrupt" (timeout, shutdown), "error" (exceptions),
                  \* "stall" (no refresh for 120 s), "redis" (calls fail)

ASSUME JobsAssumption == Scheduled \subseteq Jobs /\ NoJob \notin Jobs
ASSUME DeliveriesAssumption == MaxDeliveries \in Nat \ {0}
ASSUME PartiesAssumption == Parties \subseteq {"user", "sweeper"}
ASSUME FaultsAssumption ==
  Faults \subseteq {"crash", "interrupt", "error", "stall", "redis"}

VARIABLES
  job,         \* job[j]: status in the JobStore, "NONE" when there is no hash
  queue,       \* queue[j]: what arq knows of j
  at,          \* at[j]: where the worker that runs j is
  deliveries,  \* deliveries[j]: how often j was delivered
  runs,        \* runs[j][n]: status of the collection_run of delivery n
  committed,   \* jobs with a committed collection (catalog, watermark)
  done,        \* jobs whose idempotency key exists
  lock,        \* owner of collect_lock:<source>
  again,       \* jobs arq runs again when their delivery ends
  submitting,  \* jobs whose API request has stored QUEUED and not enqueued
  canceling,   \* jobs whose cancel request has read the JobStore
  stale,       \* jobs the sweeper has read as stale
  doomed       \* jobs whose RUNNING run the sweeper is about to fail

workerVars == <<queue, at, deliveries, again>>
dataVars == <<committed, done>>
sweepVars == <<stale, doomed>>
callerVars == <<submitting, canceling>>
vars == <<job, queue, at, deliveries, runs, committed, done, lock, again,
          submitting, canceling, stale, doomed>>

Deliveries == 1 .. MaxDeliveries
JobStates == {"NONE", "QUEUED", "RUNNING", "COMPLETED", "FAILED", "SKIPPED", "CANCELLED"}
RunStates == {"NONE", "RUNNING", "COMPLETED", "FAILED", "CANCELLED"}
QueueStates == {"NONE", "WAITING", "TAKEN", "FINISHED"}

\* where run_collection_task is: before an await of the success path, of
\* _record_task_failure, of the cancellation path, or of the finally block
Succeeding == {"locked", "collecting", "committed", "recorded", "stored"}
Failing == {"failing", "failed"}
Places == {"idle", "canceled", "leaving"} \cup Succeeding \cup Failing

Executing(j) == at[j] # "idle"

Init ==
  /\ job = [j \in Jobs |-> "NONE"]
  /\ queue = [j \in Jobs |-> "NONE"]
  /\ at = [j \in Jobs |-> "idle"]
  /\ deliveries = [j \in Jobs |-> 0]
  /\ runs = [j \in Jobs |-> [n \in Deliveries |-> "NONE"]]
  /\ committed = {}
  /\ done = {}
  /\ lock = NoJob
  /\ again = {}
  /\ submitting = {}
  /\ canceling = {}
  /\ stale = {}
  /\ doomed = {}

SetJob(j, status) == job' = [job EXCEPT ![j] = status]

MoveTo(j, place) ==
  /\ at' = [at EXCEPT ![j] = place]
  /\ UNCHANGED <<queue, deliveries, again>>

\* the update of the delivery's own run row, whatever its status: nothing
\* when start_collection_run had failed and run_id is None
SetRun(j, status) ==
  runs' = [runs EXCEPT ![j][deliveries[j]] = IF @ = "NONE" THEN "NONE" ELSE status]

-----------------------------------------------------------------------------
(* Enqueueing *)

\* ArqCollectionQueue.enqueue: the status first, the job second
Submit(j) ==
  /\ j \in Jobs \ Scheduled
  /\ job[j] = "NONE" /\ queue[j] = "NONE" /\ j \notin submitting
  /\ SetJob(j, "QUEUED")
  /\ submitting' = submitting \cup {j}
  /\ UNCHANGED <<workerVars, runs, dataVars, lock, canceling, sweepVars>>

Push(j) ==
  /\ j \in submitting
  /\ queue' = [queue EXCEPT ![j] = "WAITING"]
  /\ submitting' = submitting \ {j}
  /\ UNCHANGED <<job, at, deliveries, again, runs, dataVars, lock, canceling, sweepVars>>

\* enqueue_job raises, having had an effect or not; the hash is deleted
PushFails(j) ==
  /\ "redis" \in Faults
  /\ j \in submitting
  /\ \E reached \in {"NONE", "WAITING"} : queue' = [queue EXCEPT ![j] = reached]
  /\ SetJob(j, "NONE")
  /\ submitting' = submitting \ {j}
  /\ UNCHANGED <<at, deliveries, again, runs, dataVars, lock, canceling, sweepVars>>

\* collect_scheduler enqueues without storing QUEUED
Schedule(j) ==
  /\ j \in Scheduled
  /\ queue[j] = "NONE"
  /\ queue' = [queue EXCEPT ![j] = "WAITING"]
  /\ UNCHANGED <<job, at, deliveries, again, runs, dataVars, lock, callerVars, sweepVars>>

-----------------------------------------------------------------------------
(* run_collection_task *)

Deliverable(j) == queue[j] = "WAITING" /\ deliveries[j] < MaxDeliveries

FinishUnstarted(j) ==
  /\ queue' = [queue EXCEPT ![j] = "FINISHED"]
  /\ UNCHANGED <<at, deliveries, again>>

\* _check_idempotency: this very job has completed before
SkipCompleted(j) ==
  /\ Deliverable(j)
  /\ j \in done
  /\ FinishUnstarted(j)
  /\ UNCHANGED <<job, runs, dataVars, lock, callerVars, sweepVars>>

NoLockKey == lock = NoJob

\* CollectionLock.acquire finds another collection of the source
SkipConcurrent(j) ==
  /\ Deliverable(j)
  /\ j \notin done
  /\ ~NoLockKey
  /\ SetJob(j, "SKIPPED")
  /\ FinishUnstarted(j)
  /\ UNCHANGED <<runs, dataVars, lock, callerVars, sweepVars>>

\* SET NX EX 120; when Redis fails the task runs without a lock.  The
\* idempotency check fails open as well.
AcquireUnchecked(j) == lock' = j
Acquire(j) ==
  \/ NoLockKey /\ lock' = j
  \/ "redis" \in Faults /\ UNCHANGED lock

Start(j) ==
  /\ Deliverable(j)
  /\ (j \notin done \/ "redis" \in Faults)
  /\ Acquire(j)
  /\ queue' = [queue EXCEPT ![j] = "TAKEN"]
  /\ at' = [at EXCEPT ![j] = "locked"]
  /\ deliveries' = [deliveries EXCEPT ![j] = @ + 1]
  /\ UNCHANGED <<job, again, runs, dataVars, callerVars, sweepVars>>

\* start_collection_run, a transaction of its own; its failure is ignored
StartRun(j) ==
  /\ at[j] = "locked"
  /\ \/ runs' = [runs EXCEPT ![j][deliveries[j]] = "RUNNING"]
     \/ "error" \in Faults /\ UNCHANGED runs
  /\ MoveTo(j, "collecting")
  /\ UNCHANGED <<job, dataVars, lock, callerVars, sweepVars>>

\* the progress callback
Progress(j) ==
  /\ at[j] = "collecting"
  /\ SetJob(j, "RUNNING")
  /\ UNCHANGED <<workerVars, runs, dataVars, lock, callerVars, sweepVars>>

\* db.commit
CommitForgotten(j) ==
  /\ at[j] = "collecting"
  /\ MoveTo(j, "committed")
  /\ UNCHANGED <<job, runs, dataVars, lock, callerVars, sweepVars>>
Commit(j) ==
  /\ at[j] = "collecting"
  /\ committed' = committed \cup {j}
  /\ MoveTo(j, "committed")
  /\ UNCHANGED <<job, runs, done, lock, callerVars, sweepVars>>

\* complete_collection_run
CompleteRun(j) ==
  /\ at[j] = "committed"
  /\ SetRun(j, "COMPLETED")
  /\ MoveTo(j, "recorded")
  /\ UNCHANGED <<job, dataVars, lock, callerVars, sweepVars>>

StoreCompleted(j) ==
  /\ at[j] = "recorded"
  /\ SetJob(j, "COMPLETED")
  /\ MoveTo(j, "stored")
  /\ UNCHANGED <<runs, dataVars, lock, callerVars, sweepVars>>

\* _mark_idempotent_completed; its failure is ignored
MarkIdempotent(j) ==
  /\ at[j] = "stored"
  /\ \/ done' = done \cup {j}
     \/ "redis" \in Faults /\ UNCHANGED done
  /\ MoveTo(j, "leaving")
  /\ UNCHANGED <<job, runs, committed, lock, callerVars, sweepVars>>

\* an exception in the try block; the mark itself swallows its own
Fail(j) ==
  /\ "error" \in Faults
  /\ at[j] \in Succeeding \ {"stored"}
  /\ MoveTo(j, "failing")
  /\ UNCHANGED <<job, runs, dataVars, lock, callerVars, sweepVars>>

\* CancelledError: the timeout, or a shutdown after which arq runs the job
\* again.  The JobStore decides whether the user has asked for it.
Interrupt(j) ==
  /\ "interrupt" \in Faults
  /\ at[j] \in Succeeding
  /\ at' = [at EXCEPT ![j] = IF job[j] = "CANCELLED" THEN "canceled" ELSE "failing"]
  /\ \E shutdown \in BOOLEAN : again' = IF shutdown THEN again \cup {j} ELSE again
  /\ UNCHANGED <<job, queue, deliveries, runs, dataVars, lock, callerVars, sweepVars>>

\* cancel_collection_run; the JobStore is left CANCELLED
CancelRunMisspelled(j) ==
  /\ at[j] = "canceled"
  /\ SetRun(j, "CANCELED")
  /\ MoveTo(j, "leaving")
  /\ UNCHANGED <<job, dataVars, lock, callerVars, sweepVars>>
CancelRun(j) ==
  /\ at[j] = "canceled"
  /\ SetRun(j, "CANCELLED")
  /\ MoveTo(j, "leaving")
  /\ UNCHANGED <<job, dataVars, lock, callerVars, sweepVars>>

\* _record_task_failure: the run, then the JobStore
FailRun(j) ==
  /\ at[j] = "failing"
  /\ SetRun(j, "FAILED")
  /\ MoveTo(j, "failed")
  /\ UNCHANGED <<job, dataVars, lock, callerVars, sweepVars>>

StoreFailed(j) ==
  /\ at[j] = "failed"
  /\ SetJob(j, "FAILED")
  /\ MoveTo(j, "leaving")
  /\ UNCHANGED <<runs, dataVars, lock, callerVars, sweepVars>>

\* the Lua script deletes the key of its owner only
ReleaseUnowned(j) == NoJob
Released(j) == IF lock = j THEN NoJob ELSE lock

\* a release that fails leaves the key to its TTL
Leave(j) ==
  /\ at[j] = "leaving"
  /\ \/ lock' = Released(j)
     \/ "redis" \in Faults /\ UNCHANGED lock
  /\ at' = [at EXCEPT ![j] = "idle"]
  /\ queue' = [queue EXCEPT ![j] = IF j \in again THEN "WAITING" ELSE "FINISHED"]
  /\ again' = again \ {j}
  /\ UNCHANGED <<job, deliveries, runs, dataVars, callerVars, sweepVars>>

-----------------------------------------------------------------------------
(* Crashes, redelivery and the lease *)

\* kill -9: no handler runs
Crash(j) ==
  /\ "crash" \in Faults
  /\ Executing(j)
  /\ at' = [at EXCEPT ![j] = "idle"]
  /\ again' = again \ {j}
  /\ UNCHANGED <<job, queue, deliveries, runs, dataVars, lock, callerVars, sweepVars>>

\* arq: the in-progress marker of the dead worker has expired, later than the lock
Redeliver(j) ==
  /\ queue[j] = "TAKEN" /\ ~Executing(j)
  /\ lock # j
  /\ queue' = [queue EXCEPT ![j] = "WAITING"]
  /\ UNCHANGED <<job, at, deliveries, again, runs, dataVars, lock, callerVars, sweepVars>>

\* The TTL of 120 s runs out when nobody refreshes the lease: its owner has
\* died, or has ended and failed to release it.
OwnerIsGoneNever == FALSE
OwnerIsGone == ~NoLockKey /\ ~Executing(lock)

Expire ==
  /\ OwnerIsGone
  /\ lock' = NoJob
  /\ UNCHANGED <<job, workerVars, runs, dataVars, callerVars, sweepVars>>

\* The heartbeat of a live worker keeps the lease, unless the process or Redis
\* stalls for 120 s; the task does not look at the result of a refresh and
\* goes on.
LoseLease ==
  /\ "stall" \in Faults
  /\ ~NoLockKey /\ Executing(lock)
  /\ lock' = NoJob
  /\ UNCHANGED <<job, workerVars, runs, dataVars, callerVars, sweepVars>>

-----------------------------------------------------------------------------
(* The user cancels *)

Cancellable == {"QUEUED", "RUNNING", "SKIPPED"}

\* ArqCollectionQueue.cancel: reads, waits up to 10 s for the abort, writes
CancelRead(j) ==
  /\ job[j] \in Cancellable
  /\ canceling' = canceling \cup {j}
  /\ UNCHANGED <<job, workerVars, runs, dataVars, lock, submitting, sweepVars>>

CancelWrite(j) ==
  /\ j \in canceling
  /\ SetJob(j, "CANCELLED")
  /\ canceling' = canceling \ {j}
  /\ UNCHANGED <<workerVars, runs, dataVars, lock, submitting, sweepVars>>

-----------------------------------------------------------------------------
(* stale_collection_jobs_task *)

\* Not written for 3600 s: a queued job can wait that long, a job that is
\* being run cannot, except before its first progress.
MayBeStaleOnceStarted(j) == job[j] = "RUNNING" /\ ~Executing(j)
MayBeStale(j) == job[j] = "QUEUED" \/ (job[j] = "RUNNING" /\ ~Executing(j))

Scan(j) ==
  /\ MayBeStale(j)
  /\ stale' = stale \cup {j}
  /\ UNCHANGED <<job, workerVars, runs, dataVars, lock, callerVars, doomed>>

RunningRuns(j) == {n \in Deliveries : runs[j][n] = "RUNNING"}

\* One job after the other, each with its run (flush_run_logs commits it).
\* find_collection_run_by_job_id expects at most one RUNNING run; two make it
\* raise, which ends this sweep.
SweepJob(j) ==
  /\ j \in stale /\ doomed = {}
  /\ SetJob(j, "FAILED")
  /\ \/ /\ Cardinality(RunningRuns(j)) <= 1
        /\ stale' = stale \ {j}
        /\ doomed' = doomed \cup {<<j, n>> : n \in RunningRuns(j)}
     \/ /\ Cardinality(RunningRuns(j)) > 1
        /\ stale' = {}
        /\ UNCHANGED doomed
  /\ UNCHANGED <<workerVars, runs, dataVars, lock, callerVars>>

\* fail_collection_run of the run that was read
SweepRun(j, n) ==
  /\ <<j, n>> \in doomed
  /\ runs' = [runs EXCEPT ![j][n] = "FAILED"]
  /\ doomed' = doomed \ {<<j, n>>}
  /\ UNCHANGED <<job, workerVars, dataVars, lock, callerVars, stale>>

\* list_stale_running_runs: what the JobStore no longer shows.  A run that
\* started 3600 s ago is not being executed.
OldRunIgnored(j, n) == FALSE
OldRun(j, n) == runs[j][n] = "RUNNING" /\ ~(Executing(j) /\ deliveries[j] = n)

SweepOldRun(j, n) ==
  /\ OldRun(j, n)
  /\ runs' = [runs EXCEPT ![j][n] = "FAILED"]
  /\ UNCHANGED <<job, workerVars, dataVars, lock, callerVars, sweepVars>>

\* the sweeper's process dies between two writes
SweeperDies ==
  /\ "crash" \in Faults
  /\ stale' = {} /\ doomed' = {}
  /\ UNCHANGED <<job, workerVars, runs, dataVars, lock, callerVars>>

-----------------------------------------------------------------------------

Enqueue(j) == Submit(j) \/ Push(j) \/ PushFails(j) \/ Schedule(j)

\* what the worker that has job j does next
Work(j) ==
  \/ SkipCompleted(j) \/ SkipConcurrent(j) \/ Start(j) \/ StartRun(j)
  \/ Commit(j) \/ CompleteRun(j) \/ StoreCompleted(j) \/ MarkIdempotent(j)
  \/ CancelRun(j) \/ FailRun(j) \/ StoreFailed(j) \/ Leave(j)

Cancel(j) == CancelRead(j) \/ CancelWrite(j)

Sweep(j) ==
  \/ Scan(j) \/ SweepJob(j)
  \/ \E n \in Deliveries : SweepRun(j, n) \/ SweepOldRun(j, n)

Next ==
  \/ \E j \in Jobs :
       \/ Enqueue(j) \/ Work(j) \/ Progress(j) \/ Fail(j) \/ Interrupt(j)
       \/ Crash(j) \/ Redeliver(j)
       \/ "user" \in Parties /\ Cancel(j)
       \/ "sweeper" \in Parties /\ Sweep(j)
  \/ Expire \/ LoseLease
  \/ "sweeper" \in Parties /\ SweeperDies

Spec == Init /\ [][Next]_vars

\* A live worker goes on, the lease of one that is gone runs out, the sweeper
\* comes back every 15 minutes.  No live worker has to lose its lease.  Nobody is obliged to submit, to cancel, or to be told to; the
\* library is not obliged to deliver again.  The sweeper may die, not always.
FairSpec ==
  /\ Spec
  /\ WF_vars(Expire)
  /\ \A j \in Jobs :
       /\ WF_vars(Work(j))
       /\ WF_vars("sweeper" \in Parties /\ Scan(j))
       /\ SF_vars("sweeper" \in Parties /\ SweepJob(j))
       /\ \A n \in Deliveries :
            /\ WF_vars("sweeper" \in Parties /\ SweepRun(j, n))
            /\ WF_vars("sweeper" \in Parties /\ SweepOldRun(j, n))

-----------------------------------------------------------------------------
(* Properties *)

TypeOK ==
  /\ job \in [Jobs -> JobStates]
  /\ queue \in [Jobs -> QueueStates]
  /\ at \in [Jobs -> Places]
  /\ deliveries \in [Jobs -> 0 .. MaxDeliveries]
  /\ \A j \in Jobs : Executing(j) => deliveries[j] > 0
  /\ runs \in [Jobs -> [Deliveries -> RunStates]]
  /\ committed \subseteq Jobs
  /\ done \subseteq Jobs
  /\ lock \in Jobs \cup {NoJob}
  /\ again \subseteq Jobs
  /\ submitting \subseteq Jobs
  /\ canceling \subseteq Jobs
  /\ stale \subseteq Jobs
  /\ doomed \subseteq Jobs \X Deliveries

\* The lease is safe when it is refreshed and Redis answers.
LeaseIsKept == Faults \cap {"stall", "redis"} = {}

\* Collections of one source never overlap, through crashes, interruptions
\* and redeliveries: run_collection_task is the lock's critical section.
Exclusion ==
  LeaseIsKept => \A i, j \in Jobs : Executing(i) /\ Executing(j) => i = j

\* Why it is so: a worker that runs a job has the job's lease.
LeaseHeld == LeaseIsKept => \A j \in Jobs : Executing(j) => lock = j

\* The same promise, as an implementation of the abstract mutual exclusion.
Mutex == INSTANCE SourceMutex WITH inside <- {j \in Jobs : Executing(j)}
ImplementsMutex == Mutex!Spec

\* Even when leases run out under live workers, a job that starts, ends or
\* fails never takes the lock away from the job that owns it now.
OthersKeepTheLock ==
  [][\A j, k \in Jobs : j # k /\ lock = j /\ at'[k] # at[k] => lock' = j]_vars

\* What the task center or a run record calls COMPLETED has been committed,
\* and so has what the idempotency key will never let run again.
CompletedIsCommitted ==
  \A j \in Jobs :
    \/ job[j] = "COMPLETED" \/ j \in done \/ \E n \in Deliveries : runs[j][n] = "COMPLETED"
    => j \in committed

\* No source stays locked for ever: a live worker releases its lease in the
\* end, and the lease of one that crashed, or whose release failed, runs out.
LockIsFreed == \A j \in Jobs : lock = j ~> lock # j

\* No job stays queued or running in the task center for ever.
JobsAreResolved ==
  \A j \in Jobs : job[j] \in {"QUEUED", "RUNNING"} ~> job[j] \notin {"QUEUED", "RUNNING"}

\* No collection_run record stays RUNNING for ever.
RunsAreResolved ==
  \A j \in Jobs, n \in Deliveries : runs[j][n] = "RUNNING" ~> runs[j][n] # "RUNNING"

-----------------------------------------------------------------------------
(* What comments and docstrings of the code say, and the code does not keep *)

\* A job the user has cancelled stays CANCELLED.
CancelledIsFinal ==
  [][\A j \in Jobs : job[j] = "CANCELLED" => job'[j] = "CANCELLED"]_vars

\* A job that has completed can no longer be cancelled.
CompletedIsNotCancelled ==
  [][\A j \in Jobs : job[j] = "COMPLETED" => job'[j] # "CANCELLED"]_vars

\* A job that is making progress is marked FAILED by its own worker only.
SweepSparesLiveJobs ==
  [][\A j \in Jobs :
       /\ job[j] = "RUNNING" /\ at[j] = "collecting" /\ at'[j] = "collecting"
       => job'[j] # "FAILED"]_vars
=============================================================================
