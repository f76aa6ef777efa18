------------------------ MODULE CollectionJobsProofs ------------------------
(***************************************************************************)
(* Proofs about CollectionJobs, for every set of jobs, every bound and     *)
(* every combination of faults: type correctness, the mutual exclusion of  *)
(* the collections of a source (as an invariant and as an implementation   *)
(* of SourceMutex), and that nothing is called completed before its commit.*)
(***************************************************************************)
EXTENDS CollectionJobs, TLAPS

USE DEF Deliveries, JobStates, RunStates, QueueStates, Places, Succeeding, Failing

\* Only the enqueueing, the sweeper and the user: nobody who runs a job.
Bystander(j) ==
  \/ Enqueue(j) \/ Redeliver(j)
  \/ "user" \in Parties /\ Cancel(j)
  \/ "sweeper" \in Parties /\ Sweep(j)

(***************************************************************************)
(* Every variable keeps its type, whatever the faults.                     *)
(***************************************************************************)
LEMMA TypeInit == Init => TypeOK
BY JobsAssumption, DeliveriesAssumption DEF Init, TypeOK, Executing

\* One cell of the table of runs is set to s, or nothing is.
OneRunSet(j, s) ==
  \/ \E n \in Deliveries :
       \/ runs' = [runs EXCEPT ![j][n] = s]
       \/ runs' = [runs EXCEPT ![j][n] = IF @ = "NONE" THEN "NONE" ELSE s]
  \/ runs' = runs

LEMMA RunsTyped ==
  ASSUME TypeOK, NEW j \in Jobs, NEW s \in RunStates, OneRunSet(j, s)
  PROVE  /\ runs' \in [Jobs -> [Deliveries -> RunStates]]
         /\ \A k \in Jobs, m \in Deliveries : runs'[k][m] \in {runs[k][m], s}
<1>1. runs \in [Jobs -> [Deliveries -> RunStates]]
  BY DEF TypeOK
<1>2. CASE runs' = runs
  BY <1>1, <1>2
<1>3. ASSUME NEW n \in Deliveries,
             \/ runs' = [runs EXCEPT ![j][n] = s]
             \/ runs' = [runs EXCEPT ![j][n] = IF @ = "NONE" THEN "NONE" ELSE s]
      PROVE  /\ runs' \in [Jobs -> [Deliveries -> RunStates]]
             /\ \A k \in Jobs, m \in Deliveries : runs'[k][m] \in {runs[k][m], s}
  <2> HIDE DEF Deliveries
  <2>1. CASE runs' = [runs EXCEPT ![j][n] = s]
    BY <1>1, <2>1
  <2>2. CASE runs' = [runs EXCEPT ![j][n] = IF @ = "NONE" THEN "NONE" ELSE s]
    <3>1. PICK t \in {runs[j][n], s} : runs' = [runs EXCEPT ![j][n] = t]
      BY <2>2
    <3>2. t \in RunStates
      BY <1>1
    <3> QED BY <1>1, <3>1, <3>2
  <2> QED BY <1>3, <2>1, <2>2
<1> QED
  BY <1>2, <1>3 DEF OneRunSet

\* A job that is being executed has been delivered.
LEMMA Delivered ==
  ASSUME TypeOK, NEW j \in Jobs, at[j] # "idle"
  PROVE  deliveries[j] \in Deliveries
<1>1. deliveries[j] \in 0 .. MaxDeliveries /\ deliveries[j] > 0
  BY DEF TypeOK, Executing
<1> QED
  BY <1>1, DeliveriesAssumption

LEMMA TypeNext == TypeOK /\ [Next]_vars => TypeOK'
<1> SUFFICES ASSUME TypeOK, [Next]_vars PROVE TypeOK'
  OBVIOUS
<1> USE JobsAssumption, DeliveriesAssumption DEF TypeOK, Executing
<1>1. ASSUME NEW j \in Jobs, Enqueue(j) PROVE TypeOK'
  <2>1. CASE Submit(j)
    BY <2>1 DEF Submit, SetJob, workerVars, dataVars, sweepVars
  <2>2. CASE Push(j)
    BY <2>2 DEF Push, dataVars, sweepVars
  <2>3. CASE PushFails(j)
    BY <2>3 DEF PushFails, SetJob, dataVars, sweepVars
  <2>4. CASE Schedule(j)
    BY <2>4 DEF Schedule, dataVars, callerVars, sweepVars
  <2> QED BY <1>1, <2>1, <2>2, <2>3, <2>4 DEF Enqueue
<1>2. ASSUME NEW j \in Jobs, SkipCompleted(j) \/ SkipConcurrent(j) PROVE TypeOK'
  BY <1>2 DEF SkipCompleted, SkipConcurrent, FinishUnstarted, SetJob, dataVars,
              sweepVars, callerVars
<1>3. ASSUME NEW j \in Jobs, Start(j) PROVE TypeOK'
  BY <1>3 DEF Start, Deliverable, Acquire, dataVars, sweepVars, callerVars
<1>4. ASSUME NEW j \in Jobs, StartRun(j) PROVE TypeOK'
  <2>1. deliveries[j] \in Deliveries
    BY <1>4, Delivered DEF StartRun
  <2>2. OneRunSet(j, "RUNNING")
    BY <1>4, <2>1 DEF StartRun, OneRunSet
  <2>3. runs' \in [Jobs -> [Deliveries -> RunStates]]
    BY <2>2, RunsTyped
  <2> QED
    BY <1>4, <2>3 DEF StartRun, MoveTo, dataVars, sweepVars, callerVars
<1>5. ASSUME NEW j \in Jobs, CompleteRun(j) \/ CancelRun(j) \/ FailRun(j) PROVE TypeOK'
  <2>1. deliveries[j] \in Deliveries
    BY <1>5, Delivered DEF CompleteRun, CancelRun, FailRun
  <2>2. \E s \in RunStates : OneRunSet(j, s)
    BY <1>5, <2>1 DEF CompleteRun, CancelRun, FailRun, SetRun, OneRunSet
  <2>4. runs' \in [Jobs -> [Deliveries -> RunStates]]
    BY <2>2, RunsTyped
  <2>3. at' \in [Jobs -> Places] /\ \A k \in Jobs : at'[k] # "idle" => at[k] # "idle"
    BY <1>5 DEF CompleteRun, CancelRun, FailRun, MoveTo
  <2> QED
    BY <1>5, <2>3, <2>4 DEF CompleteRun, CancelRun, FailRun, MoveTo, dataVars,
                            sweepVars, callerVars
<1>6. ASSUME NEW j \in Jobs, StoreCompleted(j) \/ StoreFailed(j) \/ Progress(j)
      PROVE TypeOK'
  <2>1. job' \in [Jobs -> JobStates]
    BY <1>6 DEF StoreCompleted, StoreFailed, Progress, SetJob
  <2>2. at' \in [Jobs -> Places] /\ \A k \in Jobs : at'[k] # "idle" => at[k] # "idle"
    BY <1>6 DEF StoreCompleted, StoreFailed, Progress, MoveTo, workerVars
  <2> QED
    BY <1>6, <2>1, <2>2 DEF StoreCompleted, StoreFailed, Progress, MoveTo, workerVars,
                            dataVars, sweepVars, callerVars
<1>7. ASSUME NEW j \in Jobs, Commit(j) \/ MarkIdempotent(j) \/ Fail(j) PROVE TypeOK'
  BY <1>7 DEF Commit, MarkIdempotent, Fail, MoveTo, dataVars, sweepVars, callerVars
<1>8. ASSUME NEW j \in Jobs, Interrupt(j) \/ Crash(j) PROVE TypeOK'
  BY <1>8 DEF Interrupt, Crash, dataVars, sweepVars, callerVars
<1>9. ASSUME NEW j \in Jobs, Leave(j) PROVE TypeOK'
  BY <1>9 DEF Leave, Released, dataVars, sweepVars, callerVars
<1>10. ASSUME NEW j \in Jobs, Redeliver(j) PROVE TypeOK'
  BY <1>10 DEF Redeliver, dataVars, sweepVars, callerVars
<1>11. ASSUME NEW j \in Jobs, Cancel(j) PROVE TypeOK'
  BY <1>11 DEF Cancel, CancelRead, CancelWrite, SetJob, workerVars, dataVars, sweepVars
<1>12. ASSUME NEW j \in Jobs, Scan(j) PROVE TypeOK'
  BY <1>12 DEF Scan, workerVars, dataVars, callerVars
<1>13. ASSUME NEW j \in Jobs, SweepJob(j) PROVE TypeOK'
  <2>1. doomed' \subseteq Jobs \X Deliveries
    BY <1>13 DEF SweepJob, RunningRuns
  <2> QED
    BY <1>13, <2>1 DEF SweepJob, SetJob, workerVars, dataVars, callerVars
<1>14. ASSUME NEW j \in Jobs, NEW n \in Deliveries, SweepRun(j, n) \/ SweepOldRun(j, n)
       PROVE TypeOK'
  <2>a. OneRunSet(j, "FAILED")
    BY <1>14 DEF SweepRun, SweepOldRun, OneRunSet
  <2>1. runs' \in [Jobs -> [Deliveries -> RunStates]]
    BY <2>a, RunsTyped
  <2> QED
    BY <1>14, <2>1 DEF SweepRun, SweepOldRun, workerVars, dataVars, callerVars, sweepVars
<1>15. CASE Expire \/ LoseLease \/ SweeperDies
  BY <1>15 DEF Expire, LoseLease, SweeperDies, workerVars, dataVars, callerVars, sweepVars
<1>16. CASE UNCHANGED vars
  BY <1>16 DEF vars
<1> QED
  BY <1>1, <1>2, <1>3, <1>4, <1>5, <1>6, <1>7, <1>8, <1>9, <1>10, <1>11, <1>12,
     <1>13, <1>14, <1>15, <1>16 DEF Next, Work, Sweep

\* The typing of the whole system: job store, queue, runs, lock and sweeper.
THEOREM TypeCorrect == Spec => []TypeOK
BY TypeInit, TypeNext, PTL DEF Spec

-----------------------------------------------------------------------------
(***************************************************************************)
(* Who can change where a worker is, and the lock.                         *)
(***************************************************************************)
LEMMA Bystanders ==
  ASSUME NEW j \in Jobs, Bystander(j)
  PROVE UNCHANGED <<at, lock, committed, done>>
BY DEF Bystander, Enqueue, Submit, Push, PushFails, Schedule, Redeliver, Cancel,
       CancelRead, CancelWrite, Sweep, Scan, SweepJob, SweepRun, SweepOldRun,
       workerVars, dataVars

\* While the lease is kept, a worker that runs a job owns the lock.
LEMMA LeaseNext == TypeOK /\ LeaseHeld /\ [Next]_vars => LeaseHeld'
<1> SUFFICES ASSUME TypeOK, LeaseHeld, [Next]_vars, LeaseIsKept
             PROVE \A k \in Jobs : (Executing(k) => lock = k)'
  BY DEF LeaseHeld, LeaseIsKept
<1>a. /\ "stall" \notin Faults /\ "redis" \notin Faults
      /\ \A k \in Jobs : Executing(k) => lock = k
  BY DEF LeaseHeld, LeaseIsKept
<1> USE JobsAssumption DEF TypeOK, Executing
<1>1. ASSUME NEW j \in Jobs, Bystander(j) PROVE \A k \in Jobs : (Executing(k) => lock = k)'
  BY <1>1, <1>a, Bystanders
<1>2. ASSUME NEW j \in Jobs, Start(j) PROVE \A k \in Jobs : (Executing(k) => lock = k)'
  BY <1>2, <1>a DEF Start, Acquire, NoLockKey
<1>3. ASSUME NEW j \in Jobs, Leave(j) PROVE \A k \in Jobs : (Executing(k) => lock = k)'
  BY <1>3, <1>a DEF Leave, Released
<1>4. ASSUME NEW j \in Jobs,
             \/ SkipCompleted(j) \/ SkipConcurrent(j) \/ StartRun(j) \/ Commit(j)
             \/ CompleteRun(j) \/ StoreCompleted(j) \/ MarkIdempotent(j) \/ CancelRun(j)
             \/ FailRun(j) \/ StoreFailed(j) \/ Progress(j) \/ Fail(j) \/ Interrupt(j)
             \/ Crash(j)
      PROVE \A k \in Jobs : (Executing(k) => lock = k)'
  <2>1. lock' = lock /\ \A k \in Jobs : Executing(k)' => Executing(k)
    BY <1>4 DEF SkipCompleted, SkipConcurrent, FinishUnstarted, StartRun, Commit,
                CompleteRun, StoreCompleted, MarkIdempotent, CancelRun, FailRun,
                StoreFailed, Progress, Fail, Interrupt, Crash, MoveTo, workerVars
  <2> QED BY <2>1, <1>a
<1>5. CASE Expire \/ LoseLease
  BY <1>5, <1>a DEF Expire, LoseLease, OwnerIsGone, workerVars
<1>6. CASE SweeperDies \/ UNCHANGED vars
  BY <1>6, <1>a DEF SweeperDies, workerVars, vars
<1> QED
  BY <1>1, <1>2, <1>3, <1>4, <1>5, <1>6 DEF Next, Work, Bystander

\* The collections of a source never overlap while leases are kept: the lock
\* of run_collection_task survives every crash, interruption and redelivery.
THEOREM MutualExclusion == Spec => []Exclusion
<1>1. Init => LeaseHeld
  BY DEF Init, LeaseHeld, Executing
<1>2. LeaseHeld => Exclusion
  BY DEF LeaseHeld, Exclusion
<1> QED
  BY <1>1, <1>2, LeaseNext, TypeCorrect, PTL DEF Spec

\* Under the same assumption the lock protocol implements SourceMutex.
THEOREM Implementation == LeaseIsKept => (Spec => ImplementsMutex)
<1> DEFINE inside == {j \in Jobs : Executing(j)}
<1> SUFFICES ASSUME LeaseIsKept PROVE Spec => ImplementsMutex
  OBVIOUS
<1>1. Init => Mutex!Init
  BY DEF Init, Mutex!Init, Executing
<1>2. TypeOK /\ LeaseHeld /\ [Next]_vars => [Mutex!Next]_inside
  <2> SUFFICES ASSUME TypeOK, LeaseHeld, [Next]_vars PROVE [Mutex!Next]_inside
    OBVIOUS
  <2>a. /\ "stall" \notin Faults /\ "redis" \notin Faults
        /\ \A k \in Jobs : Executing(k) => lock = k
    BY DEF LeaseHeld, LeaseIsKept
  <2> USE JobsAssumption DEF TypeOK, Executing
  <2>1. ASSUME NEW j \in Jobs, Start(j) PROVE Mutex!Enter(j)
    BY <2>1, <2>a DEF Start, Acquire, NoLockKey, Mutex!Enter
  <2>2. ASSUME NEW j \in Jobs, Leave(j) \/ Crash(j) PROVE Mutex!Leave(j)
    <3>1. Executing(j) /\ \A k \in Jobs : Executing(k) => k = j
      BY <2>2, <2>a DEF Leave, Crash
    <3>2. \A k \in Jobs : Executing(k)' => Executing(k) /\ k # j
      BY <2>2 DEF Leave, Crash
    <3> QED BY <3>1, <3>2 DEF Mutex!Leave
  <2>3. ASSUME NEW j \in Jobs,
             \/ SkipCompleted(j) \/ SkipConcurrent(j) \/ StartRun(j) \/ Commit(j)
             \/ CompleteRun(j) \/ StoreCompleted(j) \/ MarkIdempotent(j) \/ CancelRun(j)
             \/ FailRun(j) \/ StoreFailed(j) \/ Progress(j) \/ Fail(j) \/ Interrupt(j)
        PROVE UNCHANGED inside
    <3>1. \A k \in Jobs : Executing(k)' <=> Executing(k)
      BY <2>3 DEF SkipCompleted, SkipConcurrent, FinishUnstarted, StartRun, Commit,
                  CompleteRun, StoreCompleted, MarkIdempotent, CancelRun, FailRun,
                  StoreFailed, Progress, Fail, Interrupt, MoveTo, workerVars
    <3> QED BY <3>1
  <2>4. ASSUME NEW j \in Jobs, Bystander(j) PROVE UNCHANGED inside
    BY <2>4, Bystanders
  <2>5. CASE Expire \/ LoseLease \/ SweeperDies \/ UNCHANGED vars
    BY <2>5 DEF Expire, LoseLease, SweeperDies, workerVars, vars
  <2> QED
    BY <2>1, <2>2, <2>3, <2>4, <2>5 DEF Next, Work, Bystander, Mutex!Next
<1>3. Spec => []LeaseHeld
  <2>1. Init => LeaseHeld
    BY DEF Init, LeaseHeld, Executing
  <2> QED BY <2>1, LeaseNext, TypeCorrect, PTL DEF Spec
<1> QED
  BY <1>1, <1>2, <1>3, TypeCorrect, PTL DEF Spec, ImplementsMutex, Mutex!Spec

-----------------------------------------------------------------------------
\* The places after db.commit, where the data is in.
CommittedInv ==
  /\ CompletedIsCommitted
  /\ \A j \in Jobs : at[j] \in {"committed", "recorded", "stored"} => j \in committed

LEMMA CommittedNext == TypeOK /\ CommittedInv /\ [Next]_vars => CommittedInv'
<1> SUFFICES ASSUME TypeOK, CommittedInv, [Next]_vars PROVE CommittedInv'
  OBVIOUS
<1> USE JobsAssumption, DeliveriesAssumption
    DEF TypeOK, Executing, CommittedInv, CompletedIsCommitted
<1>1. ASSUME NEW j \in Jobs, Enqueue(j) PROVE CommittedInv'
  BY <1>1 DEF Enqueue, Submit, Push, PushFails, Schedule, SetJob, workerVars, dataVars
<1>2. ASSUME NEW j \in Jobs, SkipCompleted(j) \/ SkipConcurrent(j) PROVE CommittedInv'
  BY <1>2 DEF SkipCompleted, SkipConcurrent, FinishUnstarted, SetJob, dataVars
<1>3. ASSUME NEW j \in Jobs, Start(j) PROVE CommittedInv'
  BY <1>3 DEF Start, dataVars
<1>4. ASSUME NEW j \in Jobs, StartRun(j) PROVE CommittedInv'
  <2>1. deliveries[j] \in Deliveries
    BY <1>4, Delivered DEF StartRun
  <2>a. OneRunSet(j, "RUNNING")
    BY <1>4, <2>1 DEF StartRun, OneRunSet
  <2>2. \A k \in Jobs, n \in Deliveries : runs'[k][n] = "COMPLETED" => runs[k][n] = "COMPLETED"
    BY <2>a, RunsTyped
  <2> QED
    BY <1>4, <2>2 DEF StartRun, MoveTo, dataVars
<1>5. ASSUME NEW j \in Jobs, CompleteRun(j) PROVE CommittedInv'
  BY <1>5 DEF CompleteRun, SetRun, MoveTo, dataVars
<1>6. ASSUME NEW j \in Jobs, CancelRun(j) \/ FailRun(j) PROVE CommittedInv'
  <2>1. deliveries[j] \in Deliveries
    BY <1>6, Delivered DEF CancelRun, FailRun
  <2>a. OneRunSet(j, "CANCELLED") \/ OneRunSet(j, "FAILED")
    BY <1>6, <2>1 DEF CancelRun, FailRun, SetRun, OneRunSet
  <2>2. \A k \in Jobs, n \in Deliveries : runs'[k][n] = "COMPLETED" => runs[k][n] = "COMPLETED"
    BY <2>a, RunsTyped
  <2> QED
    BY <1>6, <2>2 DEF CancelRun, FailRun, MoveTo, dataVars
<1>7. ASSUME NEW j \in Jobs, StoreCompleted(j) \/ StoreFailed(j) \/ Progress(j)
      PROVE CommittedInv'
  BY <1>7 DEF StoreCompleted, StoreFailed, Progress, SetJob, MoveTo, workerVars, dataVars
<1>8. ASSUME NEW j \in Jobs, Commit(j) PROVE CommittedInv'
  BY <1>8 DEF Commit, MoveTo
<1>9. ASSUME NEW j \in Jobs, MarkIdempotent(j) PROVE CommittedInv'
  BY <1>9 DEF MarkIdempotent, MoveTo
<1>10. ASSUME NEW j \in Jobs, Fail(j) \/ Interrupt(j) \/ Crash(j) \/ Leave(j)
       PROVE CommittedInv'
  BY <1>10 DEF Fail, Interrupt, Crash, Leave, MoveTo, dataVars
<1>11. ASSUME NEW j \in Jobs, Redeliver(j) \/ Cancel(j) PROVE CommittedInv'
  BY <1>11 DEF Redeliver, Cancel, CancelRead, CancelWrite, SetJob, workerVars, dataVars
<1>12. ASSUME NEW j \in Jobs, Scan(j) \/ SweepJob(j) PROVE CommittedInv'
  BY <1>12 DEF Scan, SweepJob, SetJob, workerVars, dataVars
<1>13. ASSUME NEW j \in Jobs, NEW n \in Deliveries, SweepRun(j, n) \/ SweepOldRun(j, n)
       PROVE CommittedInv'
  <2>a. OneRunSet(j, "FAILED")
    BY <1>13 DEF SweepRun, SweepOldRun, OneRunSet
  <2>1. \A k \in Jobs, m \in Deliveries : runs'[k][m] = "COMPLETED" => runs[k][m] = "COMPLETED"
    BY <2>a, RunsTyped
  <2> QED
    BY <1>13, <2>1 DEF SweepRun, SweepOldRun, workerVars, dataVars
<1>14. CASE Expire \/ LoseLease \/ SweeperDies \/ UNCHANGED vars
  BY <1>14 DEF Expire, LoseLease, SweeperDies, workerVars, dataVars, vars
<1> QED
  BY <1>1, <1>2, <1>3, <1>4, <1>5, <1>6, <1>7, <1>8, <1>9, <1>10, <1>11, <1>12,
     <1>13, <1>14 DEF Next, Work, Sweep

\* A job, a run or an idempotency key says "completed" only of a collection
\* whose transaction has been committed, whatever fails in between.
THEOREM NothingCompletedUncommitted == Spec => []CompletedIsCommitted
<1>1. Init => CommittedInv
  BY DEF Init, CommittedInv, CompletedIsCommitted
<1>2. CommittedInv => CompletedIsCommitted
  BY DEF CommittedInv
<1> QED
  BY <1>1, <1>2, CommittedNext, TypeCorrect, PTL DEF Spec

-----------------------------------------------------------------------------
\* A step of one job's worker takes a lock that is free and frees its own.
LEMMA LockNext ==
  ASSUME TypeOK, [Next]_vars,
         NEW j \in Jobs, NEW k \in Jobs, j # k, lock = j, at'[k] # at[k]
  PROVE  lock' = j
<1> USE JobsAssumption DEF TypeOK
<1>1. CASE UNCHANGED lock
  BY <1>1
<1>2. ASSUME NEW i \in Jobs, Start(i) PROVE lock' = j
  BY <1>2 DEF Start, Acquire, NoLockKey
<1>3. ASSUME NEW i \in Jobs, Leave(i) PROVE lock' = j
  <2>1. i = k
    BY <1>3 DEF Leave
  <2> QED BY <1>3, <2>1 DEF Leave, Released
<1>4. CASE Expire \/ LoseLease
  BY <1>4 DEF Expire, LoseLease, workerVars
<1>5. ASSUME NEW i \in Jobs,
             \/ Enqueue(i) \/ Progress(i) \/ Fail(i) \/ Interrupt(i) \/ Crash(i)
             \/ Redeliver(i) \/ Cancel(i) \/ Sweep(i)
      PROVE  UNCHANGED lock
  BY <1>5 DEF Enqueue, Submit, Push, PushFails, Schedule, Progress, Fail, Interrupt, Crash,
       Redeliver, Cancel, CancelRead, CancelWrite, Sweep, Scan, SweepJob, SweepRun,
       SweepOldRun
<1>6. ASSUME NEW i \in Jobs, Work(i) PROVE Start(i) \/ Leave(i) \/ UNCHANGED lock
  BY <1>6 DEF Work, SkipCompleted, SkipConcurrent, StartRun, Commit, CompleteRun,
       StoreCompleted, MarkIdempotent, CancelRun, FailRun, StoreFailed
<1>7. CASE SweeperDies \/ UNCHANGED vars
  BY <1>1, <1>7 DEF SweeperDies, vars
<1> QED BY <1>1, <1>2, <1>3, <1>4, <1>5, <1>6, <1>7 DEF Next

\* Even when leases run out under live workers, no step of one job's worker
\* takes the lock away from the job that owns it: the release compares owners.
THEOREM LockIsRespected == Spec => OthersKeepTheLock
<1>1. TypeOK /\ [Next]_vars
        => [\A j, k \in Jobs : j # k /\ lock = j /\ at'[k] # at[k] => lock' = j]_vars
  BY LockNext
<1> QED BY <1>1, TypeCorrect, PTL DEF Spec, OthersKeepTheLock
=============================================================================
