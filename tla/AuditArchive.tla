---------------------------- MODULE AuditArchive ----------------------------
(***************************************************************************)
(* The nightly move of old audit records from MySQL (the hot table) to     *)
(* MinIO (cold objects): audit_archive_task under the cron lock of         *)
(* tasks/lock.py.  A run moves batch after batch: it reads a batch and the *)
(* hash of the last successful archive, uploads the batch as one object,   *)
(* and in one transaction deletes the rows and writes an AuditArchiveLog.  *)
(*                                                                         *)
(* Abstractions.  The sha256 of a file is its set of records.  The object  *)
(* key is the second at which the run began, as in the code.  A record's   *)
(* created_at only decides when the 30 days are over.                      *)
(*                                                                         *)
(* MinIO is external: put_object replaces the object of a key, and may     *)
(* have done so when it reports a failure.                                 *)
(***************************************************************************)
EXTENDS Integers, FiniteSets, Sequences, FiniteSetsExt

CONSTANTS
  Records,     \* rows of audit_log
  Workers,     \* worker replicas, each running the cron job
  Nobody,      \* no worker
  BatchSize,   \* ARCHIVE_BATCH_SIZE
  MaxBatches,  \* MAX_BATCHES_PER_RUN
  MaxSeconds,  \* bound: seconds the clock counts
  MaxFailures, \* bound: uploads fail while fewer archives are FAILED
  Faults       \* "crash" (a worker dies), "minio" (uploads fail),
               \* "redis" (lock calls fail), "database" (a statement fails)

ASSUME WorkersAssumption == Nobody \notin Workers
ASSUME SizesAssumption == /\ BatchSize \in Nat \ {0}
                          /\ MaxBatches \in Nat \ {0}
                          /\ MaxSeconds \in Nat
                          /\ MaxFailures \in Nat
ASSUME FaultsAssumption == Faults \subseteq {"crash", "minio", "redis", "database"}

VARIABLES
  hot,      \* records in audit_log
  old,      \* records of more than 30 days
  objects,  \* objects[k]: what MinIO stores under the key of second k
  log,      \* audit_archive_log
  second,   \* the clock
  lock,     \* owner of task_lock:audit-archive
  at,       \* at[w]: where worker w is in the task
  run       \* run[w]: cutoff and key of w's run, batch and prev it has read,
            \* batches done

systemVars == <<hot, old, objects, log, second>>
vars == <<hot, old, objects, log, second, lock, at, run>>

Keys == 0 .. MaxSeconds
Places == {"idle", "reading", "uploading", "uploaded", "refused", "leaving"}
Hashes == SUBSET Records
NoHash == {}   \* prev_sha256 of the first archive; no archive is empty
Entry == [key : Keys, hash : Hashes, prev : Hashes, status : {"SUCCESS", "FAILED"}]
Run == [due : SUBSET Records, key : Keys, batch : Hashes, prev : Hashes,
        batches : 0 .. MaxBatches]

NewRun(due, k) == [due |-> due, key |-> k, batch |-> {}, prev |-> NoHash, batches |-> 0]

Init ==
  /\ hot = Records
  /\ old = {}
  /\ objects = [k \in Keys |-> {}]
  /\ log = <<>>
  /\ second = 0
  /\ lock = Nobody
  /\ at = [w \in Workers |-> "idle"]
  /\ run = [w \in Workers |-> NewRun({}, 0)]

-----------------------------------------------------------------------------
(* The task lock *)

\* SET NX EX 3600; a Redis failure skips this run
LockIgnored == TRUE
LockIsFree == lock = Nobody

\* the wrapper of @task_locked, then cutoff and archive_date
Begin(w) ==
  /\ at[w] = "idle"
  /\ LockIsFree
  /\ lock' = w
  /\ at' = [at EXCEPT ![w] = "reading"]
  /\ run' = [run EXCEPT ![w] = NewRun(old, second)]
  /\ UNCHANGED systemVars

\* the lock is released by its owner; a failing release leaves it to the TTL
Leave(w) ==
  /\ at[w] = "leaving"
  /\ at' = [at EXCEPT ![w] = "idle"]
  /\ \/ lock' = IF lock = w THEN Nobody ELSE lock
     \/ "redis" \in Faults /\ UNCHANGED lock
  /\ run' = [run EXCEPT ![w] = NewRun({}, 0)]
  /\ UNCHANGED systemVars

\* The TTL of 3600 s is longer than job_timeout (1800 s): it runs out only
\* when the owner is gone.
ExpireNever == FALSE
OwnerIsGone == lock # Nobody /\ at[lock] = "idle"

Expire ==
  /\ OwnerIsGone
  /\ lock' = Nobody
  /\ UNCHANGED <<systemVars, at, run>>

-----------------------------------------------------------------------------
(* The task *)

Successes == {n \in 1 .. Len(log) : log[n].status = "SUCCESS"}

\* SELECT content_sha256 .. WHERE status = 'SUCCESS' ORDER BY id DESC LIMIT 1
LastHashOfAny == IF log = <<>> THEN NoHash ELSE log[Len(log)].hash
LastHash == IF Successes = {} THEN NoHash ELSE log[Max(Successes)].hash

\* prev_sha256 as the lookup leaves it: its failure is swallowed, and the batch
\* is archived with None
PrevHashes == {LastHash} \cup (IF "database" \in Faults THEN {NoHash} ELSE {})

Eligible(w) == hot \cap run[w].due

\* SELECT .. LIMIT BatchSize, in no particular order
IsBatch(w, rows) ==
  /\ rows \subseteq Eligible(w)
  /\ rows # {}
  /\ Cardinality(rows) <= BatchSize
  /\ Cardinality(rows) = BatchSize \/ rows = Eligible(w)

\* batch_number < MAX_BATCHES_PER_RUN
BatchesUnlimited(w) == TRUE
MayReadMore(w) == run[w].batches < MaxBatches

Read(w, rows) ==
  /\ at[w] = "reading"
  /\ MayReadMore(w)
  /\ IsBatch(w, rows)
  /\ \E prev \in PrevHashes :
       run' = [run EXCEPT ![w].batch = rows, ![w].prev = prev]
  /\ at' = [at EXCEPT ![w] = "uploading"]
  /\ UNCHANGED <<systemVars, lock>>

\* no rows left, or MAX_BATCHES_PER_RUN reached
Finish(w) ==
  /\ at[w] = "reading"
  /\ Eligible(w) = {} \/ ~MayReadMore(w)
  /\ at' = [at EXCEPT ![w] = "leaving"]
  /\ UNCHANGED <<systemVars, lock, run>>

\* _upload_to_minio returns True
Upload(w) ==
  /\ at[w] = "uploading"
  /\ objects' = [objects EXCEPT ![run[w].key] = run[w].batch]
  /\ at' = [at EXCEPT ![w] = "uploaded"]
  /\ UNCHANGED <<hot, old, log, second, lock, run>>

\* _upload_to_minio returns False; the object may be there all the same
RefusalIgnored == "uploaded"
RefusalReported == "refused"

UploadFails(w) ==
  /\ "minio" \in Faults
  /\ Len(log) - Cardinality(Successes) < MaxFailures
  /\ at[w] = "uploading"
  /\ \/ objects' = [objects EXCEPT ![run[w].key] = run[w].batch]
     \/ UNCHANGED objects
  /\ at' = [at EXCEPT ![w] = RefusalReported]
  /\ UNCHANGED <<hot, old, log, second, lock, run>>

LogEntry(w, status) ==
  log' = Append(log, [key |-> run[w].key, hash |-> run[w].batch,
                      prev |-> run[w].prev, status |-> status])

\* one transaction: the rows leave the hot table, the archive is logged
Commit(w) ==
  /\ at[w] = "uploaded"
  /\ hot' = hot \ run[w].batch
  /\ LogEntry(w, "SUCCESS")
  /\ run' = [run EXCEPT ![w].batches = @ + 1]
  /\ at' = [at EXCEPT ![w] = "reading"]
  /\ UNCHANGED <<old, objects, second, lock>>

\* FAILED is logged and the run ends
Refuse(w) ==
  /\ at[w] = "refused"
  /\ LogEntry(w, "FAILED")
  /\ at' = [at EXCEPT ![w] = "leaving"]
  /\ UNCHANGED <<hot, old, objects, second, lock, run>>

\* an exception: rollback, and the lock is released on the way out
CommitFails(w) ==
  /\ "database" \in Faults
  /\ at[w] \in {"reading", "uploaded", "refused"}
  /\ at' = [at EXCEPT ![w] = "leaving"]
  /\ UNCHANGED <<systemVars, lock, run>>

Crash(w) ==
  /\ "crash" \in Faults
  /\ at[w] # "idle"
  /\ at' = [at EXCEPT ![w] = "idle"]
  /\ run' = [run EXCEPT ![w] = NewRun({}, 0)]
  /\ UNCHANGED <<systemVars, lock>>

-----------------------------------------------------------------------------
(* Time *)

Tick ==
  /\ second < MaxSeconds
  /\ second' = second + 1
  /\ UNCHANGED <<hot, old, objects, log, lock, at, run>>

Ages(r) ==
  /\ r \in Records \ old
  /\ old' = old \cup {r}
  /\ UNCHANGED <<hot, objects, log, second, lock, at, run>>

-----------------------------------------------------------------------------

Task(w) ==
  \/ Begin(w) \/ Finish(w) \/ Upload(w) \/ Commit(w) \/ Refuse(w) \/ Leave(w)
  \/ \E rows \in SUBSET Records : Read(w, rows)

Next ==
  \/ \E w \in Workers : Task(w) \/ UploadFails(w) \/ CommitFails(w) \/ Crash(w)
  \/ \E r \in Records : Ages(r)
  \/ Expire \/ Tick

Spec == Init /\ [][Next]_vars

\* The cron comes back every night on every replica, the TTL runs out, and a
\* step that is reached night after night succeeds in the end: a crash or a
\* failing commit may end any run, but not every run at the same step.
FairSpec ==
  /\ Spec
  /\ WF_vars(Expire)
  /\ \A w \in Workers : WF_vars(Finish(w) \/ Refuse(w) \/ Leave(w))
  /\ SF_vars(\E w \in Workers : Begin(w))
  /\ SF_vars(\E w \in Workers, rows \in SUBSET Records : Read(w, rows))
  /\ SF_vars(\E w \in Workers : Upload(w))
  /\ SF_vars(\E w \in Workers : Commit(w))

-----------------------------------------------------------------------------
(* Properties *)

TypeOK ==
  /\ hot \subseteq Records
  /\ old \subseteq Records
  /\ objects \in [Keys -> SUBSET Records]
  /\ log \in Seq(Entry)
  /\ second \in Keys
  /\ lock \in Workers \cup {Nobody}
  /\ at \in [Workers -> Places]
  /\ run \in [Workers -> Run]

\* A record leaves the hot table only when a cold object contains it: not on
\* a failed upload, and not when a replica overlaps another or crashes.
ColdBeforeHotLeaves ==
  [][\A r \in hot \ hot' : \E k \in Keys : r \in objects[k]]_vars

\* No record is moved twice: the batches of the successful archives are
\* disjoint, even with a job on every replica.
MovedOnce ==
  \A m, n \in Successes : m # n => log[m].hash \cap log[n].hash = {}

\* What a successful archive must link to.
HashBefore(n) ==
  LET before == {m \in Successes : m < n}
  IN IF before = {} THEN NoHash ELSE log[Max(before)].hash

\* A link of the hash chain is true or absent: prev_sha256 of a successful
\* archive is None or the hash of the successful one right before it, across
\* failed archives, replicas and crashes.
LinksAreTrue == \A n \in Successes : log[n].prev \in {NoHash, HashBefore(n)}

\* A replica is in the task only with the lock.
OneRunner == \A w \in Workers : at[w] # "idle" => lock = w

\* The backlog is worked off: a record of more than 30 days leaves the hot
\* table, although a run stops after MaxBatches and may leave its lock behind.
BacklogIsArchived == \A r \in Records : r \in hot \cap old ~> r \notin hot

-----------------------------------------------------------------------------
(* What comments and docs say, and the code does not keep *)

\* Every audit record is in the hot table or in cold storage.
NothingLost == \A r \in Records : r \in hot \/ \E k \in Keys : r \in objects[k]

\* Every archive links to the one before: "sha256 哈希链". A lookup that fails
\* leaves a gap.
ChainUnbroken == \A n \in Successes : log[n].prev = HashBefore(n)

\* The object of a successful archive has the hash its log entry states.
HashesMatch ==
  \A n \in Successes : objects[log[n].key] = log[n].hash
=============================================================================
