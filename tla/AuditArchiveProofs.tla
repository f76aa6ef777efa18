------------------------- MODULE AuditArchiveProofs -------------------------
(***************************************************************************)
(* Proofs about AuditArchive, for any records, replicas, batch sizes and   *)
(* faults: type correctness, mutual exclusion of the replicas, and from it *)
(* that no record is moved twice, that every record has reached MinIO      *)
(* before it leaves the hot table, that no link of the hash chain is       *)
(* wrong, when it has no gap, and what a key of its own for every batch    *)
(* would give.                                                             *)
(***************************************************************************)
EXTENDS AuditArchive, TLAPS

USE WorkersAssumption, SizesAssumption

LEMMA TypeInit == Init => TypeOK
BY DEF Init, TypeOK, Keys, Places, Run, NewRun, Hashes, NoHash, Entry

LEMMA NewRunType ==
  ASSUME NEW due \in SUBSET Records, NEW k \in Keys
  PROVE  NewRun(due, k) \in Run
BY DEF NewRun, Run, Hashes, NoHash

\* What a log entry refers to is a set of records.
LEMMA LastHashType ==
  ASSUME TypeOK, Successes = {} \/ Max(Successes) \in Successes
  PROVE  LastHash \in Hashes
<1>1. CASE Successes = {}
  BY <1>1 DEF LastHash, NoHash, Hashes
<1>2. ASSUME NEW n \in Successes PROVE log[n].hash \in Hashes
  <2>1. log \in Seq(Entry) /\ n \in 1 .. Len(log)
    BY DEF TypeOK, Successes
  <2>2. log[n] \in Entry
    BY <2>1
  <2> QED BY <2>2 DEF Entry
<1> QED BY <1>1, <1>2 DEF LastHash

\* Whoever reads finds a last archive: a log that has successes has a last one.
HasLast(S) == S = {} \/ \E m \in S : \A k \in S : m >= k
LastInv == \A n \in Nat : HasLast({m \in Successes : m < n}) /\ HasLast(Successes)

\* A batch is read only while the run has one left.
BatchInv == \A w \in Workers :
              at[w] \in {"uploading", "uploaded"} => run[w].batches < MaxBatches

LEMMA MaxIsLast ==
  ASSUME NEW S, HasLast(S), S # {}
  PROVE  Max(S) \in S /\ \A k \in S : Max(S) >= k
BY DEF HasLast, Max

-----------------------------------------------------------------------------
(***************************************************************************)
(* The log.                                                                *)
(***************************************************************************)
Logged(w, status) == TypeOK /\ w \in Workers /\ LogEntry(w, status)

LEMMA LogAppended ==
  ASSUME NEW w \in Workers, NEW status \in {"SUCCESS", "FAILED"}, Logged(w, status)
  PROVE  /\ log' \in Seq(Entry)
         /\ Len(log') = Len(log) + 1
         /\ \A n \in 1 .. Len(log) : log'[n] = log[n]
         /\ log'[Len(log) + 1] = [key |-> run[w].key, hash |-> run[w].batch,
                                  prev |-> run[w].prev, status |-> status]
<1> DEFINE entry == [key |-> run[w].key, hash |-> run[w].batch,
                     prev |-> run[w].prev, status |-> status]
<1>1. log \in Seq(Entry)
  BY DEF Logged, TypeOK
<1>2. entry \in Entry
  BY DEF Logged, TypeOK, Run, Entry
<1>3. log' = Append(log, entry)
  BY DEF Logged, LogEntry
<1> HIDE DEF entry
<1>4. /\ log' \in Seq(Entry)
      /\ Len(log') = Len(log) + 1
      /\ \A n \in 1 .. Len(log) : log'[n] = log[n]
      /\ log'[Len(log) + 1] = entry
  BY <1>1, <1>2, <1>3
<1> QED BY <1>4 DEF entry

\* A failed archive leaves the successes alone, a successful one is the last.
LEMMA SuccessesAfter ==
  ASSUME NEW w \in Workers, NEW status \in {"SUCCESS", "FAILED"}, Logged(w, status)
  PROVE  Successes' = IF status = "SUCCESS" THEN Successes \cup {Len(log) + 1} ELSE Successes
<1>1. log \in Seq(Entry) /\ Len(log) \in Nat
  BY DEF Logged, TypeOK
<1> DEFINE next == Len(log) + 1
<1>2. /\ log'[next].status = status
      /\ \A n \in 1 .. Len(log) : log'[n] = log[n]
      /\ Len(log') = next
  <2>1. log'[next] = [key |-> run[w].key, hash |-> run[w].batch,
                      prev |-> run[w].prev, status |-> status]
    BY LogAppended
  <2>2. log'[next].status = status
    BY <2>1
  <2> QED BY <2>2, LogAppended
<1> HIDE DEF next
<1>3. 1 .. next = (1 .. Len(log)) \cup {next}
  BY <1>1 DEF next
<1>4. Successes' = {n \in (1 .. Len(log)) \cup {next} : log'[n].status = "SUCCESS"}
  BY <1>2, <1>3 DEF Successes
<1> HIDE DEF Logged
<1>5. \A n : n \in Successes' <=> n \in Successes \/ (n = next /\ status = "SUCCESS")
  <2>1. next \notin 1 .. Len(log)
    BY <1>1 DEF next
  <2> QED BY <1>2, <1>4, <2>1 DEF Successes
<1>6. CASE status = "SUCCESS"
  BY <1>5, <1>6 DEF next
<1>7. CASE status = "FAILED"
  BY <1>5, <1>7
<1> QED BY <1>6, <1>7

LEMMA SuccessesAreNumbers ==
  ASSUME TypeOK
  PROVE  Successes \subseteq 1 .. Len(log) /\ Len(log) \in Nat
BY DEF TypeOK, Successes

LEMMA LastAfter ==
  ASSUME LastInv, NEW w \in Workers, NEW status \in {"SUCCESS", "FAILED"}, Logged(w, status)
  PROVE  LastInv'
<1>1. CASE status = "FAILED"
  <2>1. Successes' = Successes
    BY <1>1, SuccessesAfter
  <2> QED BY <2>1 DEF LastInv, HasLast
<1>2. CASE status = "SUCCESS"
  <2> DEFINE next == Len(log) + 1
  <2>1. Successes' = Successes \cup {next}
    BY <1>2, SuccessesAfter
  <2>2. Successes \subseteq 1 .. Len(log) /\ Len(log) \in Nat
    BY SuccessesAreNumbers DEF Logged
  <2>3. HasLast(Successes)'
    <3>1. \A k \in Successes' : next >= k
      BY <2>1, <2>2
    <3> QED BY <2>1, <3>1 DEF HasLast
  <2>4. ASSUME NEW n \in Nat PROVE HasLast({m \in Successes : m < n})'
    <3>1. CASE n <= next
      <4>1. {m \in Successes' : m < n} = {m \in Successes : m < n}
        BY <2>1, <2>2, <3>1
      <4> QED BY <4>1 DEF LastInv, HasLast
    <3>2. CASE n > next
      <4>1. \A m \in Successes' : m < n
        BY <2>1, <2>2, <3>2
      <4>2. {m \in Successes' : m < n} = Successes'
        BY <4>1
      <4> QED BY <2>3, <4>2 DEF HasLast
    <3> QED BY <2>2, <3>1, <3>2
  <2> QED BY <2>3, <2>4 DEF LastInv
<1> QED BY <1>1, <1>2

-----------------------------------------------------------------------------
(***************************************************************************)
(* Types.                                                                  *)
(***************************************************************************)
Base == TypeOK /\ LastInv /\ BatchInv

LEMMA TypeNext == Base /\ [Next]_vars => Base'
<1> SUFFICES ASSUME Base, [Next]_vars PROVE Base'
  OBVIOUS
<1> USE DEF Base
<1>1. ASSUME UNCHANGED log PROVE LastInv'
  BY <1>1 DEF LastInv, HasLast, Successes
<1>2. LastHash \in Hashes
  BY LastHashType, MaxIsLast DEF LastInv
<1>3. ASSUME NEW w \in Workers, Begin(w) \/ Leave(w) \/ Crash(w) PROVE Base'
  <2>1. \E r \in Run : run' = [run EXCEPT ![w] = r]
    BY <1>3, NewRunType DEF Begin, Leave, Crash, TypeOK, Keys
  <2> QED BY <1>1, <1>3, <2>1 DEF Begin, Leave, Crash, TypeOK, BatchInv, systemVars, Places
<1>4. ASSUME NEW w \in Workers, NEW rows \in SUBSET Records, Read(w, rows) PROVE Base'
  <2>0. PICK prev \in PrevHashes : run' = [run EXCEPT ![w].batch = rows, ![w].prev = prev]
    BY <1>4 DEF Read
  <2>p. prev \in Hashes
    BY <1>2 DEF PrevHashes, NoHash, Hashes
  <2>1. \E r \in Run : run' = [run EXCEPT ![w] = r]
    BY <2>0, <2>p DEF TypeOK, Run, Hashes
  <2>2. TypeOK'
    <3>1. UNCHANGED <<systemVars, lock>> /\ at' = [at EXCEPT ![w] = "uploading"]
      BY <1>4 DEF Read
    <3> QED BY <2>1, <3>1 DEF TypeOK, systemVars, Places
  <2>3. \A v \in Workers : run'[v].batches = run[v].batches /\ (v # w => at'[v] = at[v])
    BY <1>4, <2>0 DEF Read, TypeOK, Run
  <2>4. BatchInv'
    BY <1>4, <2>3 DEF Read, MayReadMore, BatchInv
  <2> QED BY <1>1, <1>4, <2>2, <2>4 DEF Read, systemVars
<1>5. ASSUME NEW w \in Workers, Finish(w) \/ CommitFails(w) PROVE Base'
  BY <1>1, <1>5 DEF Finish, CommitFails, TypeOK, BatchInv, systemVars, Places
<1>6. ASSUME NEW w \in Workers, Upload(w) \/ UploadFails(w) PROVE Base'
  <2>1. run[w].key \in Keys /\ run[w].batch \in SUBSET Records
    BY DEF TypeOK, Run, Hashes
  <2> QED BY <1>1, <1>6, <2>1 DEF Upload, UploadFails, RefusalReported, TypeOK, BatchInv, Places
<1>7. ASSUME NEW w \in Workers, Refuse(w) PROVE Base'
  <2>1. Logged(w, "FAILED")
    BY <1>7 DEF Logged, Refuse
  <2> QED BY <1>7, <2>1, LogAppended, LastAfter DEF Refuse, TypeOK, BatchInv, Places
<1>8. ASSUME NEW w \in Workers, Commit(w) PROVE Base'
  <2>1. Logged(w, "SUCCESS")
    BY <1>8 DEF Logged, Commit
  <2>2. run[w].batches + 1 \in 0 .. MaxBatches
    BY <1>8 DEF Commit, BatchInv, TypeOK, Run
  <2>3. run' \in [Workers -> Run]
    BY <1>8, <2>2 DEF Commit, TypeOK, Run
  <2> QED BY <1>8, <2>1, <2>3, LogAppended, LastAfter DEF Commit, TypeOK, BatchInv, Places
<1>9. CASE Expire \/ Tick \/ (\E r \in Records : Ages(r)) \/ UNCHANGED vars
  BY <1>1, <1>9 DEF Expire, Tick, Ages, vars, systemVars, TypeOK, BatchInv, Keys
<1> QED BY <1>3, <1>4, <1>5, <1>6, <1>7, <1>8, <1>9 DEF Next, Task

LEMMA Typed == Spec => []Base
<1>1. Init => LastInv /\ BatchInv
  BY DEF Init, LastInv, HasLast, Successes, BatchInv
<1>2. Init => Base
  BY <1>1, TypeInit DEF Base
<1> QED BY <1>2, TypeNext, PTL DEF Spec

\* Type correctness of the tables, the objects, the lock and the runs.
THEOREM TypeCorrect == Spec => []TypeOK
<1>1. Base => TypeOK
  BY DEF Base
<1> QED BY <1>1, Typed, PTL

-----------------------------------------------------------------------------
(***************************************************************************)
(* One replica at a time.                                                  *)
(***************************************************************************)
LEMMA RunnerNext == TypeOK /\ OneRunner /\ [Next]_vars => OneRunner'
<1> SUFFICES ASSUME TypeOK, OneRunner, [Next]_vars PROVE OneRunner'
  OBVIOUS
<1> USE DEF OneRunner
<1>1. ASSUME NEW w \in Workers, Task(w) \/ UploadFails(w) \/ CommitFails(w) \/ Crash(w)
      PROVE  OneRunner'
  <2>1. CASE Begin(w)
    <3>1. \A v \in Workers : at[v] = "idle"
      BY <2>1 DEF Begin, LockIsFree
    <3>2. lock' = w /\ \A v \in Workers : v # w => at'[v] = at[v]
      BY <2>1 DEF Begin, TypeOK
    <3> QED BY <3>1, <3>2
  <2>2. CASE Leave(w)
    <3>1. \A v \in Workers : v # w => at[v] = "idle"
      BY <2>2 DEF Leave
    <3>2. at'[w] = "idle" /\ \A v \in Workers : v # w => at'[v] = at[v]
      BY <2>2 DEF Leave, TypeOK
    <3> QED BY <3>1, <3>2
  <2>3. CASE ~Begin(w) /\ ~Leave(w)
    <3>1. lock' = lock /\ at[w] # "idle"
      BY <1>1, <2>3 DEF Task, Finish, Upload, UploadFails, Commit, Refuse, Read, CommitFails, Crash
    <3>2. \A v \in Workers : v # w => at'[v] = at[v]
      BY <1>1, <2>3 DEF Task, Finish, Upload, UploadFails, RefusalReported, Commit, Refuse, Read,
                       CommitFails, Crash, TypeOK
    <3> QED BY <3>1, <3>2
  <2> QED BY <2>1, <2>2, <2>3
<1>2. CASE Expire
  BY <1>2 DEF Expire, OwnerIsGone
<1>3. CASE Tick \/ (\E r \in Records : Ages(r)) \/ UNCHANGED vars
  BY <1>3 DEF Tick, Ages, vars
<1> QED BY <1>1, <1>2, <1>3 DEF Next

\* Two replicas are never in the task together, whatever fails: the lock of
\* tasks/lock.py is taken by SET NX, released by its owner, and expires only
\* when its owner is gone.
THEOREM MutualExclusion == Spec => []OneRunner
<1>1. Init => OneRunner
  BY DEF Init, OneRunner
<1>2. Base => TypeOK
  BY DEF Base
<1> QED BY <1>1, <1>2, RunnerNext, Typed, PTL DEF Spec

-----------------------------------------------------------------------------
(***************************************************************************)
(* What the runner has read is still true when it commits, because nobody  *)
(* else changes the table, the log or the objects meanwhile.               *)
(***************************************************************************)
RunInv ==
  /\ \A w \in Workers : at[w] \in {"uploading", "uploaded"} =>
       run[w].batch \subseteq hot /\ run[w].prev \in {NoHash, LastHash}
  /\ \A w \in Workers : at[w] = "uploaded" => objects[run[w].key] = run[w].batch

MovedInv == MovedOnce /\ \A n \in Successes : log[n].hash \cap hot = {}

LEMMA OthersAreIdle ==
  ASSUME OneRunner, NEW w \in Workers, at[w] # "idle", NEW v \in Workers, v # w
  PROVE  at[v] = "idle"
BY DEF OneRunner

\* The parts of the state that the invariants speak of.
LEMMA SameLog ==
  ASSUME UNCHANGED log
  PROVE  /\ Successes' = Successes
         /\ LastHash' = LastHash
         /\ \A n : HashBefore(n)' = HashBefore(n)
BY DEF Successes, LastHash, HashBefore

LEMMA RunNext == Base /\ OneRunner /\ RunInv /\ [Next]_vars => RunInv'
<1> SUFFICES ASSUME Base, OneRunner, RunInv, [Next]_vars PROVE RunInv'
  OBVIOUS
<1> USE DEF RunInv
<1>1. ASSUME NEW w \in Workers, Begin(w) \/ Leave(w) \/ Crash(w) \/ Finish(w) \/ CommitFails(w)
      PROVE  RunInv'
  <2>1. /\ UNCHANGED <<hot, log, objects>>
        /\ \A v \in Workers : v # w => at'[v] = at[v] /\ run'[v] = run[v]
        /\ at'[w] \notin {"uploading", "uploaded"}
    BY <1>1 DEF Begin, Leave, Crash, Finish, CommitFails, systemVars, Base, TypeOK
  <2> QED BY <2>1, SameLog
<1>2. ASSUME NEW w \in Workers, NEW rows \in SUBSET Records, Read(w, rows) PROVE RunInv'
  <2>1. /\ UNCHANGED <<hot, log, objects>>
        /\ \A v \in Workers : v # w => at'[v] = at[v] /\ run'[v] = run[v]
        /\ at'[w] = "uploading" /\ run'[w].batch = rows /\ run'[w].prev \in {NoHash, LastHash}
    BY <1>2 DEF Read, PrevHashes, systemVars, Base, TypeOK, Run
  <2>2. rows \subseteq hot
    BY <1>2 DEF Read, IsBatch, Eligible
  <2> QED BY <2>1, <2>2, SameLog
<1>3. ASSUME NEW w \in Workers, Upload(w) \/ UploadFails(w) PROVE RunInv'
  <2>1. /\ UNCHANGED <<hot, log, run>>
        /\ \A v \in Workers : v # w => at'[v] = at[v] /\ at[v] = "idle"
        /\ at'[w] = "uploaded" => at[w] = "uploading" /\ objects' = [objects EXCEPT ![run[w].key] = run[w].batch]
        /\ at'[w] \in {"uploaded", "refused"}
    BY <1>3, OthersAreIdle DEF Upload, UploadFails, RefusalReported, Base, TypeOK
  <2>2. run[w].key \in Keys
    BY DEF Base, TypeOK, Run
  <2>3. at'[w] = "uploaded" => objects'[run[w].key] = run[w].batch
    BY <2>1, <2>2 DEF Base, TypeOK
  <2> QED BY <2>1, <2>3, SameLog
<1>4. ASSUME NEW w \in Workers, Commit(w) \/ Refuse(w) PROVE RunInv'
  <2>1. /\ \A v \in Workers : v # w => at'[v] = at[v] /\ at[v] = "idle"
        /\ at'[w] \in {"reading", "leaving"}
    BY <1>4, OthersAreIdle DEF Commit, Refuse, Base, TypeOK
  <2> QED BY <2>1
<1>5. CASE Expire \/ Tick \/ (\E r \in Records : Ages(r)) \/ UNCHANGED vars
  BY <1>5, SameLog DEF Expire, Tick, Ages, vars, systemVars
<1> QED BY <1>1, <1>2, <1>3, <1>4, <1>5 DEF Next, Task

\* What was archived stays as it was, with the archive before it; a new
\* success comes right after the last one.
LEMMA ArchivesStay ==
  ASSUME Base, NEW w \in Workers, NEW status \in {"SUCCESS", "FAILED"}, LogEntry(w, status)
  PROVE  /\ \A n \in Successes : log'[n] = log[n] /\ HashBefore(n)' = HashBefore(n)
         /\ status = "FAILED" => Successes' = Successes
         /\ status = "SUCCESS" =>
              \E next \in Nat : /\ next \notin Successes
                               /\ Successes' = Successes \cup {next}
                               /\ HashBefore(next)' = LastHash
                               /\ log'[next].hash = run[w].batch
                               /\ log'[next].key = run[w].key
                               /\ log'[next].prev = run[w].prev
<1>1. Logged(w, status)
  BY DEF Logged, Base
<1>3. Successes \subseteq 1 .. Len(log) /\ Len(log) \in Nat
  BY SuccessesAreNumbers DEF Base
<1>0. PICK next \in Nat : next = Len(log) + 1
  BY <1>3
<1>2. Successes' = IF status = "SUCCESS" THEN Successes \cup {next} ELSE Successes
  BY <1>0, <1>1, SuccessesAfter
<1>4. \A n \in Successes : log'[n] = log[n]
  BY <1>1, <1>3, LogAppended
<1>5. ASSUME NEW n \in Successes PROVE HashBefore(n)' = HashBefore(n)
  <2> DEFINE before == {m \in Successes : m < n}
  <2>1. {m \in Successes' : m < n} = before
    BY <1>0, <1>2, <1>3
  <2>2. HasLast(before)
    BY <1>3 DEF Base, LastInv
  <2>3. before # {} => log'[Max(before)] = log[Max(before)]
    BY <1>4, <2>2, MaxIsLast
  <2> HIDE DEF before
  <2>4. HashBefore(n) = IF before = {} THEN NoHash ELSE log[Max(before)].hash
    BY DEF HashBefore, before
  <2>5. HashBefore(n)' = IF before = {} THEN NoHash ELSE log'[Max(before)].hash
    BY <2>1 DEF HashBefore
  <2> QED BY <2>3, <2>4, <2>5
<1>6. CASE status = "SUCCESS"
  <2>1. log'[next] = [key |-> run[w].key, hash |-> run[w].batch,
                      prev |-> run[w].prev, status |-> status]
    BY <1>0, <1>1, LogAppended
  <2>2. /\ log'[next].hash = run[w].batch
        /\ log'[next].key = run[w].key
        /\ log'[next].prev = run[w].prev
    BY <2>1
  <2>3. next \notin Successes /\ \A m \in Successes : m < next
    BY <1>0, <1>3
  <2>4. {m \in Successes' : m < next} = Successes
    BY <1>2, <1>6, <2>3
  <2>5. Successes # {} => log'[Max(Successes)] = log[Max(Successes)]
    BY <1>4, MaxIsLast DEF Base, LastInv
  <2>6. HashBefore(next)' = LastHash
    BY <2>4, <2>5 DEF HashBefore, LastHash
  <2> QED BY <1>2, <1>4, <1>5, <1>6, <2>2, <2>3, <2>6
<1>7. CASE status = "FAILED"
  BY <1>2, <1>4, <1>5, <1>7
<1> QED BY <1>6, <1>7

\* Only a commit and a refusal touch the log and the hot table.
LEMMA OthersKeepLog ==
  ASSUME [Next]_vars, \A w \in Workers : ~Commit(w) /\ ~Refuse(w)
  PROVE  UNCHANGED <<log, hot>>
BY DEF Next, Task, Begin, Finish, Upload, Leave, Read, UploadFails, CommitFails, Crash,
       Expire, Tick, Ages, vars, systemVars

LEMMA MovedNext ==
  ASSUME Base, RunInv, MovedInv, LinksAreTrue, [Next]_vars
  PROVE  MovedInv' /\ LinksAreTrue'
<1>1. CASE UNCHANGED <<log, hot>>
  <2>1. Successes' = Successes /\ \A n : HashBefore(n)' = HashBefore(n)
    BY <1>1, SameLog
  <2> QED BY <1>1, <2>1 DEF MovedInv, MovedOnce, LinksAreTrue
<1>2. ASSUME NEW w \in Workers, Refuse(w) PROVE MovedInv' /\ LinksAreTrue'
  <2>1. LogEntry(w, "FAILED") /\ hot' = hot
    BY <1>2 DEF Refuse
  <2>2. /\ Successes' = Successes
        /\ \A n \in Successes : log'[n] = log[n] /\ HashBefore(n)' = HashBefore(n)
    BY <2>1, ArchivesStay
  <2> QED BY <2>1, <2>2 DEF MovedInv, MovedOnce, LinksAreTrue
<1>3. ASSUME NEW w \in Workers, Commit(w) PROVE MovedInv' /\ LinksAreTrue'
  <2>1. LogEntry(w, "SUCCESS") /\ hot' = hot \ run[w].batch
    BY <1>3 DEF Commit
  <2>2. run[w].batch \subseteq hot /\ run[w].prev \in {NoHash, LastHash}
    BY <1>3 DEF RunInv, Commit
  <2>3. \A n \in Successes : log'[n] = log[n] /\ HashBefore(n)' = HashBefore(n)
    BY <2>1, ArchivesStay
  <2>4. PICK next \in Nat : /\ next \notin Successes
                            /\ Successes' = Successes \cup {next}
                            /\ HashBefore(next)' = LastHash
                            /\ log'[next].hash = run[w].batch
                            /\ log'[next].prev = run[w].prev
    BY <2>1, ArchivesStay
  <2>5. MovedInv'
    BY <2>1, <2>2, <2>3, <2>4 DEF MovedInv, MovedOnce
  <2>6. LinksAreTrue'
    BY <2>2, <2>3, <2>4 DEF LinksAreTrue
  <2> QED BY <2>5, <2>6
<1> QED BY <1>1, <1>2, <1>3, OthersKeepLog

ArchiveInv == RunInv /\ MovedInv /\ LinksAreTrue

LEMMA Archived == Spec => []ArchiveInv
<1>1. Init => ArchiveInv
  BY DEF Init, ArchiveInv, RunInv, MovedInv, MovedOnce, LinksAreTrue, Successes
<1>2. Base /\ OneRunner /\ ArchiveInv /\ [Next]_vars => ArchiveInv'
  BY RunNext, MovedNext DEF ArchiveInv
<1> QED BY <1>1, <1>2, Typed, MutualExclusion, PTL DEF Spec

\* No record is in two successful archives.
THEOREM NothingMovedTwice == Spec => []MovedOnce
<1>1. ArchiveInv => MovedOnce
  BY DEF ArchiveInv, MovedInv
<1> QED BY <1>1, Archived, PTL

\* prev_sha256 is absent or the hash of the successful archive right before.
THEOREM LinksHold == Spec => []LinksAreTrue
<1>1. ArchiveInv => LinksAreTrue
  BY DEF ArchiveInv
<1> QED BY <1>1, Archived, PTL

\* A record that leaves the hot table is in a cold object at that moment.
THEOREM ColdFirst == Spec => ColdBeforeHotLeaves
<1>1. Base /\ ArchiveInv /\ [Next]_vars
        => \A r \in hot \ hot' : \E k \in Keys : r \in objects[k]
  <2> SUFFICES ASSUME Base, ArchiveInv, [Next]_vars, NEW r \in hot \ hot'
               PROVE  \E k \in Keys : r \in objects[k]
    OBVIOUS
  <2>1. PICK w \in Workers : Commit(w)
    BY DEF Next, Task, Begin, Finish, Upload, Refuse, Leave, Read, UploadFails, CommitFails,
           Crash, Expire, Tick, Ages, vars, systemVars
  <2>2. r \in run[w].batch /\ objects[run[w].key] = run[w].batch
    BY <2>1 DEF Commit, ArchiveInv, RunInv
  <2>3. run[w].key \in Keys
    BY DEF Base, TypeOK, Run
  <2> QED BY <2>2, <2>3
<1> QED BY <1>1, Typed, Archived, PTL DEF Spec, ColdBeforeHotLeaves

-----------------------------------------------------------------------------
(***************************************************************************)
(* When the hash chain has no gap: whatever else fails, it needs only that *)
(* the swallowed lookup does not.                                          *)
(***************************************************************************)
LookupsSucceed ==
  [][\A w \in Workers : at[w] = "reading" /\ at'[w] = "uploading" => run'[w].prev = LastHash]_vars

\* Whoever is going to log a success has the last hash.
PrevInv == \A w \in Workers : at[w] \in {"uploading", "uploaded"} => run[w].prev = LastHash

LEMMA PrevNext ==
  ASSUME Base, OneRunner, PrevInv, [Next]_vars,
         \A w \in Workers : at[w] = "reading" /\ at'[w] = "uploading" => run'[w].prev = LastHash
  PROVE  PrevInv'
<1> USE DEF PrevInv
<1>1. ASSUME NEW w \in Workers, NEW rows \in SUBSET Records, Read(w, rows) PROVE PrevInv'
  <2>1. /\ UNCHANGED log
        /\ \A v \in Workers : v # w => at'[v] = at[v] /\ run'[v] = run[v]
        /\ run'[w].prev = LastHash
    BY <1>1 DEF Read, systemVars, Base, TypeOK, Run
  <2> QED BY <2>1, SameLog
<1>2. ASSUME NEW w \in Workers, Commit(w) \/ Refuse(w) PROVE PrevInv'
  <2>1. /\ \A v \in Workers : v # w => at'[v] = at[v] /\ at[v] = "idle"
        /\ at'[w] \in {"reading", "leaving"}
    BY <1>2, OthersAreIdle DEF Commit, Refuse, Base, TypeOK
  <2> QED BY <2>1
<1>3. ASSUME NEW w \in Workers,
             Begin(w) \/ Leave(w) \/ Crash(w) \/ Finish(w) \/ CommitFails(w)
      PROVE  PrevInv'
  <2>1. /\ UNCHANGED log
        /\ \A v \in Workers : v # w => at'[v] = at[v] /\ run'[v] = run[v]
        /\ at'[w] \notin {"uploading", "uploaded"}
    BY <1>3 DEF Begin, Leave, Crash, Finish, CommitFails, systemVars, Base, TypeOK
  <2> QED BY <2>1, SameLog
<1>4. ASSUME NEW w \in Workers, Upload(w) \/ UploadFails(w) PROVE PrevInv'
  <2>1. /\ UNCHANGED <<log, run>> /\ at[w] = "uploading"
        /\ \A v \in Workers : v # w => at'[v] = at[v]
    BY <1>4 DEF Upload, UploadFails, Base, TypeOK
  <2> QED BY <2>1, SameLog
<1>5. CASE Expire \/ Tick \/ (\E r \in Records : Ages(r)) \/ UNCHANGED vars
  BY <1>5, SameLog DEF Expire, Tick, Ages, vars, systemVars
<1> QED BY <1>1, <1>2, <1>3, <1>4, <1>5 DEF Next, Task

LEMMA ChainNext ==
  ASSUME Base, PrevInv, ChainUnbroken, [Next]_vars
  PROVE  ChainUnbroken'
<1>1. CASE UNCHANGED <<log, hot>>
  BY <1>1, SameLog DEF ChainUnbroken
<1>2. ASSUME NEW w \in Workers, Refuse(w) PROVE ChainUnbroken'
  <2>1. LogEntry(w, "FAILED")
    BY <1>2 DEF Refuse
  <2> QED BY <2>1, ArchivesStay DEF ChainUnbroken
<1>3. ASSUME NEW w \in Workers, Commit(w) PROVE ChainUnbroken'
  <2>1. LogEntry(w, "SUCCESS") /\ run[w].prev = LastHash
    BY <1>3 DEF Commit, PrevInv
  <2>2. \A n \in Successes : log'[n] = log[n] /\ HashBefore(n)' = HashBefore(n)
    BY <2>1, ArchivesStay
  <2>3. \E next \in Nat : /\ Successes' = Successes \cup {next}
                          /\ HashBefore(next)' = LastHash
                          /\ log'[next].prev = run[w].prev
    BY <2>1, ArchivesStay
  <2> QED BY <2>1, <2>2, <2>3 DEF ChainUnbroken
<1> QED BY <1>1, <1>2, <1>3, OthersKeepLog

\* Every successful archive links to the one before it, across failed
\* archives, crashes and replicas, as long as no lookup of the last hash fails.
THEOREM ChainNeedsLookups == Spec /\ LookupsSucceed => []ChainUnbroken
<1>1. Init => PrevInv /\ ChainUnbroken
  BY DEF Init, PrevInv, ChainUnbroken, Successes
<1>2. Base /\ OneRunner /\ PrevInv /\ ChainUnbroken /\ [Next]_vars
        /\ [\A w \in Workers :
              at[w] = "reading" /\ at'[w] = "uploading" => run'[w].prev = LastHash]_vars
      => (PrevInv /\ ChainUnbroken)'
  <2>1. CASE UNCHANGED vars
    <3>1. UNCHANGED <<log, hot>> /\ UNCHANGED <<at, run>>
      BY <2>1 DEF vars
    <3> QED BY <3>1, SameLog DEF PrevInv, ChainUnbroken
  <2> QED BY <2>1, PrevNext, ChainNext
<1> QED BY <1>1, <1>2, Typed, MutualExclusion, PTL DEF Spec, LookupsSucceed

-----------------------------------------------------------------------------
(***************************************************************************)
(* What one key for all batches of a run breaks: that every record is in   *)
(* one of the two places, and that the objects have the hashes the log     *)
(* states.  Both are kept by every behaviour in which no upload replaces   *)
(* an object, whatever else fails.                                         *)
(***************************************************************************)
ObjectsAreKept == [][\A k \in Keys : objects[k] # {} => objects'[k] = objects[k]]_vars

\* No archive is empty, and the object of a successful one is there.
StoredInv ==
  /\ \A w \in Workers : at[w] \in {"uploading", "uploaded"} => run[w].batch # {}
  /\ \A n \in Successes : log[n].hash # {} /\ objects[log[n].key] = log[n].hash

LEMMA StoredNext ==
  ASSUME Base, ArchiveInv, StoredInv, [Next]_vars,
         \A k \in Keys : objects[k] # {} => objects'[k] = objects[k]
  PROVE  StoredInv'
<1>0. \A n \in Successes : log[n].key \in Keys
  <2>1. \A n \in Successes : log[n] \in Entry
    BY SuccessesAreNumbers DEF Base, TypeOK
  <2> QED BY <2>1 DEF Entry
<1>1. \A n \in Successes : objects'[log[n].key] = log[n].hash
  BY <1>0 DEF StoredInv
<1>2. ASSUME UNCHANGED log,
             \A w \in Workers : at'[w] \in {"uploading", "uploaded"} => run'[w].batch # {}
      PROVE  StoredInv'
  BY <1>1, <1>2, SameLog DEF StoredInv
<1>3. ASSUME NEW w \in Workers, Begin(w) \/ Leave(w) \/ Crash(w) \/ Finish(w) \/ CommitFails(w)
      PROVE  StoredInv'
  <2>1. /\ UNCHANGED log
        /\ \A v \in Workers : v # w => at'[v] = at[v] /\ run'[v] = run[v]
        /\ at'[w] \notin {"uploading", "uploaded"}
    BY <1>3 DEF Begin, Leave, Crash, Finish, CommitFails, systemVars, Base, TypeOK
  <2> QED BY <1>2, <2>1 DEF StoredInv
<1>4. ASSUME NEW w \in Workers, NEW rows \in SUBSET Records, Read(w, rows) PROVE StoredInv'
  <2>1. /\ UNCHANGED log
        /\ \A v \in Workers : v # w => at'[v] = at[v] /\ run'[v] = run[v]
        /\ run'[w].batch = rows /\ rows # {}
    BY <1>4 DEF Read, IsBatch, systemVars, Base, TypeOK, Run
  <2> QED BY <1>2, <2>1 DEF StoredInv
<1>5. ASSUME NEW w \in Workers, Upload(w) \/ UploadFails(w) PROVE StoredInv'
  <2>1. /\ UNCHANGED <<log, run>> /\ at[w] = "uploading"
        /\ \A v \in Workers : v # w => at'[v] = at[v]
    BY <1>5 DEF Upload, UploadFails, Base, TypeOK
  <2> QED BY <1>2, <2>1 DEF StoredInv
<1>6. ASSUME NEW w \in Workers, NEW status \in {"SUCCESS", "FAILED"}, LogEntry(w, status),
             at'[w] \in {"reading", "leaving"}, \A v \in Workers : v # w => at'[v] = at[v],
             \A v \in Workers : run'[v].batch = run[v].batch, UNCHANGED objects,
             status = "SUCCESS" => at[w] = "uploaded"
      PROVE  StoredInv'
  <2>1. Logged(w, status)
    BY <1>6 DEF Logged, Base
  <2>2. Successes \subseteq 1 .. Len(log)
    BY SuccessesAreNumbers DEF Base
  <2>3. \A n \in Successes : log'[n] = log[n]
    BY <2>1, <2>2, LogAppended
  <2>4. \A w1 \in Workers : at'[w1] \in {"uploading", "uploaded"} => run'[w1].batch # {}
    BY <1>6 DEF StoredInv
  <2>5. CASE status = "FAILED"
    BY <1>1, <2>1, <2>3, <2>4, <2>5, SuccessesAfter DEF StoredInv
  <2>6. CASE status = "SUCCESS"
    <3> DEFINE next == Len(log) + 1
    <3>1. Successes' = Successes \cup {next}
      BY <2>1, <2>6, SuccessesAfter
    <3>2. log'[next].hash = run[w].batch /\ log'[next].key = run[w].key
      <4>1. log'[next] = [key |-> run[w].key, hash |-> run[w].batch,
                          prev |-> run[w].prev, status |-> status]
        BY <2>1, LogAppended
      <4> QED BY <4>1
    <3>3. run[w].batch # {} /\ objects[run[w].key] = run[w].batch
      BY <1>6, <2>6 DEF StoredInv, ArchiveInv, RunInv
    <3> HIDE DEF next
    <3> QED BY <1>1, <1>6, <2>3, <2>4, <3>1, <3>2, <3>3 DEF StoredInv
  <2> QED BY <2>5, <2>6
<1>7. ASSUME NEW w \in Workers, Commit(w) \/ Refuse(w) PROVE StoredInv'
  <2>0. run \in [Workers -> Run] /\ \A v \in Workers : run[v] \in Run
    BY DEF Base, TypeOK
  <2>1. /\ at'[w] \in {"reading", "leaving"} /\ \A v \in Workers : v # w => at'[v] = at[v]
        /\ UNCHANGED objects
    BY <1>7 DEF Commit, Refuse, Base, TypeOK
  <2>3. \A v \in Workers : run'[v].batch = run[v].batch
    <3>1. CASE Refuse(w)
      BY <3>1 DEF Refuse
    <3>2. CASE Commit(w)
      <4>1. run' = [run EXCEPT ![w].batches = run[w].batches + 1]
        BY <3>2 DEF Commit
      <4> QED BY <2>0, <4>1 DEF Run
    <3> QED BY <1>7, <3>1, <3>2
  <2>2. \E status \in {"SUCCESS", "FAILED"} :
          LogEntry(w, status) /\ (status = "SUCCESS" => at[w] = "uploaded")
    BY <1>7 DEF Commit, Refuse
  <2> QED BY <1>6, <2>1, <2>2, <2>3
<1>8. CASE Expire \/ Tick \/ (\E r \in Records : Ages(r)) \/ UNCHANGED vars
  BY <1>2, <1>8 DEF Expire, Tick, Ages, vars, systemVars, StoredInv
<1> QED BY <1>3, <1>4, <1>5, <1>7, <1>8 DEF Next, Task

\* The object of every successful archive would have the hash its log entry
\* states, if every batch had a key of its own.
THEOREM HashesNeedOwnKeys == Spec /\ ObjectsAreKept => []HashesMatch
<1>1. Init => StoredInv
  BY DEF Init, StoredInv, Successes
<1>2. Base /\ ArchiveInv /\ StoredInv /\ [Next]_vars
        /\ [\A k \in Keys : objects[k] # {} => objects'[k] = objects[k]]_vars => StoredInv'
  <2>1. CASE UNCHANGED vars
    BY <2>1, SameLog DEF vars, StoredInv
  <2> QED BY <2>1, StoredNext
<1>3. StoredInv => HashesMatch
  BY DEF StoredInv, HashesMatch
<1> QED BY <1>1, <1>2, <1>3, Typed, Archived, PTL DEF Spec, ObjectsAreKept

\* No record would be lost either: it is in the hot table or in an object.
THEOREM RecordsNeedOwnKeys == Spec /\ ObjectsAreKept => []NothingLost
<1>1. Init => NothingLost
  BY DEF Init, NothingLost
<1>2. Spec => [][\A r \in hot \ hot' : \E k \in Keys : r \in objects[k]]_vars
  BY ColdFirst DEF ColdBeforeHotLeaves
<1>3. NothingLost /\ [\A r \in hot \ hot' : \E k \in Keys : r \in objects[k]]_vars
        /\ [\A k \in Keys : objects[k] # {} => objects'[k] = objects[k]]_vars => NothingLost'
  <2>1. CASE UNCHANGED vars
    BY <2>1 DEF vars, NothingLost
  <2>2. ASSUME NothingLost, NEW r \in Records,
               \A s \in hot \ hot' : \E k \in Keys : s \in objects[k],
               \A k \in Keys : objects[k] # {} => objects'[k] = objects[k]
        PROVE  r \in hot' \/ \E k \in Keys : r \in objects'[k]
    BY <2>2 DEF NothingLost
  <2> QED BY <2>1, <2>2 DEF NothingLost
<1> QED BY <1>1, <1>2, <1>3, PTL DEF Spec, ObjectsAreKept
=============================================================================
