----------------------------- MODULE LineageScan -----------------------------
(***************************************************************************)
(* The scan that derives table lineage from the scripts of the scheduling  *)
(* platform (services/lineage/dp_sync_service.py, scan_once), and the life *)
(* of the edges it writes (services/lineage/repository.py).  A round reads *)
(* the rows changed since the watermark, or all rows when it is full;      *)
(* every task is a transaction of its own; the close moves the watermark,  *)
(* confirms the edges that were seen and, after a full round, counts the   *)
(* others as missing.  Threshold full rounds in a row make an edge stale.  *)
(*                                                                         *)
(* Abstractions.  A script is the set of table edges it derives.  The      *)
(* number of a step carries that of its task, as 21 and 22 are the steps   *)
(* of task 2; that of an edge its tables, as 12 leads from table 1 to 2.   *)
(* Edges of other channels, which the search for cycles follows too, are   *)
(* left out.  gmt_modified has the resolution of a second: two changes may *)
(* share it.  The task rows change only by being dropped; their own watermark is *)
(* that of the steps over again.  A round is one batch, and rounds do not  *)
(* overlap (the lock dp_lineage_poll).  The poll interval and the backoff  *)
(* only set rounds apart.  The verdict on a complex step (of the LLM, or   *)
(* remembered from a ticket) may be anything.  turns counts what upsets    *)
(* the scan from outside, up to MaxTurns.                                  *)
(***************************************************************************)
EXTENDS Integers, FiniteSets, FiniteSetsExt

CONSTANTS
  Steps,      \* numbers of the SQL steps
  Complex,    \* those whose script needs a verdict
  Edges,      \* table edges
  Scripts,    \* what a script may derive
  Threshold,  \* full rounds until a missing edge is stale (2)
  MaxTurns    \* bound on turns

ASSUME StepsAssumption == /\ Steps \subseteq Nat /\ IsFiniteSet(Steps)
                          /\ Complex \subseteq Steps
ASSUME ScriptsAssumption == {} \in Scripts /\ Scripts \subseteq SUBSET Edges
ASSUME SizesAssumption == Threshold \in Nat \ {0} /\ MaxTurns \in Nat

VARIABLES
  script,   \* script[s]: what the script of step s derives now
  gmt,      \* gmt[s]: gmt_modified of step s
  now,      \* the clock of the platform
  dropped,  \* tasks with is_deleted = 1
  wm,       \* last_max_update, 0: none
  due,      \* the last full round is a day ago
  retry,    \* retry_task_ids of the latest finished round
  edge,     \* edge[e]: the row of e in lineage_edge
  round,    \* the round that is running
  turns

vars == <<script, gmt, now, dropped, wm, due, retry, edge, round, turns>>
platform == <<script, gmt, now, dropped>>

TaskOf(s) == s \div 10
Tasks == {TaskOf(s) : s \in Steps}
StepsOf(t) == {s \in Steps : TaskOf(s) = t}

Source(e) == e \div 10
Target(e) == e % 10
Tables == {Source(e) : e \in Edges} \cup {Target(e) : e \in Edges}

\* "none": no row; "stale": a row with the stale flag; missing stops counting
\* at Threshold, seen: last_seen_at is set
Row == [row : {"none", "active", "stale", "deleted"},
        missing : 0 .. Threshold, seen : BOOLEAN]

\* stop: cancel_event, cut: cancelled, seen: seen_pairs, works: deferred steps,
\* skipped: the edges logged as dp_sync_edge_cycle_skipped
Round == [phase : {"idle", "asked", "parsing", "judging", "closed"},
          manual : BOOLEAN, full : BOOLEAN, stop : BOOLEAN, cut : BOOLEAN,
          todo : SUBSET Tasks, failed : SUBSET Tasks, works : SUBSET Steps,
          seen : SUBSET Edges, skipped : SUBSET Edges, max : Nat,
          read : [Steps -> Scripts], fresh : SUBSET Steps]

NoRead == [s \in Steps |-> {}]
Idle == [phase |-> "idle", manual |-> FALSE, full |-> FALSE, stop |-> FALSE,
         cut |-> FALSE, todo |-> {}, failed |-> {}, works |-> {}, seen |-> {},
         skipped |-> {}, max |-> 0, read |-> NoRead, fresh |-> {}]

Init ==
  /\ script \in [Steps -> Scripts]
  /\ gmt = [s \in Steps |-> 1]
  /\ now = 1
  /\ dropped = {}
  /\ wm = 0
  /\ due = TRUE
  /\ retry = {}
  /\ edge = [e \in Edges |-> [row |-> "none", missing |-> 0, seen |-> FALSE]]
  /\ round = Idle
  /\ turns = 0

Turn == turns < MaxTurns /\ turns' = turns + 1

-----------------------------------------------------------------------------
(* The platform and the clock *)

Edit(s) ==
  /\ Turn
  /\ TaskOf(s) \notin dropped
  /\ now' \in {now, now + 1}
  /\ \E x \in Scripts \ {script[s]} : script' = [script EXCEPT ![s] = x]
  /\ gmt' = [gmt EXCEPT ![s] = now']
  /\ UNCHANGED <<dropped, wm, due, retry, edge, round>>

DropTask(t) ==
  /\ Turn
  /\ t \notin dropped
  /\ dropped' = dropped \cup {t}
  /\ UNCHANGED <<script, gmt, now, wm, due, retry, edge, round>>

DayPasses ==
  /\ ~due
  /\ due' = TRUE
  /\ UNCHANGED <<platform, wm, retry, edge, round, turns>>

-----------------------------------------------------------------------------
(* Rows of lineage_edge *)

\* upsert_edges_with_status_batch: a deleted row comes back clean, a stale one
\* stays stale until it is marked as seen
Upserted(r) ==
  CASE r.row = "none" -> [row |-> "active", missing |-> 0, seen |-> FALSE]
    [] r.row = "deleted" -> [r EXCEPT !.row = "active", !.missing = 0]
    [] OTHER -> r
Upsert(found) == edge' = [e \in Edges |-> IF e \in found THEN Upserted(edge[e])
                                                         ELSE edge[e]]

Present(r) == r.row \in {"active", "stale"}
MarkSeen(r) == IF Present(r) THEN [row |-> "active", missing |-> 0, seen |-> TRUE]
                             ELSE r
MarkMissing(r) ==
  IF ~Present(r) \/ ~r.seen THEN r
  ELSE LET n == IF r.missing < Threshold THEN r.missing + 1 ELSE Threshold
       IN [r EXCEPT !.missing = n, !.row = IF n >= Threshold THEN "stale" ELSE @]

\* mutant of Restored: the count of missed rounds is kept
RestoredInPlace(r) == [r EXCEPT !.row = "active"]
\* restore_stale
Restored(r) == [r EXCEPT !.row = "active", !.missing = 0]

\* confirm_stale_edge and restore_stale_edge take any row that is not deleted:
\* the queue the user looks at may be old
ConfirmStale(e) ==
  /\ Turn
  /\ Present(edge[e])
  /\ edge' = [edge EXCEPT ![e].row = "deleted"]
  /\ UNCHANGED <<platform, wm, due, retry, round>>
RestoreStale(e) ==
  /\ Turn
  /\ Present(edge[e])
  /\ edge' = [edge EXCEPT ![e] = Restored(@)]
  /\ UNCHANGED <<platform, wm, due, retry, round>>

-----------------------------------------------------------------------------
(* A round *)

\* mutant of IsFull: no round is full because a day has passed
IsFullOnce(manual) == manual \/ wm = 0
IsFull(manual) == manual \/ wm = 0 \/ due

\* _changed_ids: the rows of tasks that are not dropped, past the watermark
Changed(full) == {s \in Steps : TaskOf(s) \notin dropped /\ (full \/ gmt[s] > wm)}

\* the poll task, or a manual scan, which is always full
Begin(manual) ==
  /\ round.phase = "idle"
  /\ LET full == IsFull(manual)
         rows == Changed(full)
     IN round' = [Idle EXCEPT !.phase = "asked", !.manual = manual, !.full = full,
                    !.todo = {TaskOf(s) : s \in rows} \cup retry,
                    !.max = IF rows # {} THEN Max({gmt[s] : s \in rows})
                            ELSE IF full THEN 0 ELSE wm]
  /\ UNCHANGED <<platform, wm, due, retry, edge, turns>>

\* _is_stale_snapshot: a row changed after the query is left to the next round
Fresh(s) == round.max = 0 \/ gmt[s] <= round.max

\* _prefetch_batch asks for the tasks by number, dropped or not
Prefetch ==
  /\ round.phase = "asked"
  /\ LET of == UNION {StepsOf(t) : t \in round.todo}
     IN round' = [round EXCEPT !.phase = "parsing",
                    !.read = [s \in Steps |-> IF s \in of THEN script[s] ELSE {}],
                    !.fresh = {s \in of : Fresh(s)}]
  /\ UNCHANGED <<platform, wm, due, retry, edge, turns>>

\* What follows n along the edges of F: in every set that holds n and that no
\* edge of F leaves.
Downstream(F, n) ==
  {m \in Tables : \A S \in SUBSET Tables :
     (n \in S /\ \A e \in F : Source(e) \in S => Target(e) \in S) => m \in S}

\* the edges _edges_from_many follows once those of new are written: a stale
\* row is passed over
Standing(new) == {e \in Edges : edge[e].row = "active"
                                 \/ (e \in new /\ edge[e].row # "stale")}

\* mutant of Cyclic: the probes of a step are not followed
CyclicBefore(probes, new) ==
  {e \in probes : Source(e) \in Downstream(Standing(new), Target(e))}
\* would_create_cycle_many: the probes that close a cycle, of what stands and
\* of the other probes of the step (F2)
Cyclic(probes, new) ==
  {e \in probes : Source(e) \in Downstream(Standing(new) \cup probes, Target(e))}

\* _store_sqlglot_edges, one step after the other: stored[s] is what remains
\* of step s beside what the steps before it have stored
Stores(some, stored) ==
  \A s \in some :
    stored[s] = round.read[s] \ Cyclic(round.read[s],
                                       UNION {stored[r] : r \in {r \in some : r < s}})
Storings(some) == {stored \in [some -> SUBSET Edges] : Stores(some, stored)}
Stored(stored) == UNION {stored[s] : s \in DOMAIN stored}
Skipped(stored) == UNION {round.read[s] \ stored[s] : s \in DOMAIN stored}
Noted(stored) == [round EXCEPT !.seen = @ \cup Stored(stored),
                               !.skipped = @ \cup Skipped(stored)]

\* one task: its simple steps are stored, its complex ones deferred.  done is
\* less than all steps when the user stops the scan meanwhile.
ScanTask(t, done) ==
  /\ round.phase = "parsing" /\ ~round.stop
  /\ round.todo # {} /\ t = Min(round.todo)
  /\ IF done = StepsOf(t) THEN UNCHANGED turns ELSE round.manual /\ Turn
  /\ LET fresh == done \cap round.fresh IN
     \E stored \in Storings(fresh \ Complex) :
        /\ Upsert(Stored(stored))
        /\ round' = [Noted(stored) EXCEPT
                       !.todo = @ \ {t}, !.stop = done # StepsOf(t),
                       !.works = @ \cup {s \in fresh \cap Complex :
                                           round.read[s] # {}}]
  /\ UNCHANGED <<platform, wm, due, retry>>

\* the task is rolled back after the steps done: its rows return to what they
\* were, seen_pairs keeps what it has got
TaskFails(t, done) ==
  /\ Turn
  /\ round.phase = "parsing" /\ ~round.stop
  /\ round.todo # {} /\ t = Min(round.todo)
  /\ \E stored \in Storings((done \cap round.fresh) \ Complex) :
       round' = [Noted(stored) EXCEPT !.todo = @ \ {t}, !.failed = @ \cup {t}]
  /\ UNCHANGED <<platform, wm, due, retry, edge>>

\* cancel_scan, also force_cancel_scan between two tasks
Stop ==
  /\ Turn
  /\ round.phase \in {"parsing", "judging"}
  /\ round.manual /\ ~round.stop
  /\ round' = [round EXCEPT !.stop = TRUE]
  /\ UNCHANGED <<platform, wm, due, retry, edge>>
\* force_cancel_scan within a task, which is rolled back
ForceStop(t, done) ==
  /\ Turn
  /\ round.phase = "parsing" /\ round.manual /\ ~round.stop
  /\ round.todo # {} /\ t = Min(round.todo)
  /\ \E stored \in Storings((done \cap round.fresh) \ Complex) :
       round' = [Noted(stored) EXCEPT !.stop = TRUE, !.cut = TRUE]
  /\ UNCHANGED <<platform, wm, due, retry, edge>>

\* the event is looked at before a task, before the verdicts, and before a
\* task is given its verdicts
Cut ==
  /\ round.phase \in {"parsing", "judging"}
  /\ round.stop /\ ~round.cut
  /\ round.todo # {} \/ round.works # {}
  /\ round' = [round EXCEPT !.cut = TRUE]
  /\ UNCHANGED <<platform, wm, due, retry, edge, turns>>

\* _resolve_llm_works
AskVerdicts ==
  /\ round.phase = "parsing" /\ ~round.stop
  /\ round.todo = {} /\ round.works # {}
  /\ round' = [round EXCEPT !.phase = "judging"]
  /\ UNCHANGED <<platform, wm, due, retry, edge, turns>>

Judged == Min({TaskOf(s) : s \in round.works})
\* _finish_deferred_task: agreed steps are stored, the others get a ticket
Judge(agreed) ==
  /\ round.phase = "judging" /\ ~round.stop /\ round.works # {}
  /\ agreed \subseteq round.works \cap StepsOf(Judged)
  /\ \E stored \in Storings(agreed) :
       /\ Upsert(Stored(stored))
       /\ round' = [Noted(stored) EXCEPT !.works = @ \ StepsOf(Judged)]
  /\ UNCHANGED <<platform, wm, due, retry, turns>>
\* agreed: the steps it had stored before it failed
JudgeFails(agreed) ==
  /\ Turn
  /\ round.phase = "judging" /\ ~round.stop /\ round.works # {}
  /\ agreed \subseteq round.works \cap StepsOf(Judged)
  /\ \E stored \in Storings(agreed) :
       round' = [Noted(stored) EXCEPT !.works = @ \ StepsOf(Judged),
                                     !.failed = @ \cup {Judged}]
  /\ UNCHANGED <<platform, wm, due, retry, edge>>

\* mutant of Counts: missing edges are counted though tasks have failed
CountsAlways == round.full /\ ~round.cut
Counts == round.full /\ ~round.cut /\ round.failed = {}

\* the first commit of the close: watermark, mark_seen, mark_missing
CloseEdges ==
  /\ round.phase \in {"parsing", "judging"}
  /\ round.cut \/ (round.todo = {} /\ round.works = {})
  /\ wm' = IF round.cut \/ round.max = 0 THEN wm ELSE round.max
  /\ due' = (due /\ (round.cut \/ ~round.full))
  /\ edge' = [e \in Edges |-> IF e \in round.seen THEN MarkSeen(edge[e])
                              ELSE IF Counts THEN MarkMissing(edge[e]) ELSE edge[e]]
  /\ round' = [Idle EXCEPT !.phase = "closed", !.failed = round.failed]
  /\ UNCHANGED <<platform, retry, turns>>

\* the second commit: the run log, whose failed tasks the next round takes up
CloseRun ==
  /\ round.phase = "closed"
  /\ retry' = round.failed
  /\ round' = Idle
  /\ UNCHANGED <<platform, wm, due, edge, turns>>

\* an exception, or the timeout of the job: the run log keeps both lists, or
\* none when it cannot be updated and is created anew
Abort ==
  /\ Turn
  /\ round.phase # "idle"
  /\ retry' \in {retry \cup round.failed, {}}
  /\ round' = Idle
  /\ UNCHANGED <<platform, wm, due, edge>>

\* the process is killed: the run log is left running and is passed over
Crash ==
  /\ Turn
  /\ round.phase # "idle"
  /\ round' = Idle
  /\ UNCHANGED <<platform, wm, due, retry, edge>>

Prefixes(t) == {{s \in StepsOf(t) : s < n} : n \in StepsOf(t)} \cup {StepsOf(t)}
Work ==
  \/ Prefetch
  \/ \E t \in Tasks : \E done \in Prefixes(t) : ScanTask(t, done)
  \/ Cut
  \/ AskVerdicts
  \/ \E agreed \in SUBSET round.works : Judge(agreed)
  \/ CloseEdges
  \/ CloseRun

Next ==
  \/ \E s \in Steps : Edit(s)
  \/ \E t \in Tasks : DropTask(t)
  \/ \E t \in Tasks : \E done \in Prefixes(t) : TaskFails(t, done) \/ ForceStop(t, done)
  \/ \E e \in Edges : ConfirmStale(e) \/ RestoreStale(e)
  \/ \E manual \in BOOLEAN : Begin(manual)
  \/ DayPasses
  \/ Work
  \/ Stop
  \/ \E agreed \in SUBSET round.works : JudgeFails(agreed)
  \/ Abort
  \/ Crash

Spec == Init /\ [][Next]_vars

\* the poll task runs every minute, a round that has begun goes on, days pass
FairSpec == /\ Spec
            /\ WF_vars(Begin(FALSE))
            /\ WF_vars(Work)
            /\ WF_vars(DayPasses)

-----------------------------------------------------------------------------
(* Properties *)

\* The records are well-typed, and the flag of an edge agrees with its count:
\* it is stale exactly when Threshold rounds in a row have missed it.
TypeOK ==
  /\ script \in [Steps -> Scripts]
  /\ gmt \in [Steps -> Nat]
  /\ now \in Nat
  /\ dropped \subseteq Tasks
  /\ wm \in Nat
  /\ due \in BOOLEAN
  /\ retry \subseteq Tasks
  /\ edge \in [Edges -> Row]
  /\ round \in Round
  /\ turns \in 0 .. MaxTurns
  /\ \A e \in Edges : Present(edge[e]) =>
                        (edge[e].row = "stale" <=> edge[e].missing = Threshold)

Derives(s, e) == e \in script[s] /\ TaskOf(s) \notin dropped

\* A round counts an edge as missing although a script derives it only when
\* it cannot have known better: the script was changed after the round had
\* asked for changes, the user stopped the scan, the verdict is out, or the
\* edge would have closed a cycle.  A task that fails never costs its edges
\* (the comment D3 in scan_once).
MissedForCause ==
  [][\A e \in Edges : edge'[e].missing > edge[e].missing =>
       \A s \in Steps : Derives(s, e) =>
         \/ e \notin round.read[s] \/ s \notin round.fresh \/ s \in Complex
         \/ round.stop
         \/ e \in round.skipped]_vars

\* What lineage shows follows the scripts: once a simple script stays as it
\* is, each of its edges that closes no cycle becomes active and remains so,
\* whatever failed or was cancelled before; and an edge that was seen and that
\* no script derives any more ends up stale or deleted.  (The daily full round
\* that scan_once makes.)
EdgesFollowScripts ==
  /\ \A s \in Steps \ Complex, e \in Edges :
       <>[](Derives(s, e) /\ e \notin Cyclic(script[s], {})) => <>[](edge[e].row = "active")
  /\ \A e \in Edges :
       <>[](edge[e].seen /\ \A s \in Steps : ~Derives(s, e)) => <>[](edge[e].row # "active")

OnCycle(e, rows) == Source(e) \in Downstream({d \in Edges : rows[d].row = "active"}, Target(e))
\* The scan never writes a cycle: an edge it inserts or brings back from the
\* deleted ones is on no cycle of the edges shown then, whatever the steps of
\* the same task have added.  (The docstring of would_create_cycle_many, F2.)
InsertsCloseNoCycle ==
  [][\A e \in Edges : ~Present(edge[e]) /\ Present(edge'[e]) => ~OnCycle(e, edge')]_vars

\* What would_create_cycle_many promises of the graph (repository.py:498): no
\* cycle is ever in it.  It does not hold: the search passes stale rows over,
\* and mark_seen and restore_stale bring them back without a search.
LineageIsAcyclic == \A e \in Edges : edge[e].row = "active" => ~OnCycle(e, edge)

\* What scan_once says of cancel_event (dp_sync_service.py:1167): a scan that
\* was stopped keeps the watermark.  It does not hold: after the last task
\* nobody looks at the event, and the steps left out count as scanned.
StoppedScanKeepsWatermark ==
  [][round.stop /\ round.phase # "closed" /\ round'.phase = "closed" => wm' = wm]_vars
=============================================================================
