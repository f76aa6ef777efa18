------------------------- MODULE ConflictArbitration -------------------------
(***************************************************************************)
(* Conflicts between metric definitions: the checks that detect and record *)
(* them, the desk that rules on them, the flag (pending_conflict) that     *)
(* shows them in the catalogue, and what a ruling does to the metrics.     *)
(*                                                                         *)
(* A request is one database transaction under REPEATABLE READ: it reads   *)
(* the snapshot of its first read and writes the current rows.  As in      *)
(* MetricVersions a request in `open` has taken its view and not committed *)
(* yet, and the pseudo-request Now does both at once.  No write to a       *)
(* conflict compares what it overwrites; only the unique key of the active *)
(* pair (migration 0100) can refuse one, and then the request rolls back.  *)
(*                                                                         *)
(* Abstractions.  What a check finds is a choice: a soft conflict, a hard  *)
(* one, or private data (PII), and one finding per check, since findings   *)
(* are handled alike and one by one.  A hard conflict needs two            *)
(* definitions of one code, and the check drops an entry that resolves to  *)
(* the candidate's own row: it is found only for a code nobody has         *)
(* registered, against an entry the caller supplies.  EXPERIMENTAL metrics *)
(* are handled like metrics in REVIEW, those whose source was dropped like *)
(* PUBLISHED ones.  The successor of a loser and the ruling records are    *)
(* written and not read by anything here.  Codes are neither renamed nor   *)
(* taken over from deleted metrics.  NEGOTIATING is never set by the code. *)
(*                                                                         *)
(* Much of what follows the write of a conflict is best-effort: where the  *)
(* code swallows an exception, "fail" in Ops lets the rest of the request  *)
(* be left out and the request commit all the same.                        *)
(***************************************************************************)
EXTENDS Integers, FiniteSets

CONSTANTS
  Metrics,       \* metric codes
  NoOne,         \* no metric: a NULL id, or nothing found
  MaxConflicts,  \* bound: rows of the conflict table
  Requests,      \* slots for requests whose reads and commit are apart
  Now,           \* the request that reads and commits atomically
  Ops            \* what happens besides checks of registered metrics and
                 \* decisions: "code", "unknown", "pii", "publish",
                 \* "retire", "fail" (a call whose exception is swallowed)

ASSUME NoOneAssumption == NoOne \notin Metrics
ASSUME NowAssumption == Now \notin Requests
ASSUME MaxAssumption == MaxConflicts \in Nat \ {0}
ASSUME OpsAssumption == Ops \subseteq {"code", "unknown", "pii", "publish",
                                       "retire", "fail"}

VARIABLES
  life,     \* life[m]: status of metric m, "ABSENT" before it is registered
  gone,     \* metrics whose deleted_at is set
  flagged,  \* metrics with pending_conflict
  status,   \* status[c]: status of conflict row c, "NONE" when there is none
  pair,     \* pair[c]: the two sides of c
  open,     \* slots with a request that has read and not committed
  view,     \* view[q]: what the open request q has read
  unmarked  \* history: conflicts whose flag a swallowed failure left unset

metricVars == <<life, gone>>
vars == <<life, gone, flagged, status, pair, open, view, unmarked>>

LifeStates == {"ABSENT", "DRAFT", "REVIEW", "PUBLISHED", "DEPRECATED"}
ConflictStates == {"NONE", "OPEN", "ESCALATED", "RULED", "CLOSED"}
Undecided == {"OPEN", "ESCALATED"}
Conflicts == 1 .. MaxConflicts

\* metric_codes, and which of metric_a and metric_b is known
Pair == [cand : Metrics, exist : Metrics, a : BOOLEAN, b : BOOLEAN]
NoPair == [cand |-> NoOne, exist |-> NoOne, a |-> FALSE, b |-> FALSE]
View == [life : [Metrics -> LifeStates], gone : SUBSET Metrics,
         status : [Conflicts -> ConflictStates]]
NoView == [life |-> [m \in Metrics |-> "ABSENT"], gone |-> {},
           status |-> [c \in Conflicts |-> "NONE"]]

Init ==
  /\ life = [m \in Metrics |-> "ABSENT"]
  /\ gone = {}
  /\ flagged = {}
  /\ status = [c \in Conflicts |-> "NONE"]
  /\ pair = [c \in Conflicts |-> NoPair]
  /\ open = {}
  /\ view = [q \in Requests |-> NoView]
  /\ unmarked = {}

-----------------------------------------------------------------------------
(* Transactions *)

CurrentView == [life |-> life, gone |-> gone, status |-> status]
Seen(who) == IF who = Now THEN CurrentView ELSE view[who]
Running(who) == who = Now \/ who \in open

Close(who) ==
  /\ open' = open \ {who}
  /\ view' = [q \in Requests |-> IF q = who THEN NoView ELSE view[q]]

Begin(q) ==
  /\ q \notin open
  /\ open' = open \cup {q}
  /\ view' = [view EXCEPT ![q] = CurrentView]
  /\ UNCHANGED <<metricVars, flagged, status, pair, unmarked>>

\* refused, optimistic lock lost, key violated, client gone: rollback
Abandon(q) ==
  /\ q \in open
  /\ Close(q)
  /\ UNCHANGED <<metricVars, flagged, status, pair, unmarked>>

SeenLive(who) == {m \in Metrics : /\ Seen(who).life[m] # "ABSENT"
                                  /\ m \notin Seen(who).gone}

\* update_with_optimistic_lock: row_version is the one read
Unchanged(who, m) == life[m] = Seen(who).life[m] /\ m \notin gone

-----------------------------------------------------------------------------
(* The conflict table *)

Active == {c \in Conflicts : status[c] \in Undecided}
SeenActive(who) == {c \in Conflicts : Seen(who).status[c] \in Undecided}
Sides(p) == {p.cand, p.exist}

\* block_publish: two definitions of one code
Hard(c) == pair[c].cand = pair[c].exist

\* the generated column active_pair
HasKey(p) == p.a \/ p.b
Key(p) == <<IF p.a THEN p.cand ELSE NoOne, IF p.b THEN p.exist ELSE NoOne>>

\* mutant of KeyIsFree: the table without uk_conflict_active_pair
KeyIgnored(p, others) == TRUE
KeyIsFree(p, others) ==
  HasKey(p) => \A c \in others : ~HasKey(pair[c]) \/ Key(pair[c]) # Key(p)

\* count_open_for_pair: by code and in this order
AlreadyOpen(who, p) ==
  \E c \in SeenActive(who) : pair[c].cand = p.cand /\ pair[c].exist = p.exist

Inserts(who, p) == ~AlreadyOpen(who, p) /\ KeyIsFree(p, Active)

\* ConflictService.check: one finding; a duplicate and a violated key (in its
\* savepoint) skip the insert and nothing else
Record(who, p) ==
  IF Inserts(who, p)
    THEN \E c \in Conflicts :
           /\ status[c] = "NONE"
           /\ \A d \in Conflicts : d < c => status[d] # "NONE"
           /\ status' = [status EXCEPT ![c] = "OPEN"]
           /\ pair' = [pair EXCEPT ![c] = p]
    ELSE UNCHANGED <<status, pair>>

\* update_status and reopen: a plain write of the row
Write(cs, new) ==
  /\ new \in Undecided =>
       \A c \in cs : KeyIsFree(pair[c], (Active \cup cs) \ {c})
  /\ status' = [c \in Conflicts |-> IF c \in cs THEN new ELSE status[c]]
  /\ UNCHANGED pair

-----------------------------------------------------------------------------
(* Checks *)

\* load_conflict_existing: neither deleted nor deprecated
Comparable(who) == {m \in SeenLive(who) : Seen(who).life[m] # "DEPRECATED"}

\* get_first_open_for_metric finds a row, maybe the one just inserted
FindsOpen(who, m, inserted) ==
  inserted \/ \E c \in SeenActive(who) : m \in Sides(pair[c])

\* the active conflicts of m after this step that no flag shows
Hidden(m) ==
  {c \in Conflicts : /\ status'[c] \in Undecided /\ m \in Sides(pair'[c])
                     /\ Sides(pair'[c]) \cap flagged = {}}

\* _detect_and_mark_conflicts of metric m, which has found `found` or NoOne.
\* Its exceptions are swallowed: the row may stay without the flag, and with
\* no row (found = NoOne) the flag of an older conflict may be left out.
DetectAndMark(who, m, found) ==
  LET p == [cand |-> m, exist |-> found, a |-> TRUE, b |-> TRUE]
  IN /\ found = NoOne \/ (found \in Comparable(who) /\ found # m)
     /\ IF found = NoOne THEN UNCHANGED <<status, pair>> ELSE Record(who, p)
     /\ \/ /\ flagged' = IF FindsOpen(who, m, found # NoOne /\ Inserts(who, p))
                            THEN flagged \cup {m} ELSE flagged
           /\ UNCHANGED unmarked
        \/ /\ "fail" \in Ops
           /\ unmarked' = unmarked \cup Hidden(m)
           /\ UNCHANGED flagged

\* create_metric
Register(who, m, found) ==
  /\ Running(who)
  /\ life[m] = "ABSENT"
  /\ life' = [life EXCEPT ![m] = "DRAFT"]
  /\ DetectAndMark(who, m, found)
  /\ Close(who)
  /\ UNCHANGED gone

\* update_metric with a new definition that takes effect at once; an edit
\* under review takes the metric back to DRAFT
Redefine(who, m, found) ==
  /\ Running(who)
  /\ m \in SeenLive(who)
  /\ Seen(who).life[m] # "DEPRECATED"
  /\ Unchanged(who, m)
  /\ life' = [life EXCEPT ![m] = IF @ = "REVIEW" THEN "DRAFT" ELSE @]
  /\ DetectAndMark(who, m, found)
  /\ Close(who)
  /\ UNCHANGED gone

\* check_conflict: a check on request that finds `found`; private data is
\* reported as an event and makes no row, and every finding flags the
\* existing side.  `known`: the caller sent the candidate's id.
Precheck(who, m, known, found, pii) ==
  /\ Running(who)
  /\ found \in Comparable(who) \ {m}
  /\ IF known THEN Seen(who).life[m] # "ABSENT" ELSE "unknown" \in Ops
  /\ pii => "pii" \in Ops
  /\ IF pii THEN UNCHANGED <<status, pair>>
            ELSE Record(who, [cand |-> m, exist |-> found, a |-> known, b |-> TRUE])
  /\ flagged' = IF found \in gone THEN flagged ELSE flagged \cup {found}
  /\ Close(who)
  /\ UNCHANGED <<metricVars, unmarked>>

\* the hard conflict: a code not registered, against the caller's own entry
PrecheckCode(who, m) ==
  /\ "code" \in Ops
  /\ Running(who)
  /\ m \notin SeenLive(who)
  /\ Record(who, [cand |-> m, exist |-> m, a |-> FALSE, b |-> FALSE])
  /\ Close(who)
  /\ UNCHANGED <<metricVars, flagged, unmarked>>

-----------------------------------------------------------------------------
(* The desk *)

\* mutant of StillOpenFor: only conflicts it is the candidate of
StillOpenAsCandidate(who, m, c) ==
  \E d \in SeenActive(who) \ {c} : pair[d].cand = m
\* count_open_for_metric after c has left the active states
StillOpenFor(who, m, c) ==
  \E d \in SeenActive(who) \ {c} : m \in Sides(pair[d])

\* _sync_metric_conflict_flag: of the candidate alone; its failure is swallowed
SyncFlag(who, c) ==
  LET m == pair[c].cand
  IN \/ flagged' = IF StillOpenFor(who, m, c) \/ m \in gone
                     THEN flagged ELSE flagged \ {m}
     \/ "fail" \in Ops /\ UNCHANGED flagged

\* apply_arbitration_impact: what becomes of the loser; NoOne keeps both
Impact(who, c, winner) ==
  LET loser == CHOOSE m \in Metrics : Sides(pair[c]) = {winner, m}
      keeps == \/ winner \notin Sides(pair[c])
               \/ Hard(c)
               \/ ~(Sides(pair[c]) \subseteq SeenLive(who))
      seen == Seen(who).life[loser]
  IN IF keeps \/ seen = "DEPRECATED" THEN UNCHANGED metricVars
     ELSE IF seen = "PUBLISHED"
       \* deprecate_metric, when the winner can take over
       THEN IF Seen(who).life[winner] = "PUBLISHED" /\ Unchanged(who, loser)
              THEN /\ life' = [life EXCEPT ![loser] = "DEPRECATED"]
                   /\ UNCHANGED gone
              ELSE UNCHANGED metricVars
       \* never in effect: soft delete, which looks at deleted_at only
       ELSE IF loser \notin gone
              THEN /\ gone' = gone \cup {loser}
                   /\ UNCHANGED life
              ELSE UNCHANGED metricVars

\* _apply_arbitration: the impact, unless it fails; the ruling stands anyway
Apply(who, c, winner) ==
  \/ Impact(who, c, winner)
  \/ "fail" \in Ops /\ UNCHANGED metricVars

Arbitrate(who, c, winner) ==
  /\ Running(who)
  /\ Seen(who).status[c] \in Undecided
  /\ winner \in Sides(pair[c]) \cup {NoOne}
  /\ Write({c}, "RULED")
  /\ SyncFlag(who, c)
  /\ Apply(who, c, winner)
  /\ Close(who)
  /\ UNCHANGED unmarked

Escalate(who, c) ==
  /\ Running(who)
  /\ Seen(who).status[c] = "OPEN"
  /\ Write({c}, "ESCALATED")
  /\ Close(who)
  /\ UNCHANGED <<metricVars, flagged, unmarked>>

CloseRuled(who, c) ==
  /\ Running(who)
  /\ Seen(who).status[c] = "RULED"
  /\ Write({c}, "CLOSED")
  /\ SyncFlag(who, c)
  /\ Close(who)
  /\ UNCHANGED <<metricVars, unmarked>>

ForceClose(who, c) ==
  /\ Running(who)
  /\ Seen(who).status[c] \in Undecided
  /\ Write({c}, "CLOSED")
  /\ SyncFlag(who, c)
  /\ Close(who)
  /\ UNCHANGED <<metricVars, unmarked>>

\* mutant of Marked: the flag is set whether or not there is a metric
MarkedAnyway(m) == flagged \cup {m}
\* _mark_metric_conflict: UPDATE .. WHERE deleted_at IS NULL
Marked(m) == IF life[m] = "ABSENT" \/ m \in gone THEN flagged ELSE flagged \cup {m}

\* _ensure_linked_metrics_active: a lookup that fails lets its side pass
SidesPass(who, c) ==
  Sides(pair[c]) \cap Seen(who).gone = {} \/ "fail" \in Ops

\* reopen: refused when a side is deleted or the pair is active already.  The
\* flag is not set when marking fails, nor on a candidate let through deleted.
Reopen(who, c) ==
  /\ Running(who)
  /\ Seen(who).status[c] = "CLOSED"
  /\ SidesPass(who, c)
  /\ Write({c}, "OPEN")
  /\ LET m == pair[c].cand
     IN \/ /\ flagged' = Marked(m)
           /\ unmarked' = IF m \in Seen(who).gone THEN unmarked \cup {c} ELSE unmarked \ {c}
        \/ /\ "fail" \in Ops
           /\ unmarked' = unmarked \cup {c}
           /\ UNCHANGED flagged
  /\ Close(who)
  /\ UNCHANGED metricVars

\* mutant of Due: the job forgets the first step
DueAgain(who, k) == {c \in Conflicts : c <= k /\ Seen(who).status[c] = "ESCALATED"}
\* older than the limit; rows are numbered in the order of created_at
Due(who, k) == {c \in Conflicts : c <= k /\ Seen(who).status[c] = "OPEN"}

\* auto_escalate_overdue, when row k and those before it are overdue: one
\* session and one commit, so a row that fails takes the others back with it
EscalateOverdue(who, k) ==
  /\ Running(who)
  /\ k \in Due(who, k)
  /\ Write(Due(who, k), "ESCALATED")
  /\ Close(who)
  /\ UNCHANGED <<metricVars, flagged, unmarked>>

-----------------------------------------------------------------------------
(* The metrics, as far as conflicts look at them *)

Live(m) == life[m] # "ABSENT" /\ m \notin gone

Move(m, from, to) ==
  /\ Live(m)
  /\ life[m] \in from
  /\ life' = [life EXCEPT ![m] = to]
  /\ UNCHANGED <<gone, flagged, status, pair, open, view, unmarked>>

\* submit_metric, also of a deprecated metric
Submit(m) == Move(m, {"DRAFT", "DEPRECATED"}, "REVIEW")

\* the gate of approve_metric: get_first_open_for_metric is the newest active
\* conflict of m, and a hard one
Blocked(m) ==
  \E c \in Active : /\ m \in Sides(pair[c]) /\ Hard(c)
                    /\ \A d \in Active : m \in Sides(pair[d]) => d <= c

\* the gate is open when its query fails
Approve(m) ==
  /\ ~Blocked(m) \/ "fail" \in Ops
  /\ Move(m, {"REVIEW"}, "PUBLISHED")

\* promote_metric, and rollback_metric of a grey release: no gate
Promote(m) == Move(m, {"REVIEW", "PUBLISHED"}, "PUBLISHED")

\* emergency_publish_metric: no gate
EmergencyPublish(m) == Move(m, {"DRAFT", "REVIEW"}, "PUBLISHED")

\* reject_metric, and recycle_expired_gray
Reject(m) == Move(m, {"REVIEW"}, "DRAFT")

Deprecate(m) == Move(m, {"PUBLISHED"}, "DEPRECATED")

Reactivate(m) == Move(m, {"DEPRECATED"}, "DRAFT")

Delete(m) ==
  /\ Live(m)
  /\ life[m] \in {"DRAFT", "DEPRECATED"}
  /\ gone' = gone \cup {m}
  /\ UNCHANGED <<life, flagged, status, pair, open, view, unmarked>>

\* restore_metric leaves pending_conflict as it was
Restore(m) ==
  /\ m \in gone
  /\ life[m] = "DRAFT"
  /\ gone' = gone \ {m}
  /\ UNCHANGED <<life, flagged, status, pair, open, view, unmarked>>

-----------------------------------------------------------------------------

Check(who) ==
  \E m \in Metrics :
    \/ \E found \in Metrics \cup {NoOne} : Register(who, m, found) \/ Redefine(who, m, found)
    \/ \E known, pii \in BOOLEAN, found \in Metrics : Precheck(who, m, known, found, pii)
    \/ PrecheckCode(who, m)

Desk(who) ==
  \E c \in Conflicts :
    \/ \E winner \in Metrics \cup {NoOne} : Arbitrate(who, c, winner)
    \/ Escalate(who, c)
    \/ CloseRuled(who, c)
    \/ ForceClose(who, c)
    \/ Reopen(who, c)
    \/ EscalateOverdue(who, c)

Lifecycle ==
  \E m \in Metrics :
    \/ /\ "publish" \in Ops
       /\ Submit(m) \/ Approve(m) \/ Promote(m) \/ EmergencyPublish(m) \/ Reject(m)
    \/ /\ "retire" \in Ops
       /\ Deprecate(m) \/ Reactivate(m) \/ Delete(m) \/ Restore(m)

Next ==
  \/ \E who \in Requests \cup {Now} : Check(who) \/ Desk(who)
  \/ \E q \in Requests : Begin(q) \/ Abandon(q)
  \/ Lifecycle

Spec == Init /\ [][Next]_vars

\* every conflict grows older than the limit, and the job runs every day
FairSpec == Spec /\ \A c \in Conflicts : WF_vars(EscalateOverdue(Now, c))

-----------------------------------------------------------------------------
(* Properties *)

\* Type invariant of the metric, conflict and request records.
TypeOK ==
  /\ life \in [Metrics -> LifeStates]
  /\ gone \subseteq {m \in Metrics : life[m] # "ABSENT"}
  /\ flagged \subseteq {m \in Metrics : life[m] # "ABSENT"}
  /\ status \in [Conflicts -> ConflictStates]
  /\ \A c \in Conflicts : IF status[c] = "NONE" THEN pair[c] = NoPair ELSE pair[c] \in Pair
  /\ open \subseteq Requests
  /\ view \in [Requests -> View]
  /\ unmarked \subseteq Conflicts

\* Two rows that name the same candidate and the same registered metric, in
\* this order, are not active together when the candidate's id is in both rows
\* or in neither, whatever checks, stale decisions and reopenings race: the
\* unique key of migration 0100, as the duplicate test reads a snapshot.
OneActivePerPair ==
  \A c, d \in Active :
    /\ c # d
    /\ pair[c].cand = pair[d].cand /\ pair[c].exist = pair[d].exist
    => ~(pair[c].b /\ pair[d].b /\ (pair[c].a <=> pair[d].a))

Shown(c) == Sides(pair[c]) \cap flagged # {}

\* A conflict that is to be ruled on is to be seen in the catalogue: while its
\* two metrics exist, one of them carries the flag, although decisions on the
\* other conflicts of a metric take its flag away (_sync_metric_conflict_flag).
\* The only conflicts that stay in the dark are those that were recorded or
\* reopened by a request whose own call failed and was passed over.
OpenConflictIsShown ==
  \A c \in Active \ unmarked :
    (\A m \in Sides(pair[c]) : Live(m)) /\ pair[c].b => Shown(c)

\* With requests that overlap: a step that hides an active conflict is the
\* commit of a decision that was reading before the conflict was active.
OnlyStaleDecisionsHide ==
  [][\A c \in Active :
       Shown(c) /\ ~Shown(c)' /\ status'[c] \in Undecided
         => \E q \in open \ open' : c \notin SeenActive(q)]_vars

\* No conflict stays open for ever: it is decided, or the daily job escalates
\* it (auto_escalate_overdue).
OverdueIsEscalated ==
  \A c \in Conflicts : (status[c] = "OPEN") ~> (status[c] # "OPEN")

-----------------------------------------------------------------------------
(* What comments of the code say, and the code does not keep *)

\* Two metrics have at most one active conflict, whichever of them was the
\* candidate (migration 0100; its key keeps the order of the two).
OneActivePerSides ==
  \A c, d \in Active :
    c # d /\ Sides(pair[c]) = Sides(pair[d]) => Hard(c)

\* A metric shown with a conflict has one to be ruled on (semantic/service.py:895):
\* a decision takes the flag of the candidate away, that of the other side stays.
FlagIsBacked ==
  \A m \in flagged : \E c \in Active : m \in Sides(pair[c])

\* The flag in the catalogue is there for every conflict that can be ruled on
\* (semantic/service.py:895-896: the flag if and only if the record).
EveryConflictIsShown ==
  \A c \in Active : (\A m \in Sides(pair[c]) : Live(m)) /\ pair[c].b => Shown(c)

\* No metric under review is published while it has an active hard conflict
\* (approve_metric, semantic/service.py:2647).
HardConflictBlocks ==
  [][\A m \in Metrics, c \in Active :
       m \in Sides(pair[c]) /\ Hard(c) /\ life[m] = "REVIEW" => life'[m] # "PUBLISHED"]_vars

=============================================================================
