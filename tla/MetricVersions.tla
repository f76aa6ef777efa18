--------------------------- MODULE MetricVersions ---------------------------
(***************************************************************************)
(* The life of ONE metric of the semantic layer: its row in `metric`, its  *)
(* rows in `metric_version` (one per version number), and the consumers'   *)
(* answers in `pending_version_confirmation`.                              *)
(*                                                                         *)
(* A breaking change of a published metric does not take effect at once:   *)
(* it becomes a version row in PENDING_CONFIRMATION, every consumer is     *)
(* asked, and the row is promoted to the main row when all of them have    *)
(* confirmed or have let the deadline pass.                                *)
(*                                                                         *)
(* Concurrency.  Every API call and every cron job is a database           *)
(* transaction under REPEATABLE READ: its reads come from the snapshot     *)
(* taken by its first read, its writes go to the current rows, it commits  *)
(* once.  An operation is therefore one action that reads a VIEW and       *)
(* writes the current state.  A request in `open` has taken its view and   *)
(* has not committed yet; the pseudo-request Now reads and commits with    *)
(* nothing in between.  The compare-and-swap on row_version is the set     *)
(* `fresh`: the open requests since whose view nobody raised row_version.  *)
(*                                                                         *)
(* Abstractions.  A definition (definition_json) is the number of the      *)
(* version that introduced it.  Permission, PII, conflict and dependency   *)
(* gates only refuse an operation; a refused operation is a rollback, so   *)
(* they are left to Abandon.  In-place edits of a DRAFT or EXPERIMENTAL    *)
(* definition by dimension binding make no version and are not tracked.    *)
(***************************************************************************)
EXTENDS Integers, FiniteSets

CONSTANTS
  Consumers,     \* users who can be asked to confirm a version
  Audiences,     \* sets of consumers a version can be submitted to
  Changes,       \* what a breaking change can be about
  MaxVersion,    \* bound: versions numbered above it are never created
  RetainLimit,   \* _VERSION_RETAIN_LIMIT, 50 in the code
  Kinds,         \* the kinds of operations callers make: "edit", "publish",
                 \* "retire", "answer"
  Requests,      \* slots for requests whose reads and commit are apart
  Now            \* the request that reads and commits atomically

\* _resolve_pending_consumers and its two shorter forms: the owner and whoever
\* else, so somebody is always asked
ASSUME ConsumersAssumption == \A asked \in Audiences :
                                asked \subseteq Consumers /\ asked # {}
ASSUME ChangesAssumption == Changes \subseteq {"definition", "attributes"}
ASSUME BoundsAssumption == /\ MaxVersion \in Nat \ {0}
                           /\ RetainLimit \in Nat \ {0}
ASSUME KindsAssumption == Kinds \subseteq {"edit", "publish", "retire", "answer"}
ASSUME NowAssumption == Now \notin Requests

VARIABLES
  metric,   \* the main row
  rows,     \* rows[v]: status of version row v, "NONE" when there is no row
  def,      \* def[v]: definition stored in version row v
  conf,     \* conf[v][c]: answer of consumer c on version v
  due,      \* due[v]: weeks between the proposal of v and its deadline
  late,     \* late[v]: the deadline of v has passed
  open,     \* slots with a request that has read and not committed
  fresh,    \* open requests whose row_version is still current
  view      \* view[q]: what the open request q has read

versionVars == <<rows, def, conf, due, late>>
requestVars == <<open, fresh, view>>
vars == <<metric, rows, def, conf, due, late, open, fresh, view>>

MetricStates == {"DRAFT", "REVIEW", "PUBLISHED", "EXPERIMENTAL",
                 "DEPRECATED", "DATA_SOURCE_DROPPED"}
RowStates == {"NONE", "DRAFT", "PENDING_CONFIRMATION", "PUBLISHED",
              "EXPERIMENTAL", "CANCELLED", "ARCHIVED"}
Answers == {"NONE", "PENDING", "CONFIRMED", "REJECTED", "TIMEOUT_ACCEPTED"}
AcceptingOnlyConfirmed == {"CONFIRMED"}
Accepting == {"CONFIRMED", "TIMEOUT_ACCEPTED"}
\* the answers confirm_version turns into CONFIRMED
ConfirmableEvenRejected == {"PENDING", "TIMEOUT_ACCEPTED", "REJECTED"}
Confirmable == {"PENDING", "TIMEOUT_ACCEPTED"}
Versions == 1 .. MaxVersion

\* `effective` is 0 while effective_version is NULL; `live` is the version
\* whose definition is on the main row.
MetricRow == [status : MetricStates, deleted : BOOLEAN, version : Versions,
              effective : 0 .. MaxVersion, live : Versions]

\* Of the main row a view keeps what guards look at: the other columns are
\* written only under the compare-and-swap, which implies they are current.
View == [status : MetricStates, deleted : BOOLEAN, version : Versions,
         rows : [Versions -> RowStates],
         conf : [Versions -> [Consumers -> Answers]],
         due : [Versions -> Nat], late : [Versions -> BOOLEAN]]

NewMetric == [status |-> "DRAFT", deleted |-> FALSE, version |-> 1,
              effective |-> 0, live |-> 1]
NewRows == [v \in Versions |-> IF v = 1 THEN "DRAFT" ELSE "NONE"]
NoAnswers == [v \in Versions |-> [c \in Consumers |-> "NONE"]]
NewView == [status |-> "DRAFT", deleted |-> FALSE, version |-> 1, rows |-> NewRows,
            conf |-> NoAnswers, due |-> [v \in Versions |-> 0],
            late |-> [v \in Versions |-> FALSE]]

\* create_metric: a DRAFT metric with its version 1
Init ==
  /\ metric = NewMetric
  /\ rows = NewRows
  /\ def = [v \in Versions |-> 1]
  /\ conf = NoAnswers
  /\ due = [v \in Versions |-> 0]
  /\ late = [v \in Versions |-> FALSE]
  /\ open = {}
  /\ fresh = {}
  /\ view = [q \in Requests |-> NewView]

-----------------------------------------------------------------------------
(* Transactions *)

CurrentView == [status |-> metric.status, deleted |-> metric.deleted,
                version |-> metric.version, rows |-> rows, conf |-> conf,
                due |-> due, late |-> late]

Callers == Requests \cup {Now}

Running(who) == who = Now \/ who \in open

Seen(who) == IF who = Now THEN CurrentView ELSE view[who]

\* get_metric refuses a soft-deleted metric
Readable(who) == Running(who) /\ ~Seen(who).deleted

\* UPDATE .. WHERE row_version = <the one read> AND deleted_at IS NULL
CasIgnored(who) == ~metric.deleted
CasSucceeds(who) == (who = Now \/ who \in fresh) /\ ~metric.deleted

Close(who) ==
  /\ open' = open \ {who}
  /\ view' = [q \in Requests |-> IF q = who THEN NewView ELSE view[q]]

\* commits that do not touch row_version
CommitWithoutBump(who) == Close(who) /\ fresh' = fresh \ {who}

\* update_with_optimistic_lock: row_version + 1 makes every other request stale
Save(who, updated) ==
  /\ CasSucceeds(who)
  /\ metric' = updated
  /\ Close(who)
  /\ fresh' = {}

\* the first read of a slow request fixes its snapshot
Begin(q) ==
  /\ q \notin open
  /\ open' = open \cup {q}
  /\ fresh' = fresh \cup {q}
  /\ view' = [view EXCEPT ![q] = CurrentView]
  /\ UNCHANGED <<metric, versionVars>>

\* refused, CAS lost, unique key violated, client gone: rollback
Abandon(q) ==
  /\ q \in open
  /\ CommitWithoutBump(q)
  /\ UNCHANGED <<metric, versionVars>>

-----------------------------------------------------------------------------
(* Version rows *)

\* MetricStateMachine.validate_transition: the matrix, and the same state
Transitions ==
  {<<"DRAFT", "REVIEW">>,
   <<"REVIEW", "PUBLISHED">>, <<"REVIEW", "EXPERIMENTAL">>, <<"REVIEW", "DRAFT">>,
   <<"PUBLISHED", "DEPRECATED">>, <<"PUBLISHED", "DATA_SOURCE_DROPPED">>,
   <<"DEPRECATED", "REVIEW">>,
   <<"EXPERIMENTAL", "PUBLISHED">>, <<"EXPERIMENTAL", "DRAFT">>,
   <<"DATA_SOURCE_DROPPED", "PUBLISHED">>, <<"DATA_SOURCE_DROPPED", "DEPRECATED">>}

CanMove(from, to) == from = to \/ <<from, to>> \in Transitions

Finalized == {"PUBLISHED", "EXPERIMENTAL", "CANCELLED"}

\* _archive_excess_versions: the finalised rows beyond the RetainLimit newest
Excess(seenRows) ==
  {v \in Versions :
     /\ seenRows[v] \in Finalized
     /\ Cardinality({w \in Versions : w > v /\ seenRows[w] \in Finalized}) >= RetainLimit}

\* mutant of AddRow: no unique key, the second insert replaces the first
AddRowUnkeyed(who, n, status, definition) ==
  /\ n <= MaxVersion
  /\ rows' = [v \in Versions |->
                IF v = n THEN status
                ELSE IF v \in Excess(Seen(who).rows) THEN "ARCHIVED" ELSE rows[v]]
  /\ def' = [def EXCEPT ![n] = definition]

\* create_version: unique key (metric_id, version), then the retention limit
AddRow(who, n, status, definition) ==
  /\ n <= MaxVersion
  /\ rows[n] = "NONE"
  /\ rows' = [v \in Versions |->
                IF v = n THEN status
                ELSE IF v \in Excess(Seen(who).rows) THEN "ARCHIVED" ELSE rows[v]]
  /\ def' = [def EXCEPT ![n] = definition]

HasPending(who) == \E v \in Versions : Seen(who).rows[v] = "PENDING_CONFIRMATION"

\* PendingVersionManager.create_pending: ask everyone, 14 days
AskConsumers(n, asked) ==
  /\ conf' = [conf EXCEPT ![n] =
                [c \in Consumers |-> IF c \in asked THEN "PENDING" ELSE "NONE"]]
  /\ due' = [due EXCEPT ![n] = 2]
  /\ late' = [late EXCEPT ![n] = FALSE]

\* UPDATE metric_version .. WHERE version = v: nothing when there is no row
Mark(v, status) ==
  rows' = [rows EXCEPT ![v] = IF @ = "NONE" THEN "NONE" ELSE status]

-----------------------------------------------------------------------------
(* Editing *)

\* update_metric without a definition, and the other calls that only write
\* attributes (review_compliance, complete_emergency_review); an edit of a
\* metric under review withdraws it
EditAttributes(who) ==
  /\ Readable(who)
  /\ Seen(who).status \in {"DRAFT", "REVIEW", "PUBLISHED"}
  /\ Save(who, [metric EXCEPT !.status = IF @ = "REVIEW" THEN "DRAFT" ELSE @])
  /\ UNCHANGED versionVars

\* update_metric with a definition that takes effect at once: any change
\* before publication, a non-breaking one after it
EditDefinition(who) ==
  LET seen == Seen(who)
      n == seen.version + 1
  IN /\ Readable(who)
     /\ seen.status \in {"DRAFT", "REVIEW", "PUBLISHED"}
     /\ AddRow(who, n, "DRAFT", n)
     /\ Save(who, [metric EXCEPT
                     !.version = n,
                     !.live = n,
                     !.effective = IF seen.status = "PUBLISHED" THEN n ELSE @,
                     !.status = IF @ = "REVIEW" THEN "DRAFT" ELSE @])
     /\ UNCHANGED <<conf, due, late>>

\* update_metric with a breaking change of a published metric.  A change of
\* the definition stores the new one in the row; a change of a top-level
\* field or of the mounts stores the live one.
ProposeBreaking(who, asked, change) ==
  LET seen == Seen(who)
      n == seen.version + 1
  IN /\ Readable(who)
     /\ seen.status = "PUBLISHED"
     /\ ~HasPending(who)
     /\ AddRow(who, n, "PENDING_CONFIRMATION",
               IF change = "definition" THEN n ELSE metric.live)
     /\ AskConsumers(n, asked)
     /\ Save(who, [metric EXCEPT !.version = n])

\* bind_metric_dimension on a metric that is neither DRAFT nor EXPERIMENTAL:
\* a pending version, with no compare-and-swap and no change of the main row
BindDimension(who, asked) ==
  LET seen == Seen(who)
      n == seen.version + 1
  IN /\ Readable(who)
     /\ seen.status \notin {"DRAFT", "EXPERIMENTAL"}
     /\ ~HasPending(who)
     /\ AddRow(who, n, "PENDING_CONFIRMATION", n)
     /\ AskConsumers(n, asked)
     /\ CommitWithoutBump(who)
     /\ UNCHANGED metric

-----------------------------------------------------------------------------
(* Review and publication *)

Submit(who) ==
  /\ Readable(who)
  /\ CanMove(Seen(who).status, "REVIEW")
  /\ Save(who, [metric EXCEPT !.status = "REVIEW"])
  /\ UNCHANGED versionVars

\* approve_metric, mode "published" or "experimental"; the row of the current
\* version takes the same status, whatever it was
Approve(who, target) ==
  LET seen == Seen(who)
  IN /\ Readable(who)
     /\ seen.status # "PUBLISHED"
     /\ CanMove(seen.status, target)
     /\ Seen(who).rows[seen.version] # "NONE"
     /\ Save(who, [metric EXCEPT !.status = target, !.effective = seen.version])
     /\ Mark(seen.version, target)
     /\ UNCHANGED <<def, conf, due, late>>

Reject(who) ==
  /\ Readable(who)
  /\ Seen(who).status = "REVIEW"
  /\ Save(who, [metric EXCEPT !.status = "DRAFT"])
  /\ UNCHANGED versionVars

\* emergency_publish_metric: skips the review
EmergencyPublish(who) ==
  LET seen == Seen(who)
  IN /\ Readable(who)
     /\ seen.status \in {"DRAFT", "REVIEW"}
     /\ Seen(who).rows[seen.version] # "NONE"
     /\ Save(who, [metric EXCEPT !.status = "PUBLISHED", !.effective = seen.version])
     /\ Mark(seen.version, "PUBLISHED")
     /\ UNCHANGED <<def, conf, due, late>>

\* promote_metric: the grey release becomes the full one
Promote(who) ==
  LET seen == Seen(who)
  IN /\ Readable(who)
     /\ CanMove(seen.status, "PUBLISHED")
     /\ Save(who, [metric EXCEPT !.status = "PUBLISHED"])
     /\ Mark(seen.version, "PUBLISHED")
     /\ UNCHANGED <<def, conf, due, late>>

\* recycle_expired_gray, called by the daily check_experimental_expiry
RecycleGray(who) ==
  /\ Readable(who)
  /\ Seen(who).status = "EXPERIMENTAL"
  /\ Save(who, [metric EXCEPT !.status = "DRAFT", !.effective = 0])
  /\ UNCHANGED versionVars

\* rollback_metric: archive the current version, return to the highest other
\* version whose row is PUBLISHED
Rollback(who) ==
  LET seen == Seen(who)
      published == {v \in Versions : /\ Seen(who).rows[v] = "PUBLISHED"
                                     /\ v # seen.version}
  IN /\ Readable(who)
     /\ CanMove(seen.status, "PUBLISHED")
     /\ \E prev \in published :
          /\ \A v \in published : v <= prev
          /\ Save(who, [metric EXCEPT !.status = "PUBLISHED", !.effective = prev,
                                      !.version = prev, !.live = def[prev]])
     /\ Mark(seen.version, "ARCHIVED")
     /\ UNCHANGED <<def, conf, due, late>>

-----------------------------------------------------------------------------
(* Retirement *)

Deprecate(who) ==
  /\ Readable(who)
  /\ CanMove(Seen(who).status, "DEPRECATED")
  /\ Save(who, [metric EXCEPT !.status = "DEPRECATED"])
  /\ UNCHANGED versionVars

Reactivate(who) ==
  /\ Readable(who)
  /\ Seen(who).status = "DEPRECATED"
  /\ Save(who, [metric EXCEPT !.status = "DRAFT"])
  /\ UNCHANGED versionVars

MarkSourceDropped(who) ==
  /\ Readable(who)
  /\ Seen(who).status = "PUBLISHED"
  /\ Save(who, [metric EXCEPT !.status = "DATA_SOURCE_DROPPED"])
  /\ UNCHANGED versionVars

RecoverSource(who) ==
  /\ Readable(who)
  /\ Seen(who).status = "DATA_SOURCE_DROPPED"
  /\ Save(who, [metric EXCEPT !.status = "PUBLISHED"])
  /\ UNCHANGED versionVars

ConfirmDeprecateDropped(who) ==
  /\ Readable(who)
  /\ Seen(who).status = "DATA_SOURCE_DROPPED"
  /\ Save(who, [metric EXCEPT !.status = "DEPRECATED"])
  /\ UNCHANGED versionVars

\* the soft deletes write deleted_at without looking at row_version
SoftDelete(who) ==
  /\ metric' = [metric EXCEPT !.deleted = TRUE]
  /\ CommitWithoutBump(who)
  /\ UNCHANGED versionVars

Delete(who) ==
  /\ Readable(who)
  /\ Seen(who).status \in {"DRAFT", "DEPRECATED"}
  /\ ~metric.deleted
  /\ SoftDelete(who)

\* arbitration: the losing metric of a conflict, when it is not published
VoidByArbitration(who) ==
  /\ Readable(who)
  /\ Seen(who).status \notin {"DEPRECATED", "PUBLISHED"}
  /\ ~metric.deleted
  /\ SoftDelete(who)

\* check_sunset_expiry: the daily archiving of deprecated metrics
ArchiveAtSunset(who) ==
  /\ Readable(who)
  /\ Seen(who).status = "DEPRECATED"
  /\ SoftDelete(who)

Restore(who) ==
  /\ Running(who)
  /\ Seen(who).deleted
  /\ Seen(who).status = "DRAFT"
  /\ metric.deleted
  /\ metric' = [metric EXCEPT !.deleted = FALSE]
  /\ CommitWithoutBump(who)
  /\ UNCHANGED versionVars

-----------------------------------------------------------------------------
(* The confirmation period *)

Asked(answers) == {c \in Consumers : answers[c] # "NONE"}
SomeAccepted(answers) == \E c \in Asked(answers) : answers[c] \in Accepting
AllAccepted(answers) == \A c \in Asked(answers) : answers[c] \in Accepting

\* _promote_pending_version, under the compare-and-swap
PromotePending(who, v) ==
  /\ Seen(who).rows[v] # "NONE"
  /\ Save(who, [metric EXCEPT !.effective = v, !.version = v, !.live = def[v]])
  /\ Mark(v, "PUBLISHED")

\* The confirmations a consumer's confirm_version reads are locked
\* (SELECT .. FOR UPDATE), hence current and not those of its snapshot.
SnapshotAnswers(who, v) == Seen(who).conf[v]
LockedAnswers(who, v) == conf[v]

\* confirm_version; an answer that is CONFIRMED already changes nothing
Confirm(who, v, c) ==
  LET answers == [LockedAnswers(who, v) EXCEPT ![c] = "CONFIRMED"]
  IN /\ Readable(who)
     /\ LockedAnswers(who, v)[c] \in Confirmable
     /\ conf' = [conf EXCEPT ![v][c] = "CONFIRMED"]
     /\ \/ AllAccepted(answers) /\ PromotePending(who, v)
        \/ /\ ~AllAccepted(answers)
           /\ CommitWithoutBump(who)
           /\ UNCHANGED <<metric, rows>>
     /\ UNCHANGED <<def, due, late>>

\* auto_accept_timeout, called every minute by check_pending_version_timeouts
\* for each version with an unanswered confirmation past its deadline; the
\* answers are those of the job's snapshot and are overwritten by id
AutoAccept(who, v) ==
  LET seen == Seen(who)
      timedOut == {c \in Consumers : seen.conf[v][c] = "PENDING"}
      answers == [c \in Consumers |->
                    IF c \in timedOut THEN "TIMEOUT_ACCEPTED" ELSE seen.conf[v][c]]
  IN /\ Readable(who)
     /\ seen.late[v] /\ timedOut # {}
     /\ seen.status = "PUBLISHED"
     /\ conf' = [conf EXCEPT ![v] = [c \in Consumers |->
                    IF c \in timedOut THEN "TIMEOUT_ACCEPTED" ELSE @[c]]]
     /\ \/ AllAccepted(answers) /\ PromotePending(who, v)
        \/ /\ ~AllAccepted(answers)
           /\ CommitWithoutBump(who)
           /\ UNCHANGED <<metric, rows>>
     /\ UNCHANGED <<def, due, late>>

\* what becomes of the row of a rejected version
RejectedRowLikeAnswer == "REJECTED"
RejectedRow == "CANCELLED"

\* reject_version: the unanswered confirmations are rejected with the caller's
\* own, whatever it was; the row is cancelled, whatever it was
RejectVersion(who, v, c) ==
  LET seen == Seen(who)
  IN /\ Readable(who)
     /\ seen.conf[v][c] # "NONE"
     /\ conf' = [conf EXCEPT ![v] = [d \in Consumers |->
                    IF d = c \/ seen.conf[v][d] = "PENDING" THEN "REJECTED" ELSE @[d]]]
     /\ Mark(v, RejectedRow)
     /\ CommitWithoutBump(who)
     /\ UNCHANGED <<metric, def, due, late>>

\* new_deadline is computed from the deadline that was read
PostponedInPlace(who, v) == due[v] + 1
Postponed(who, v) == Seen(who).due[v] + 1

\* extend_version: one more week, once (extension_count >= 1 iff due > 2)
Extend(who, v) ==
  /\ Readable(who)
  /\ Asked(Seen(who).conf[v]) # {}
  /\ Seen(who).due[v] < 3
  /\ due' = [due EXCEPT ![v] = Postponed(who, v)]
  /\ \E stillLate \in BOOLEAN :
       /\ stillLate => late[v]
       /\ late' = [late EXCEPT ![v] = stillLate]
  /\ CommitWithoutBump(who)
  /\ UNCHANGED <<metric, rows, def, conf>>

\* time: only the deadline of an open confirmation matters
DeadlinePasses(v) ==
  /\ \E c \in Consumers : conf[v][c] = "PENDING"
  /\ ~late[v]
  /\ late' = [late EXCEPT ![v] = TRUE]
  /\ UNCHANGED <<metric, rows, def, conf, due, requestVars>>

-----------------------------------------------------------------------------

Edit(who) ==
  \/ EditAttributes(who)
  \/ EditDefinition(who)
  \/ \E asked \in Audiences :
       \/ BindDimension(who, asked)
       \/ \E change \in Changes :
            ProposeBreaking(who, asked, change)

Publish(who) ==
  \/ Submit(who)
  \/ \E target \in {"PUBLISHED", "EXPERIMENTAL"} : Approve(who, target)
  \/ Reject(who)
  \/ EmergencyPublish(who)
  \/ Promote(who)
  \/ RecycleGray(who)
  \/ Rollback(who)

Retire(who) ==
  \/ Deprecate(who)
  \/ Reactivate(who)
  \/ MarkSourceDropped(who)
  \/ RecoverSource(who)
  \/ ConfirmDeprecateDropped(who)
  \/ Delete(who)
  \/ VoidByArbitration(who)
  \/ ArchiveAtSunset(who)
  \/ Restore(who)

Answer(who) ==
  \E v \in Versions :
    \/ \E c \in Consumers : Confirm(who, v, c) \/ RejectVersion(who, v, c)
    \/ AutoAccept(who, v)
    \/ Extend(who, v)

Next ==
  \/ \E who \in Callers :
       \/ "edit" \in Kinds /\ Edit(who)
       \/ "publish" \in Kinds /\ Publish(who)
       \/ "retire" \in Kinds /\ Retire(who)
       \/ "answer" \in Kinds /\ Answer(who)
  \/ \E q \in Requests : Begin(q) \/ Abandon(q)
  \/ \E v \in Versions : DeadlinePasses(v)

Spec == Init /\ [][Next]_vars

\* Time passes, and the every-minute cron runs again and again.  Nothing
\* obliges a user to answer, an owner to extend, or a slow request to commit.
FairSpec ==
  /\ Spec
  /\ \A v \in Versions : WF_vars(DeadlinePasses(v)) /\ WF_vars(AutoAccept(Now, v))

-----------------------------------------------------------------------------
(* Properties *)

TypeOK ==
  /\ metric \in MetricRow
  /\ rows \in [Versions -> RowStates]
  /\ def \in [Versions -> Versions]
  /\ conf \in [Versions -> [Consumers -> Answers]]
  /\ due \in [Versions -> Nat]
  /\ late \in [Versions -> BOOLEAN]
  /\ open \subseteq Requests
  /\ fresh \subseteq open
  /\ view \in [Requests -> View]

Pending(v) == rows[v] = "PENDING_CONFIRMATION"

EveryoneAccepts(v) ==
  \A c \in Consumers : conf[v][c] \in {"NONE", "CONFIRMED", "TIMEOUT_ACCEPTED"}

\* At no time are two versions of a metric waiting for confirmation: what
\* update_metric and bind_metric_dimension refuse with
\* METRIC_PENDING_VERSION_EXISTS after a read that a concurrent request may
\* have overtaken.  The unique key on (metric_id, version) is what makes it so.
AtMostOnePending == \A v, w \in Versions : Pending(v) /\ Pending(w) => v = w

\* Why it is so.  Version numbers are used without gaps, and an open request
\* that saw no row v sees none above it either: what it inserts is the first
\* number it did not see, so it either collides with the unique key or knows
\* of every row there is.  A row is pending from its insertion or never.
Contiguous(someRows) ==
  \A v, w \in Versions : v <= w /\ someRows[w] # "NONE" => someRows[v] # "NONE"

Consistent(seen) ==
  /\ Contiguous(seen.rows)
  /\ seen.rows[seen.version] # "NONE"
  /\ \A v \in Versions :
       /\ seen.rows[v] # "NONE" => rows[v] # "NONE"
       /\ Pending(v) /\ seen.rows[v] # "PENDING_CONFIRMATION" => seen.rows[v] = "NONE"

VersionInv ==
  /\ Contiguous(rows)
  /\ rows[metric.version] # "NONE"
  /\ AtMostOnePending
  /\ \A q \in open : Consistent(view[q])

\* A version never waits for confirmation when nobody is left to confirm it:
\* confirm_version locks the answers so that of two last consumers the second
\* one sees the first.  The cron only looks at unanswered confirmations, so
\* such a version would never leave PENDING_CONFIRMATION.
NoStrandedVersion == \A v \in Versions : Pending(v) => ~EveryoneAccepts(v)

\* The deadline of a version is put off at most once, by one week, even when
\* two extend_version requests race.
ExtendedOnce == \A v \in Versions : due[v] <= 3

\* A rejection (or an answer that another consumer's rejection closed) is
\* overruled in one way only: by a timeout job that is still open and had read
\* the answer while it was missing.  No confirmation, extension, proposal or
\* rejection replaces it, and neither does a timeout job that reads it.  What
\* the job leaves is TIMEOUT_ACCEPTED, which a later confirmation can replace.
OnlyStaleTimeoutsOverrule ==
  [][\A v \in Versions, c \in Consumers :
       conf[v][c] = "REJECTED" /\ conf'[v][c] # "REJECTED"
       => /\ conf'[v][c] = "TIMEOUT_ACCEPTED"
          /\ \E q \in open \ open' : view[q].conf[v][c] = "PENDING"]_vars

\* A version that is waiting for confirmation becomes the effective one of a
\* metric that stays published only with every consumer's acceptance.
EffectiveWithConsent ==
  [][\A v \in Versions :
       /\ metric.status = "PUBLISHED" /\ metric'.status = "PUBLISHED"
       /\ Pending(v) /\ metric.effective # v /\ metric'.effective = v
       => EveryoneAccepts(v)']_vars

\* Whatever the requests saw when they started, the status moves only along
\* the matrix of the state machine, by an emergency publication or by the
\* reactivation of a deprecated metric.
LegalStatusSteps ==
  [][\/ CanMove(metric.status, metric'.status)
     \/ <<metric.status, metric'.status>> \in
          {<<"DRAFT", "PUBLISHED">>, <<"DEPRECATED", "DRAFT">>}]_vars

\* A version waiting for confirmation does not wait for ever while its metric
\* stays published: it is confirmed, rejected or accepted by timeout.
PendingIsResolved ==
  \A v \in Versions :
    Pending(v) ~> (~Pending(v) \/ metric.status # "PUBLISHED" \/ metric.deleted)

-----------------------------------------------------------------------------
(* What comments and docstrings of the code say, and the code does not keep *)

\* A published metric has an effective version: only an EXPERIMENTAL metric is
\* promoted, and approval has given that one its effective version.
PublishedHasEffective == metric.status = "PUBLISHED" => metric.effective # 0

\* While the metric stays published, a version leaves PENDING_CONFIRMATION for
\* PUBLISHED only when every consumer asked has accepted it.
ConsumersConsulted ==
  [][\A v \in Versions :
       /\ metric.status = "PUBLISHED" /\ metric'.status = "PUBLISHED"
       /\ Pending(v) /\ rows'[v] = "PUBLISHED"
       => EveryoneAccepts(v)']_vars

\* The version number of the main row goes back only in a rollback, which
\* archives the version it leaves.
VersionNeverRegresses ==
  [][metric'.version < metric.version => rows'[metric.version] = "ARCHIVED"]_vars

\* A consumer who has rejected a version never becomes one who accepted it.
RejectionIsFinal ==
  [][\A v \in Versions, c \in Consumers :
       conf[v][c] = "REJECTED" => conf'[v][c] = "REJECTED"]_vars

\* A version a consumer has rejected never becomes the effective version of a
\* published metric: the old version stays current.
RejectedNeverTakesEffect ==
  [][\A v \in Versions :
       /\ metric.status = "PUBLISHED" /\ rows[v] = "CANCELLED"
       /\ metric'.effective = v
       => metric.effective = v]_vars

\* Rejecting a version leaves the current one in force: the effective version
\* of a published metric is not a cancelled one.
EffectiveNotCancelled ==
  metric.status = "PUBLISHED" /\ metric.effective # 0
    => rows[metric.effective] # "CANCELLED"

\* The number the next version of a published metric will take is free, or
\* taken by a version that is still being confirmed.
NextVersionFree ==
  metric.status = "PUBLISHED" /\ metric.version < MaxVersion
    => rows[metric.version + 1] \in {"NONE", "PENDING_CONFIRMATION"}

\* The definition consumers read on the main row of a published metric is the
\* one stored in its effective version.
DefinitionMatchesEffective ==
  metric.status = "PUBLISHED" /\ metric.effective # 0
    => metric.live = def[metric.effective]

\* A published metric is not in the recycle bin.
PublishedIsNotDeleted == metric.status = "PUBLISHED" => ~metric.deleted

\* A deprecated metric that the sunset job has archived can be brought back.
SunsetIsReversible ==
  metric.deleted /\ metric.status = "DEPRECATED"
    => ENABLED (Reactivate(Now) \/ Restore(Now))

\* The definition of a deprecated metric, or of one whose source is dropped,
\* does not change.
RetiredIsFrozen ==
  [][/\ metric.status \in {"DEPRECATED", "DATA_SOURCE_DROPPED"}
     /\ metric'.status = metric.status
     => metric'.live = metric.live]_vars
=============================================================================
