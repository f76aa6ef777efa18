------------------------ MODULE MetricVersionsProofs ------------------------
(* Type correctness of MetricVersions, and at most one pending version. *)
EXTENDS MetricVersions, TLAPS

USE DEF Versions, Callers

LEMMA OneIsAVersion == 1 \in Versions
BY BoundsAssumption

LEMMA NewViewType == NewView \in View
BY OneIsAVersion DEF NewView, View, NewRows, NoAnswers, MetricStates, RowStates, Answers

\* What a request has read has the type of a view.
LEMMA SeenType ==
  ASSUME TypeOK, NEW who \in Callers
  PROVE  Seen(who) \in View
<1>1. CASE who = Now
  BY <1>1 DEF TypeOK, Seen, CurrentView, View, MetricRow
<1>2. CASE who # Now
  BY <1>2 DEF TypeOK, Seen
<1> QED BY <1>1, <1>2

\* Closing a request keeps the bookkeeping of requests well typed.
LEMMA CloseType ==
  ASSUME TypeOK, NEW who \in Callers, Close(who)
  PROVE  /\ open' \subseteq open
         /\ open' \subseteq Requests
         /\ view' \in [Requests -> View]
BY NewViewType DEF Close, TypeOK

LEMMA CommitType ==
  ASSUME TypeOK, NEW who \in Callers, CommitWithoutBump(who)
  PROVE  /\ open' \subseteq Requests
         /\ fresh' \subseteq open'
         /\ view' \in [Requests -> View]
BY CloseType DEF CommitWithoutBump, Close, TypeOK

LEMMA SaveType ==
  ASSUME TypeOK, NEW who \in Callers, NEW updated \in MetricRow, Save(who, updated)
  PROVE  /\ metric' \in MetricRow
         /\ open' \subseteq Requests
         /\ fresh' \subseteq open'
         /\ view' \in [Requests -> View]
BY CloseType DEF Save

LEMMA MarkType ==
  ASSUME TypeOK, NEW v \in Versions, NEW status \in RowStates, Mark(v, status)
  PROVE  rows' \in [Versions -> RowStates]
BY DEF Mark, TypeOK

LEMMA AddRowType ==
  ASSUME TypeOK, NEW who \in Callers, NEW n \in Nat \ {0}, NEW status \in RowStates,
         NEW definition \in Versions, AddRow(who, n, status, definition)
  PROVE  /\ n \in Versions
         /\ rows' \in [Versions -> RowStates]
         /\ def' \in [Versions -> Versions]
<1>1. n \in Versions
  BY BoundsAssumption DEF AddRow
<1>2. rows' \in [Versions -> RowStates]
  BY DEF AddRow, TypeOK, RowStates
<1>3. def' \in [Versions -> Versions]
  BY DEF AddRow, TypeOK
<1> QED BY <1>1, <1>2, <1>3

LEMMA AskType ==
  ASSUME TypeOK, NEW n \in Versions, NEW asked, AskConsumers(n, asked)
  PROVE  /\ conf' \in [Versions -> [Consumers -> Answers]]
         /\ due' \in [Versions -> Nat]
         /\ late' \in [Versions -> BOOLEAN]
<1>1. conf' \in [Versions -> [Consumers -> Answers]]
  BY DEF AskConsumers, TypeOK, Answers
<1>2. due' \in [Versions -> Nat] /\ late' \in [Versions -> BOOLEAN]
  BY DEF AskConsumers, TypeOK
<1> QED BY <1>1, <1>2

\* The edits keep every variable in its type.
LEMMA EditType ==
  ASSUME TypeOK, NEW who \in Callers, Edit(who)
  PROVE  TypeOK'
<1>1. CASE EditAttributes(who)
  <2>1. [metric EXCEPT !.status = IF @ = "REVIEW" THEN "DRAFT" ELSE @] \in MetricRow
    BY DEF TypeOK, MetricRow, MetricStates
  <2> QED BY <1>1, <2>1, SaveType DEF EditAttributes, TypeOK, versionVars
<1>2. CASE EditDefinition(who)
  <2> DEFINE n == Seen(who).version + 1
             updated == [metric EXCEPT !.version = n, !.live = n,
                           !.effective = IF Seen(who).status = "PUBLISHED" THEN n ELSE @,
                           !.status = IF @ = "REVIEW" THEN "DRAFT" ELSE @]
  <2>1. n \in Nat \ {0} /\ n <= MaxVersion /\ n \in Versions
    BY <1>2, SeenType, BoundsAssumption DEF EditDefinition, AddRow, View
  <2>2. updated \in MetricRow
    <3>1. n \in 0 .. MaxVersion
      BY <2>1, BoundsAssumption
    <3>2. (IF metric.status = "REVIEW" THEN "DRAFT" ELSE metric.status) \in MetricStates
      BY DEF TypeOK, MetricRow, MetricStates
    <3>3. (IF Seen(who).status = "PUBLISHED" THEN n ELSE metric.effective) \in 0 .. MaxVersion
      BY <3>1 DEF TypeOK, MetricRow
    <3> HIDE DEF n
    <3> QED BY <2>1, <3>2, <3>3 DEF TypeOK, MetricRow
  <2>3. AddRow(who, n, "DRAFT", n) /\ Save(who, updated) /\ UNCHANGED <<conf, due, late>>
    BY <1>2 DEF EditDefinition
  <2>4. rows' \in [Versions -> RowStates] /\ def' \in [Versions -> Versions]
    BY <2>1, <2>3, AddRowType DEF RowStates
  <2> QED BY <2>2, <2>3, <2>4, SaveType DEF TypeOK
<1>3. ASSUME NEW asked \in Audiences, BindDimension(who, asked) PROVE TypeOK'
  <2> DEFINE n == Seen(who).version + 1
  <2>1. n \in Nat \ {0} /\ n \in Versions
    BY <1>3, SeenType, BoundsAssumption DEF BindDimension, AddRow, View
  <2>2. rows' \in [Versions -> RowStates] /\ def' \in [Versions -> Versions]
    BY <1>3, <2>1, AddRowType DEF BindDimension, RowStates
  <2>3. /\ conf' \in [Versions -> [Consumers -> Answers]]
        /\ due' \in [Versions -> Nat]
        /\ late' \in [Versions -> BOOLEAN]
    BY <1>3, <2>1, AskType DEF BindDimension
  <2> QED BY <1>3, <2>2, <2>3, CommitType DEF BindDimension, TypeOK
<1>4. ASSUME NEW asked \in Audiences, NEW change \in Changes,
             ProposeBreaking(who, asked, change)
      PROVE  TypeOK'
  <2> DEFINE n == Seen(who).version + 1
             definition == IF change = "definition" THEN n ELSE metric.live
  <2>1. n \in Nat \ {0} /\ n \in Versions
    BY <1>4, SeenType, BoundsAssumption DEF ProposeBreaking, AddRow, View
  <2>2. definition \in Versions
    BY <2>1 DEF TypeOK, MetricRow
  <2>3. [metric EXCEPT !.version = n] \in MetricRow
    BY <2>1 DEF TypeOK, MetricRow
  <2>4. rows' \in [Versions -> RowStates] /\ def' \in [Versions -> Versions]
    BY <1>4, <2>1, <2>2, AddRowType DEF ProposeBreaking, RowStates
  <2>5. /\ conf' \in [Versions -> [Consumers -> Answers]]
        /\ due' \in [Versions -> Nat]
        /\ late' \in [Versions -> BOOLEAN]
    BY <1>4, <2>1, AskType DEF ProposeBreaking
  <2>6. Save(who, [metric EXCEPT !.version = n])
    BY <1>4 DEF ProposeBreaking
  <2> QED BY <2>3, <2>4, <2>5, <2>6, SaveType DEF TypeOK
<1> QED BY <1>1, <1>2, <1>3, <1>4 DEF Edit

\* A step that only saves a new status keeps every variable in its type.
LEMMA StatusType ==
  ASSUME TypeOK, NEW who \in Callers, NEW status \in MetricStates,
         Save(who, [metric EXCEPT !.status = status]), UNCHANGED versionVars
  PROVE  TypeOK'
<1>1. [metric EXCEPT !.status = status] \in MetricRow
  BY DEF TypeOK, MetricRow
<1> QED BY <1>1, SaveType DEF TypeOK, versionVars

\* So does a step that saves the main row and gives one version row a status.
LEMMA SaveAndMarkType ==
  ASSUME TypeOK, NEW who \in Callers, NEW updated \in MetricRow, NEW v \in Versions,
         NEW status \in RowStates, Save(who, updated), Mark(v, status),
         UNCHANGED <<def, conf, due, late>>
  PROVE  TypeOK'
BY SaveType, MarkType DEF TypeOK

\* Review and publication keep every variable in its type.
LEMMA PublishType ==
  ASSUME TypeOK, NEW who \in Callers, Publish(who)
  PROVE  TypeOK'
<1> DEFINE seen == Seen(who)
<1>0. seen.version \in Versions /\ seen.version \in 0 .. MaxVersion
  BY SeenType DEF View
<1>1. CASE Submit(who)
  BY <1>1, StatusType DEF Submit, MetricStates
<1>2. ASSUME NEW target \in {"PUBLISHED", "EXPERIMENTAL"}, Approve(who, target)
      PROVE  TypeOK'
  <2>1. [metric EXCEPT !.status = target, !.effective = seen.version] \in MetricRow
    BY <1>0 DEF TypeOK, MetricRow, MetricStates
  <2>2. /\ Save(who, [metric EXCEPT !.status = target, !.effective = seen.version])
        /\ Mark(seen.version, target)
        /\ UNCHANGED <<def, conf, due, late>>
    BY <1>2 DEF Approve
  <2> QED BY <1>0, <2>1, <2>2, SaveAndMarkType DEF RowStates
<1>3. CASE Reject(who)
  BY <1>3, StatusType DEF Reject, MetricStates
<1>4. CASE EmergencyPublish(who)
  <2>1. [metric EXCEPT !.status = "PUBLISHED", !.effective = seen.version] \in MetricRow
    BY <1>0 DEF TypeOK, MetricRow, MetricStates
  <2>2. /\ Save(who, [metric EXCEPT !.status = "PUBLISHED", !.effective = seen.version])
        /\ Mark(seen.version, "PUBLISHED")
        /\ UNCHANGED <<def, conf, due, late>>
    BY <1>4 DEF EmergencyPublish
  <2> QED BY <1>0, <2>1, <2>2, SaveAndMarkType DEF RowStates
<1>5. CASE Promote(who)
  <2>1. [metric EXCEPT !.status = "PUBLISHED"] \in MetricRow
    BY DEF TypeOK, MetricRow, MetricStates
  <2>2. /\ Save(who, [metric EXCEPT !.status = "PUBLISHED"])
        /\ Mark(seen.version, "PUBLISHED")
        /\ UNCHANGED <<def, conf, due, late>>
    BY <1>5 DEF Promote
  <2> QED BY <1>0, <2>1, <2>2, SaveAndMarkType DEF RowStates
<1>6. CASE RecycleGray(who)
  <2>1. [metric EXCEPT !.status = "DRAFT", !.effective = 0] \in MetricRow
    <3>1. 0 \in 0 .. MaxVersion
      BY BoundsAssumption
    <3> QED BY <3>1 DEF TypeOK, MetricRow, MetricStates
  <2>2. Save(who, [metric EXCEPT !.status = "DRAFT", !.effective = 0]) /\ UNCHANGED versionVars
    BY <1>6 DEF RecycleGray
  <2> QED BY <2>1, <2>2, SaveType DEF TypeOK, versionVars
<1>7. CASE Rollback(who)
  <2>1. PICK prev \in Versions :
          Save(who, [metric EXCEPT !.status = "PUBLISHED", !.effective = prev,
                                   !.version = prev, !.live = def[prev]])
    BY <1>7 DEF Rollback
  <2>2. [metric EXCEPT !.status = "PUBLISHED", !.effective = prev,
                       !.version = prev, !.live = def[prev]] \in MetricRow
    <3>1. prev \in 0 .. MaxVersion /\ def[prev] \in Versions
      BY DEF TypeOK
    <3> QED BY <3>1 DEF TypeOK, MetricRow, MetricStates
  <2>3. Mark(seen.version, "ARCHIVED") /\ UNCHANGED <<def, conf, due, late>>
    BY <1>7 DEF Rollback
  <2> QED BY <1>0, <2>1, <2>2, <2>3, SaveAndMarkType DEF RowStates
<1> QED BY <1>1, <1>2, <1>3, <1>4, <1>5, <1>6, <1>7 DEF Publish

\* A soft delete or its undoing keeps every variable in its type.
LEMMA DeletedType ==
  ASSUME TypeOK, NEW who \in Callers, NEW deleted \in BOOLEAN,
         metric' = [metric EXCEPT !.deleted = deleted],
         CommitWithoutBump(who), UNCHANGED versionVars
  PROVE  TypeOK'
<1>1. metric' \in MetricRow
  BY DEF TypeOK, MetricRow
<1> QED BY <1>1, CommitType DEF TypeOK, versionVars

\* Retirement keeps every variable in its type.
LEMMA RetireType ==
  ASSUME TypeOK, NEW who \in Callers, Retire(who)
  PROVE  TypeOK'
<1>1. CASE Deprecate(who)
  BY <1>1, StatusType DEF Deprecate, MetricStates
<1>2. CASE Reactivate(who)
  BY <1>2, StatusType DEF Reactivate, MetricStates
<1>3. CASE MarkSourceDropped(who)
  BY <1>3, StatusType DEF MarkSourceDropped, MetricStates
<1>4. CASE RecoverSource(who)
  BY <1>4, StatusType DEF RecoverSource, MetricStates
<1>5. CASE ConfirmDeprecateDropped(who)
  BY <1>5, StatusType DEF ConfirmDeprecateDropped, MetricStates
<1>6. CASE Delete(who) \/ VoidByArbitration(who) \/ ArchiveAtSunset(who)
  BY <1>6, DeletedType DEF Delete, VoidByArbitration, ArchiveAtSunset, SoftDelete
<1>7. CASE Restore(who)
  BY <1>7, DeletedType DEF Restore
<1> QED BY <1>1, <1>2, <1>3, <1>4, <1>5, <1>6, <1>7 DEF Retire

\* A promotion, or a commit that leaves the main row and the version rows alone.
LEMMA PromoteOrCommitType ==
  ASSUME TypeOK, NEW who \in Callers, NEW v \in Versions,
         PromotePending(who, v) \/ (CommitWithoutBump(who) /\ UNCHANGED <<metric, rows>>)
  PROVE  /\ metric' \in MetricRow
         /\ rows' \in [Versions -> RowStates]
         /\ open' \subseteq Requests
         /\ fresh' \subseteq open'
         /\ view' \in [Requests -> View]
<1>1. CASE PromotePending(who, v)
  <2>1. v \in 0 .. MaxVersion /\ def[v] \in Versions
    BY DEF TypeOK
  <2>2. [metric EXCEPT !.effective = v, !.version = v, !.live = def[v]] \in MetricRow
    BY <2>1 DEF TypeOK, MetricRow
  <2> QED BY <1>1, <2>2, SaveType, MarkType DEF PromotePending, RowStates
<1>2. CASE CommitWithoutBump(who) /\ UNCHANGED <<metric, rows>>
  BY <1>2, CommitType DEF TypeOK
<1> QED BY <1>1, <1>2

\* The answers of a confirmation period keep every variable in its type.
LEMMA AnswerType ==
  ASSUME TypeOK, NEW who \in Callers, Answer(who)
  PROVE  TypeOK'
<1> PICK v \in Versions :
      \/ \E c \in Consumers : Confirm(who, v, c) \/ RejectVersion(who, v, c)
      \/ AutoAccept(who, v)
      \/ Extend(who, v)
  BY DEF Answer
<1>1. ASSUME NEW c \in Consumers, Confirm(who, v, c) PROVE TypeOK'
  <2>1. conf' \in [Versions -> [Consumers -> Answers]]
    BY <1>1 DEF Confirm, TypeOK, Answers
  <2>2. /\ PromotePending(who, v) \/ (CommitWithoutBump(who) /\ UNCHANGED <<metric, rows>>)
        /\ UNCHANGED <<def, due, late>>
    BY <1>1 DEF Confirm
  <2> QED BY <2>1, <2>2, PromoteOrCommitType DEF TypeOK
<1>2. ASSUME NEW c \in Consumers, RejectVersion(who, v, c) PROVE TypeOK'
  <2>1. conf' \in [Versions -> [Consumers -> Answers]]
    BY <1>2 DEF RejectVersion, TypeOK, Answers
  <2>2. rows' \in [Versions -> RowStates]
    BY <1>2, MarkType DEF RejectVersion, RejectedRow, RowStates
  <2> QED BY <1>2, <2>1, <2>2, CommitType DEF RejectVersion, TypeOK
<1>3. CASE AutoAccept(who, v)
  <2>1. conf' \in [Versions -> [Consumers -> Answers]]
    BY <1>3 DEF AutoAccept, TypeOK, Answers
  <2>2. /\ PromotePending(who, v) \/ (CommitWithoutBump(who) /\ UNCHANGED <<metric, rows>>)
        /\ UNCHANGED <<def, due, late>>
    BY <1>3 DEF AutoAccept
  <2> QED BY <2>1, <2>2, PromoteOrCommitType DEF TypeOK
<1>4. CASE Extend(who, v)
  <2>1. due' \in [Versions -> Nat]
    <3>1. Postponed(who, v) \in Nat
      <4>1. Seen(who).due \in [Versions -> Nat]
        BY SeenType DEF View
      <4>2. Seen(who).due[v] \in Nat
        BY <4>1
      <4> QED BY <4>2 DEF Postponed
    <3> QED BY <1>4, <3>1 DEF Extend, TypeOK
  <2>2. late' \in [Versions -> BOOLEAN]
    BY <1>4 DEF Extend, TypeOK
  <2> QED BY <1>4, <2>1, <2>2, CommitType DEF Extend, TypeOK
<1> QED BY <1>1, <1>2, <1>3, <1>4

\* Every step keeps every variable in its type.
LEMMA NextType ==
  ASSUME TypeOK, [Next]_vars
  PROVE  TypeOK'
<1>1. ASSUME NEW who \in Callers, Edit(who) \/ Publish(who) \/ Retire(who) \/ Answer(who)
      PROVE  TypeOK'
  BY <1>1, EditType, PublishType, RetireType, AnswerType
<1>2. ASSUME NEW q \in Requests, Begin(q) PROVE TypeOK'
  <2>1. CurrentView \in View
    BY DEF TypeOK, CurrentView, View, MetricRow
  <2> QED BY <1>2, <2>1 DEF Begin, TypeOK, versionVars
<1>3. ASSUME NEW q \in Requests, Abandon(q) PROVE TypeOK'
  BY <1>3, CommitType DEF Abandon, TypeOK, versionVars
<1>4. ASSUME NEW v \in Versions, DeadlinePasses(v) PROVE TypeOK'
  BY <1>4 DEF DeadlinePasses, TypeOK, requestVars
<1>5. CASE UNCHANGED vars
  BY <1>5 DEF vars, TypeOK
<1> QED BY <1>1, <1>2, <1>3, <1>4, <1>5 DEF Next

\* In every behaviour each variable keeps its type.
THEOREM TypeCorrect == Spec => []TypeOK
<1>0. 0 \in 0 .. MaxVersion
  BY BoundsAssumption
<1>1. Init => TypeOK
  <2> SUFFICES ASSUME Init PROVE TypeOK
    OBVIOUS
  <2>1. metric \in MetricRow
    BY <1>0, OneIsAVersion DEF Init, NewMetric, MetricRow, MetricStates
  <2>2. rows \in [Versions -> RowStates]
    BY DEF Init, NewRows, RowStates
  <2>3. conf \in [Versions -> [Consumers -> Answers]]
    BY DEF Init, NoAnswers, Answers
  <2> QED BY <2>1, <2>2, <2>3, OneIsAVersion, NewViewType DEF Init, TypeOK
<1>2. TypeOK /\ [Next]_vars => TypeOK'
  BY NextType
<1> QED BY <1>1, <1>2, PTL DEF Spec

-----------------------------------------------------------------------------

\* What any request has read, Now included, is consistent with the current rows.
LEMMA SeenConsistent ==
  ASSUME TypeOK, VersionInv, NEW who \in Callers, Running(who)
  PROVE  Consistent(Seen(who))
<1>1. CASE who = Now
  BY <1>1 DEF Seen, CurrentView, Consistent, VersionInv, Pending
<1>2. CASE who # Now
  BY <1>2 DEF Seen, Running, VersionInv
<1> QED BY <1>1, <1>2

\* A step that creates no row and makes none pending keeps the invariant.
LEMMA KeepRows ==
  ASSUME TypeOK, TypeOK', VersionInv,
         \A v \in Versions : rows'[v] = "NONE" <=> rows[v] = "NONE",
         \A v \in Versions : Pending(v)' => Pending(v),
         rows[metric'.version] # "NONE",
         open' \subseteq open, \A q \in open' : view'[q] = view[q]
  PROVE  VersionInv'
<1>1. Contiguous(rows)'
  BY DEF VersionInv, Contiguous
<1>2. rows'[metric'.version] # "NONE"
  BY DEF TypeOK, MetricRow
<1>3. AtMostOnePending'
  BY DEF VersionInv, AtMostOnePending
<1>4. ASSUME NEW q \in open' PROVE Consistent(view[q])'
  <2>1. Consistent(view[q]) /\ view'[q] = view[q]
    BY <1>4 DEF VersionInv
  <2> QED BY <2>1 DEF Consistent, Contiguous
<1> QED BY <1>1, <1>2, <1>3, <1>4 DEF VersionInv

\* The heart of the argument.  A request that inserts the number after the
\* version it read, and that saw nothing pending if the row it inserts is
\* pending, keeps the invariant: every row numbered up to that version was
\* there when it read, so a row that has become pending since then is above
\* it, and a row above it would make the number inserted a taken one.
LEMMA InsertRow ==
  ASSUME TypeOK, TypeOK', VersionInv, NEW who \in Callers, Running(who),
         NEW status \in RowStates \ {"NONE"}, NEW definition,
         AddRow(who, Seen(who).version + 1, status, definition),
         status = "PENDING_CONFIRMATION" => ~HasPending(who),
         metric'.version \in {metric.version, Seen(who).version + 1},
         open' \subseteq open, \A q \in open' : view'[q] = view[q]
  PROVE  VersionInv'
<1> DEFINE seen == Seen(who)
           n == seen.version + 1
<1>1. seen.version \in Versions /\ n \in Versions /\ rows[n] = "NONE"
  BY SeenType, BoundsAssumption DEF View, AddRow
<1>2. Consistent(seen)
  BY SeenConsistent
<1>3. /\ rows'[n] = status
      /\ \A v \in Versions \ {n} : /\ rows'[v] = "NONE" <=> rows[v] = "NONE"
                                   /\ Pending(v)' => Pending(v)
  <2>1. \A v \in Excess(seen.rows) : rows[v] # "NONE"
    BY <1>2 DEF Excess, Finalized, Consistent
  <2>2. rows' = [v \in Versions |-> IF v = n THEN status
                                   ELSE IF v \in Excess(seen.rows) THEN "ARCHIVED"
                                   ELSE rows[v]]
    BY DEF AddRow
  <2> HIDE DEF n, seen
  <2> QED BY <1>1, <2>1, <2>2 DEF Pending
<1>4. \A v \in Versions : v <= seen.version => rows[v] # "NONE" /\ seen.rows[v] # "NONE"
  <2>1. seen.rows[seen.version] # "NONE" /\ Contiguous(seen.rows)
    BY <1>2 DEF Consistent
  <2>2. \A v \in Versions : v <= seen.version => seen.rows[v] # "NONE"
    BY <1>1, <2>1 DEF Contiguous
  <2> QED BY <1>2, <2>2 DEF Consistent
<1>5. \A v \in Versions : v > seen.version => rows[v] = "NONE"
  <2> SUFFICES ASSUME NEW v \in Versions, v > seen.version, rows[v] # "NONE"
               PROVE  FALSE
    OBVIOUS
  <2>1. n <= v
    BY <1>1
  <2>2. rows[n] # "NONE"
    BY <1>1, <2>1 DEF VersionInv, Contiguous
  <2> QED BY <1>1, <2>2
<1>6. Contiguous(rows)'
  BY <1>1, <1>3, <1>4, <1>5 DEF Contiguous
<1>7. rows'[metric'.version] # "NONE"
  BY <1>1, <1>3 DEF VersionInv, TypeOK, MetricRow
<1>8. AtMostOnePending'
  <2>1. CASE status # "PENDING_CONFIRMATION"
    BY <1>1, <1>3, <2>1 DEF VersionInv, AtMostOnePending, Pending
  <2>2. CASE status = "PENDING_CONFIRMATION"
    <3>1. ASSUME NEW v \in Versions, Pending(v) PROVE FALSE
      <4>1. seen.rows[v] = "NONE"
        BY <1>2, <2>2, <3>1 DEF HasPending, Consistent
      <4>2. v > seen.version
        BY <1>1, <1>4, <4>1 DEF Versions
      <4> QED BY <1>5, <3>1, <4>2 DEF Pending
    <3> QED BY <1>1, <1>3, <3>1 DEF AtMostOnePending
  <2> QED BY <2>1, <2>2
<1>9. ASSUME NEW q \in open' PROVE Consistent(view[q])'
  <2>1. Consistent(view[q]) /\ view'[q] = view[q]
    BY <1>9 DEF VersionInv
  <2>2. view[q].rows[n] = "NONE"
    BY <1>1, <2>1 DEF Consistent
  <2> QED BY <1>1, <1>3, <2>1, <2>2 DEF Consistent, Contiguous
<1> QED BY <1>6, <1>7, <1>8, <1>9 DEF VersionInv

\* Marking a row neither creates one nor makes one pending.
LEMMA MarkKeeps ==
  ASSUME TypeOK, NEW v \in Versions,
         NEW status \in RowStates \ {"NONE", "PENDING_CONFIRMATION"}, Mark(v, status)
  PROVE  \A w \in Versions : /\ rows'[w] = "NONE" <=> rows[w] = "NONE"
                             /\ Pending(w)' => Pending(w)
BY DEF Mark, TypeOK, Pending

\* Closing a request leaves the others and what they have read as they were.
LEMMA CloseKeeps ==
  ASSUME TypeOK, NEW who \in Callers, Close(who)
  PROVE  open' \subseteq open /\ \A q \in open' : view'[q] = view[q]
BY DEF Close, TypeOK

\* The edits keep the invariant: two of them insert a row that is pending.
LEMMA EditKeeps ==
  ASSUME TypeOK, TypeOK', VersionInv, NEW who \in Callers, Edit(who)
  PROVE  VersionInv'
<1> DEFINE n == Seen(who).version + 1
<1>1. CASE EditAttributes(who)
  <2>1. /\ Close(who) /\ UNCHANGED rows
        /\ metric' = [metric EXCEPT !.status = IF @ = "REVIEW" THEN "DRAFT" ELSE @]
    BY <1>1 DEF EditAttributes, Save, versionVars
  <2>2. metric'.version = metric.version
    BY <2>1 DEF TypeOK, MetricRow
  <2> QED BY <2>1, <2>2, CloseKeeps, KeepRows DEF VersionInv, Pending
<1>2. CASE EditDefinition(who)
  <2>1. /\ Running(who) /\ AddRow(who, n, "DRAFT", n) /\ Close(who)
        /\ metric' = [metric EXCEPT
                         !.version = n, !.live = n,
                         !.effective = IF Seen(who).status = "PUBLISHED" THEN n ELSE @,
                         !.status = IF @ = "REVIEW" THEN "DRAFT" ELSE @]
    BY <1>2 DEF EditDefinition, Save, Readable
  <2>2. metric'.version = n
    <3> HIDE DEF n
    <3> QED BY <2>1 DEF TypeOK, MetricRow
  <2>3. "DRAFT" \in RowStates \ {"NONE"} /\ "DRAFT" # "PENDING_CONFIRMATION"
    BY DEF RowStates
  <2> QED BY <2>1, <2>2, <2>3, CloseKeeps, InsertRow
<1>3. ASSUME NEW asked \in Audiences, BindDimension(who, asked) PROVE VersionInv'
  <2>1. /\ Running(who) /\ ~HasPending(who) /\ Close(who)
        /\ AddRow(who, n, "PENDING_CONFIRMATION", n)
        /\ metric'.version = metric.version
    BY <1>3 DEF BindDimension, CommitWithoutBump, Readable
  <2>2. "PENDING_CONFIRMATION" \in RowStates \ {"NONE"}
    BY DEF RowStates
  <2> QED BY <2>1, <2>2, CloseKeeps, InsertRow
<1>4. ASSUME NEW asked \in Audiences, NEW change \in Changes,
             ProposeBreaking(who, asked, change)
      PROVE  VersionInv'
  <2> DEFINE definition == IF change = "definition" THEN n ELSE metric.live
  <2>1. /\ Running(who) /\ ~HasPending(who) /\ Close(who)
        /\ AddRow(who, n, "PENDING_CONFIRMATION", definition)
        /\ metric' = [metric EXCEPT !.version = n]
    BY <1>4 DEF ProposeBreaking, Save, Readable
  <2>2. metric'.version = n
    BY <2>1 DEF TypeOK, MetricRow
  <2>3. "PENDING_CONFIRMATION" \in RowStates \ {"NONE"}
    BY DEF RowStates
  <2> QED BY <2>1, <2>2, <2>3, CloseKeeps, InsertRow
<1> QED BY <1>1, <1>2, <1>3, <1>4 DEF Edit

\* A save that keeps the version number, and at most marks a row, keeps it.
LEMMA SameVersionKeeps ==
  ASSUME TypeOK, TypeOK', VersionInv, NEW who \in Callers, Close(who),
         metric'.version = metric.version,
         \/ UNCHANGED rows
         \/ \E v \in Versions, status \in RowStates \ {"NONE", "PENDING_CONFIRMATION"} :
              Mark(v, status)
  PROVE  VersionInv'
<1>1. \A w \in Versions : /\ rows'[w] = "NONE" <=> rows[w] = "NONE"
                          /\ Pending(w)' => Pending(w)
  BY MarkKeeps DEF Pending
<1>2. rows[metric'.version] # "NONE"
  BY DEF VersionInv
<1> QED BY <1>1, <1>2, CloseKeeps, KeepRows

\* Review and publication keep the invariant: a rollback goes back to a row
\* the request has seen, and rows do not disappear.
LEMMA PublishKeeps ==
  ASSUME TypeOK, TypeOK', VersionInv, NEW who \in Callers, Publish(who)
  PROVE  VersionInv'
<1> DEFINE seen == Seen(who)
           Markable == RowStates \ {"NONE", "PENDING_CONFIRMATION"}
<1>0. /\ seen.version \in Versions
      /\ {"PUBLISHED", "EXPERIMENTAL", "ARCHIVED"} \subseteq Markable
  BY SeenType DEF View, RowStates
<1>1. CASE Submit(who) \/ Reject(who) \/ RecycleGray(who)
  <2>1. Close(who) /\ UNCHANGED rows
    BY <1>1 DEF Submit, Reject, RecycleGray, Save, versionVars
  <2>2. metric'.version = metric.version
    BY <1>1 DEF Submit, Reject, RecycleGray, Save, TypeOK, MetricRow
  <2> QED BY <2>1, <2>2, SameVersionKeeps
<1>2. CASE \/ \E target \in {"PUBLISHED", "EXPERIMENTAL"} : Approve(who, target)
           \/ EmergencyPublish(who) \/ Promote(who)
  <2>1. /\ Close(who)
        /\ \E status \in {"PUBLISHED", "EXPERIMENTAL"} : Mark(seen.version, status)
    BY <1>2 DEF Approve, EmergencyPublish, Promote, Save
  <2>2. metric'.version = metric.version
    BY <1>2 DEF Approve, EmergencyPublish, Promote, Save, TypeOK, MetricRow
  <2> QED BY <1>0, <2>1, <2>2, SameVersionKeeps
<1>3. CASE Rollback(who)
  <2>1. PICK prev \in Versions :
          /\ seen.rows[prev] = "PUBLISHED"
          /\ metric' = [metric EXCEPT !.status = "PUBLISHED", !.effective = prev,
                                      !.version = prev, !.live = def[prev]]
    BY <1>3 DEF Rollback, Save
  <2>2. metric'.version = prev
    BY <2>1 DEF TypeOK, MetricRow
  <2>3. Running(who) /\ Close(who) /\ Mark(seen.version, "ARCHIVED")
    BY <1>3 DEF Rollback, Readable, Save
  <2>4. rows[prev] # "NONE"
    BY <2>1, <2>3, SeenConsistent DEF Consistent
  <2>5. \A w \in Versions : /\ rows'[w] = "NONE" <=> rows[w] = "NONE"
                            /\ Pending(w)' => Pending(w)
    BY <1>0, <2>3, MarkKeeps
  <2> QED BY <2>2, <2>3, <2>4, <2>5, CloseKeeps, KeepRows
<1> QED BY <1>1, <1>2, <1>3 DEF Publish

\* Retirement keeps the invariant: it touches neither rows nor version.
LEMMA RetireKeeps ==
  ASSUME TypeOK, TypeOK', VersionInv, NEW who \in Callers, Retire(who)
  PROVE  VersionInv'
<1>1. Close(who) /\ UNCHANGED rows
  BY DEF Retire, Deprecate, Reactivate, MarkSourceDropped, RecoverSource,
         ConfirmDeprecateDropped, Delete, VoidByArbitration, ArchiveAtSunset, SoftDelete,
         Restore, Save, CommitWithoutBump, versionVars
<1>2. metric'.version = metric.version
  BY DEF Retire, Deprecate, Reactivate, MarkSourceDropped, RecoverSource,
         ConfirmDeprecateDropped, Delete, VoidByArbitration, ArchiveAtSunset, SoftDelete,
         Restore, Save, TypeOK, MetricRow
<1> QED BY <1>1, <1>2, SameVersionKeeps

\* The answers keep the invariant: a promotion makes the main row point at a
\* row the request has seen.
LEMMA AnswerKeeps ==
  ASSUME TypeOK, TypeOK', VersionInv, NEW who \in Callers, Answer(who)
  PROVE  VersionInv'
<1> PICK v \in Versions :
      \/ \E c \in Consumers : Confirm(who, v, c) \/ RejectVersion(who, v, c)
      \/ AutoAccept(who, v)
      \/ Extend(who, v)
  BY DEF Answer
<1>0. "PUBLISHED" \in RowStates \ {"NONE", "PENDING_CONFIRMATION"}
      /\ "CANCELLED" \in RowStates \ {"NONE", "PENDING_CONFIRMATION"}
  BY DEF RowStates
<1>1. CASE Running(who) /\ PromotePending(who, v)
  <2>1. /\ Close(who) /\ Mark(v, "PUBLISHED")
        /\ metric' = [metric EXCEPT !.effective = v, !.version = v, !.live = def[v]]
    BY <1>1 DEF PromotePending, Save
  <2>2. metric'.version = v
    BY <2>1 DEF TypeOK, MetricRow
  <2>3. rows[v] # "NONE"
    BY <1>1, SeenConsistent DEF Consistent, PromotePending
  <2>4. \A w \in Versions : /\ rows'[w] = "NONE" <=> rows[w] = "NONE"
                            /\ Pending(w)' => Pending(w)
    BY <1>0, <2>1, MarkKeeps
  <2> QED BY <2>1, <2>2, <2>3, <2>4, CloseKeeps, KeepRows
<1>2. CASE CommitWithoutBump(who) /\ UNCHANGED <<metric, rows>>
  BY <1>2, SameVersionKeeps DEF CommitWithoutBump
<1>3. CASE CommitWithoutBump(who) /\ UNCHANGED metric /\ Mark(v, "CANCELLED")
  BY <1>0, <1>3, SameVersionKeeps DEF CommitWithoutBump
<1>4. ASSUME NEW c \in Consumers, Confirm(who, v, c) PROVE VersionInv'
  BY <1>1, <1>2, <1>4 DEF Confirm, Readable
<1>5. ASSUME NEW c \in Consumers, RejectVersion(who, v, c) PROVE VersionInv'
  BY <1>3, <1>5 DEF RejectVersion, RejectedRow
<1>6. CASE AutoAccept(who, v)
  BY <1>1, <1>2, <1>6 DEF AutoAccept, Readable
<1>7. CASE Extend(who, v)
  BY <1>2, <1>7 DEF Extend
<1> QED BY <1>4, <1>5, <1>6, <1>7

LEMMA NextKeeps ==
  ASSUME TypeOK, TypeOK', VersionInv, [Next]_vars
  PROVE  VersionInv'
<1>1. ASSUME NEW who \in Callers, Edit(who) \/ Publish(who) \/ Retire(who) \/ Answer(who)
      PROVE  VersionInv'
  BY <1>1, EditKeeps, PublishKeeps, RetireKeeps, AnswerKeeps
<1>2. ASSUME NEW q \in Requests, Begin(q) PROVE VersionInv'
  <2>1. Consistent(CurrentView)
    BY DEF Consistent, CurrentView, VersionInv, Pending
  <2>2. /\ open' = open \cup {q} /\ UNCHANGED <<metric, rows>>
        /\ view'[q] = CurrentView
        /\ \A r \in open \ {q} : view'[r] = view[r]
    BY <1>2 DEF Begin, versionVars, TypeOK
  <2>3. ASSUME NEW r \in open' PROVE Consistent(view[r])'
    <3>1. Consistent(view'[r])
      BY <2>1, <2>2, <2>3 DEF VersionInv
    <3> QED BY <2>2, <3>1 DEF Consistent, Contiguous, Pending
  <2> QED BY <2>2, <2>3 DEF VersionInv, Contiguous, AtMostOnePending, Pending
<1>3. ASSUME NEW q \in Requests, Abandon(q) PROVE VersionInv'
  BY <1>3, SameVersionKeeps DEF Abandon, CommitWithoutBump, versionVars
<1>4. CASE (\E v \in Versions : DeadlinePasses(v)) \/ UNCHANGED vars
  <2>1. UNCHANGED <<metric, rows, open, view>>
    BY <1>4 DEF DeadlinePasses, requestVars, vars
  <2> QED BY <2>1 DEF VersionInv, Contiguous, Consistent, AtMostOnePending, Pending
<1> QED BY <1>1, <1>2, <1>3, <1>4 DEF Next

\* Version numbers have no gaps, and no request knows of a row that is gone or
\* takes for finished one that is still pending.
THEOREM VersionsConsistent == Spec => []VersionInv
<1>1. Init => VersionInv
  <2> SUFFICES ASSUME Init PROVE VersionInv
    OBVIOUS
  <2>1. rows = [v \in Versions |-> IF v = 1 THEN "DRAFT" ELSE "NONE"]
    BY DEF Init, NewRows
  <2>2. metric.version = 1 /\ open = {}
    BY DEF Init, NewMetric
  <2> QED BY <2>1, <2>2, OneIsAVersion
      DEF VersionInv, Contiguous, AtMostOnePending, Pending
<1>2. TypeOK /\ TypeOK' /\ VersionInv /\ [Next]_vars => VersionInv'
  BY NextKeeps
<1> QED BY <1>1, <1>2, TypeCorrect, PTL DEF Spec

\* However the requests on a metric interleave, at most one of its versions is
\* waiting for confirmation.
THEOREM OnePending == Spec => []AtMostOnePending
<1>1. VersionInv => AtMostOnePending
  BY DEF VersionInv
<1> QED BY <1>1, VersionsConsistent, PTL
=============================================================================
