------------------------ MODULE MetricAnswersProofs -------------------------
(* What the confirmation period of MetricVersions promises: the answers of  *)
(* the consumers, the deadline, and the steps of the status; and under what *)
(* conditions the promises that the code breaks would hold.                 *)
EXTENDS MetricVersionsProofs

USE DEF Versions, Callers

-----------------------------------------------------------------------------
(* The deadline and the rejections *)

\* The two edits that propose a version insert a pending row at a free number
\* and ask its consumers.
LEMMA Proposal ==
  ASSUME TypeOK, NEW who \in Callers, NEW asked \in Audiences,
         BindDimension(who, asked)
           \/ \E change \in Changes : ProposeBreaking(who, asked, change)
  PROVE  /\ Running(who)
         /\ Seen(who).version + 1 \in Versions
         /\ \E definition :
              AddRow(who, Seen(who).version + 1, "PENDING_CONFIRMATION", definition)
         /\ AskConsumers(Seen(who).version + 1, asked)
         /\ Close(who)
<1>1. Seen(who).version + 1 \in Versions
  BY SeenType, BoundsAssumption DEF View, BindDimension, ProposeBreaking, AddRow
<1>2. CASE BindDimension(who, asked)
  BY <1>1, <1>2 DEF BindDimension, Readable, CommitWithoutBump
<1>3. ASSUME NEW change \in Changes, ProposeBreaking(who, asked, change)
      PROVE  /\ Running(who)
             /\ \E definition :
                  AddRow(who, Seen(who).version + 1, "PENDING_CONFIRMATION", definition)
             /\ AskConsumers(Seen(who).version + 1, asked)
             /\ Close(who)
  BY <1>3 DEF ProposeBreaking, Readable, Save
<1> QED BY <1>1, <1>2, <1>3

\* Publication and retirement touch neither the answers nor the deadlines,
\* and at most mark one version row as finished.
LEMMA StatusSteps ==
  ASSUME TypeOK, NEW who \in Callers, Publish(who) \/ Retire(who)
  PROVE  /\ UNCHANGED <<conf, due>>
         /\ Close(who)
         /\ \/ UNCHANGED rows
            \/ \E v \in Versions, status \in {"PUBLISHED", "EXPERIMENTAL", "ARCHIVED"} :
                 Mark(v, status)
<1>0. Seen(who).version \in Versions
  BY SeenType DEF View
<1>1. CASE Submit(who) \/ Reject(who) \/ RecycleGray(who)
  BY <1>1 DEF Submit, Reject, RecycleGray, Save, versionVars
<1>2. CASE \/ \E target \in {"PUBLISHED", "EXPERIMENTAL"} : Approve(who, target)
           \/ EmergencyPublish(who) \/ Promote(who)
  BY <1>0, <1>2 DEF Approve, EmergencyPublish, Promote, Save
<1>3. CASE Rollback(who)
  BY <1>0, <1>3 DEF Rollback, Save
<1>4. CASE Retire(who)
  BY <1>4 DEF Retire, Deprecate, Reactivate, MarkSourceDropped, RecoverSource,
       ConfirmDeprecateDropped, Delete, VoidByArbitration, ArchiveAtSunset, SoftDelete,
       Restore, Save, CommitWithoutBump, versionVars
<1> QED BY <1>1, <1>2, <1>3, <1>4 DEF Publish

\* Which steps touch the answers or the deadlines; only the consumers of a new
\* row are asked.
LEMMA AnswerSteps ==
  ASSUME TypeOK, [Next]_vars
  PROVE  \/ UNCHANGED <<conf, due>>
         \/ \E n \in Versions, asked \in Audiences :
              rows[n] = "NONE" /\ AskConsumers(n, asked)
         \/ \E who \in Callers, v \in Versions :
              \/ \E c \in Consumers : Confirm(who, v, c) \/ RejectVersion(who, v, c)
              \/ AutoAccept(who, v)
              \/ Extend(who, v)
<1>1. ASSUME NEW who \in Callers, Edit(who)
      PROVE  \/ UNCHANGED <<conf, due>>
             \/ \E n \in Versions, asked \in Audiences :
                  rows[n] = "NONE" /\ AskConsumers(n, asked)
  <2>1. CASE EditAttributes(who) \/ EditDefinition(who)
    BY <2>1 DEF EditAttributes, EditDefinition, versionVars
  <2>2. ASSUME NEW asked \in Audiences,
               BindDimension(who, asked)
                 \/ \E change \in Changes : ProposeBreaking(who, asked, change)
        PROVE  \E n \in Versions : rows[n] = "NONE" /\ AskConsumers(n, asked)
    <3>1. rows[Seen(who).version + 1] = "NONE"
      BY <2>2, Proposal DEF AddRow
    <3> QED BY <2>2, <3>1, Proposal
  <2> QED BY <1>1, <2>1, <2>2 DEF Edit
<1>2. ASSUME NEW who \in Callers, Publish(who) \/ Retire(who)
      PROVE  UNCHANGED <<conf, due>>
  BY <1>2, StatusSteps
<1>3. CASE (\E q \in Requests : Begin(q) \/ Abandon(q))
           \/ (\E v \in Versions : DeadlinePasses(v)) \/ UNCHANGED vars
  BY <1>3 DEF Begin, Abandon, DeadlinePasses, versionVars, vars
<1> QED BY <1>1, <1>2, <1>3 DEF Next, Answer

\* A deadline is put off at most once: extend_version writes one week more
\* than what it read, and it refuses a deadline that it read as put off.
THEOREM PutOffOnce == Spec => []ExtendedOnce
<1>1. Init => ExtendedOnce
  BY DEF Init, ExtendedOnce
<1>2. ASSUME TypeOK, ExtendedOnce, [Next]_vars
      PROVE  ExtendedOnce'
  <2>1. ASSUME NEW n \in Versions, NEW asked, AskConsumers(n, asked)
        PROVE  ExtendedOnce'
    BY <1>2, <2>1 DEF AskConsumers, ExtendedOnce, TypeOK
  <2>2. ASSUME NEW who \in Callers, NEW v \in Versions, Extend(who, v)
        PROVE  ExtendedOnce'
    <3>1. Seen(who).due[v] \in Nat
      <4>1. Seen(who).due \in [Versions -> Nat]
        BY <1>2, SeenType DEF View
      <4> QED BY <4>1
    <3>2. Postponed(who, v) <= 3
      BY <2>2, <3>1 DEF Extend, Postponed
    <3> QED BY <1>2, <2>2, <3>2 DEF Extend, ExtendedOnce, TypeOK
  <2>3. CASE UNCHANGED due
    BY <1>2, <2>3 DEF ExtendedOnce
  <2>4. ASSUME NEW who \in Callers, NEW v \in Versions,
               \/ \E c \in Consumers : Confirm(who, v, c) \/ RejectVersion(who, v, c)
               \/ AutoAccept(who, v)
        PROVE  UNCHANGED due
    BY <2>4 DEF Confirm, RejectVersion, AutoAccept
  <2> QED BY <1>2, <2>1, <2>2, <2>3, <2>4, AnswerSteps
<1> QED BY <1>1, <1>2, TypeCorrect, PTL DEF Spec

-----------------------------------------------------------------------------
(* The status *)

\* A request whose row_version is current has read the current status and the
\* current version number.
FreshInv ==
  \A q \in fresh : view[q].status = metric.status /\ view[q].version = metric.version

\* What a save relies on.
LEMMA SavedIsCurrent ==
  ASSUME TypeOK, FreshInv, NEW who \in Callers, CasSucceeds(who)
  PROVE  Seen(who).status = metric.status /\ Seen(who).version = metric.version
<1>1. CASE who = Now
  BY <1>1 DEF Seen, CurrentView
<1>2. CASE who # Now
  BY <1>2 DEF Seen, CasSucceeds, FreshInv
<1> QED BY <1>1, <1>2

\* A step along the matrix, an emergency publication or a reactivation.
LegalStep(from, to) ==
  \/ CanMove(from, to)
  \/ <<from, to>> \in {<<"DRAFT", "PUBLISHED">>, <<"DEPRECATED", "DRAFT">>}

\* Every step of the status is legal, since what a save has read is current.
LEMMA NextIsLegal ==
  ASSUME TypeOK, FreshInv, [Next]_vars
  PROVE  LegalStep(metric.status, metric'.status)
<1>0. CASE metric'.status = metric.status
  BY <1>0 DEF LegalStep, CanMove
<1>1. ASSUME NEW who \in Callers, Edit(who) PROVE LegalStep(metric.status, metric'.status)
  <2>1. CASE metric'.status = IF metric.status = "REVIEW" THEN "DRAFT" ELSE metric.status
    BY <2>1 DEF LegalStep, CanMove, Transitions
  <2> QED BY <1>0, <1>1, <2>1 DEF Edit, EditAttributes, EditDefinition, BindDimension,
         ProposeBreaking, Save, TypeOK, MetricRow
<1>2. ASSUME NEW who \in Callers, Publish(who)
      PROVE  LegalStep(metric.status, metric'.status)
  <2>1. CASE Submit(who)
    BY <1>2, <2>1, SavedIsCurrent DEF Submit, Save, LegalStep, TypeOK, MetricRow
  <2>2. ASSUME NEW target \in {"PUBLISHED", "EXPERIMENTAL"}, Approve(who, target)
        PROVE  LegalStep(metric.status, metric'.status)
    BY <1>2, <2>2, SavedIsCurrent DEF Approve, Save, LegalStep, TypeOK, MetricRow
  <2>3. CASE Reject(who)
    BY <2>3, SavedIsCurrent
    DEF Reject, Save, LegalStep, CanMove, Transitions, TypeOK, MetricRow
  <2>4. CASE EmergencyPublish(who)
    BY <2>4, SavedIsCurrent
    DEF EmergencyPublish, Save, LegalStep, CanMove, Transitions, TypeOK, MetricRow
  <2>5. CASE Promote(who) \/ Rollback(who)
    BY <2>5, SavedIsCurrent DEF Promote, Rollback, Save, LegalStep, TypeOK, MetricRow
  <2>6. CASE RecycleGray(who)
    BY <2>6, SavedIsCurrent
    DEF RecycleGray, Save, LegalStep, CanMove, Transitions, TypeOK, MetricRow
  <2> QED BY <1>2, <2>1, <2>2, <2>3, <2>4, <2>5, <2>6 DEF Publish
<1>3. ASSUME NEW who \in Callers, Retire(who)
      PROVE  LegalStep(metric.status, metric'.status)
  <2>1. CASE Deprecate(who)
    BY <2>1, SavedIsCurrent DEF Deprecate, Save, LegalStep, TypeOK, MetricRow
  <2>2. CASE Reactivate(who)
    BY <2>2, SavedIsCurrent DEF Reactivate, Save, LegalStep, TypeOK, MetricRow
  <2>3. CASE MarkSourceDropped(who) \/ RecoverSource(who) \/ ConfirmDeprecateDropped(who)
    BY <2>3, SavedIsCurrent DEF MarkSourceDropped, RecoverSource, ConfirmDeprecateDropped,
         Save, LegalStep, CanMove, Transitions, TypeOK, MetricRow
  <2>4. CASE Delete(who) \/ VoidByArbitration(who) \/ ArchiveAtSunset(who) \/ Restore(who)
    BY <1>0, <2>4 DEF Delete, VoidByArbitration, ArchiveAtSunset, SoftDelete, Restore,
         TypeOK, MetricRow
  <2> QED BY <1>3, <2>1, <2>2, <2>3, <2>4 DEF Retire
<1>4. ASSUME NEW who \in Callers, Answer(who)
      PROVE  LegalStep(metric.status, metric'.status)
  <2>1. metric'.status = metric.status
    BY <1>4 DEF Answer, Confirm, RejectVersion, AutoAccept, Extend, PromotePending, Save,
         TypeOK, MetricRow
  <2> QED BY <1>0, <2>1
<1>5. CASE (\E q \in Requests : Begin(q) \/ Abandon(q))
           \/ (\E v \in Versions : DeadlinePasses(v)) \/ UNCHANGED vars
  BY <1>0, <1>5 DEF Begin, Abandon, DeadlinePasses, vars
<1> QED BY <1>1, <1>2, <1>3, <1>4, <1>5 DEF Next

\* A step either leaves status and version alone, or empties the set of requests
\* that are up to date; only a request that has just read enters the set.
LEMMA NextFresh ==
  ASSUME TypeOK, FreshInv, [Next]_vars
  PROVE  FreshInv'
<1> DEFINE SameStatus == metric'.status = metric.status /\ metric'.version = metric.version
<1>1. ASSUME fresh' \subseteq fresh, SameStatus,
             NEW who, Close(who), who \notin fresh'
      PROVE  FreshInv'
  BY <1>1 DEF FreshInv, Close, TypeOK
<1>2. CASE fresh' = {}
  BY <1>2 DEF FreshInv
<1>3. ASSUME NEW who \in Callers, CommitWithoutBump(who), SameStatus
      PROVE  FreshInv'
  BY <1>1, <1>3 DEF CommitWithoutBump
<1>4. ASSUME NEW who \in Callers, Edit(who) \/ Publish(who) \/ Retire(who) \/ Answer(who)
      PROVE  fresh' = {} \/ (CommitWithoutBump(who) /\ SameStatus)
  <2>1. CASE Edit(who)
    BY <2>1 DEF Edit, EditAttributes, EditDefinition, BindDimension, ProposeBreaking, Save
  <2>2. CASE Publish(who)
    BY <2>2 DEF Publish, Submit, Approve, Reject, EmergencyPublish, Promote, RecycleGray,
         Rollback, Save
  <2>3. CASE Retire(who)
    <3>1. CASE \/ Delete(who) \/ VoidByArbitration(who) \/ ArchiveAtSunset(who)
               \/ Restore(who)
      BY <3>1 DEF Delete, VoidByArbitration, ArchiveAtSunset, SoftDelete, Restore, TypeOK,
           MetricRow
    <3> QED BY <2>3, <3>1 DEF Retire, Deprecate, Reactivate, MarkSourceDropped,
         RecoverSource, ConfirmDeprecateDropped, Save
  <2>4. CASE Answer(who)
    BY <2>4 DEF Answer, Confirm, RejectVersion, AutoAccept, Extend, PromotePending, Save
  <2> QED BY <1>4, <2>1, <2>2, <2>3, <2>4
<1>5. ASSUME NEW q \in Requests, Begin(q) PROVE FreshInv'
  BY <1>5 DEF Begin, CurrentView, FreshInv, TypeOK
<1>6. ASSUME NEW q \in Requests, Abandon(q) PROVE FreshInv'
  BY <1>3, <1>6 DEF Abandon
<1>7. CASE (\E v \in Versions : DeadlinePasses(v)) \/ UNCHANGED vars
  BY <1>7 DEF DeadlinePasses, requestVars, vars, FreshInv
<1> QED BY <1>2, <1>3, <1>4, <1>5, <1>6, <1>7 DEF Next

THEOREM FreshIsCurrent == Spec => []FreshInv
<1>1. Init => FreshInv
  BY DEF Init, FreshInv
<1>2. TypeOK /\ FreshInv /\ [Next]_vars => FreshInv'
  BY NextFresh
<1> QED BY <1>1, <1>2, TypeCorrect, PTL DEF Spec

\* The compare-and-swap keeps the status on the state machine, whatever the
\* requests saw when they started.
THEOREM StatusIsLegal == Spec => LegalStatusSteps
<1>1. TypeOK /\ FreshInv /\ [Next]_vars
        => [\/ CanMove(metric.status, metric'.status)
            \/ <<metric.status, metric'.status>> \in
                 {<<"DRAFT", "PUBLISHED">>, <<"DEPRECATED", "DRAFT">>}]_vars
  BY NextIsLegal DEF LegalStep
<1> QED BY <1>1, TypeCorrect, FreshIsCurrent, PTL DEF Spec, LegalStatusSteps

-----------------------------------------------------------------------------
(* The answers *)

\* What a request remembers of the answers.  A row it saw asked about is there
\* for good, one it saw rejected does not wait any more, and what is unanswered
\* now was unanswered then: nobody is asked twice about one version.
Recalls(seen) ==
  \A v \in Versions, c \in Consumers :
    /\ seen.conf[v][c] # "NONE" => rows[v] # "NONE"
    /\ seen.conf[v][c] = "REJECTED" => ~Pending(v)
    /\ seen.rows[v] # "NONE" /\ conf[v][c] = "PENDING" => seen.conf[v][c] = "PENDING"

\* A pending version has somebody who has not answered, and nobody who has
\* rejected it.
AnswersInv ==
  /\ \A v \in Versions, c \in Consumers :
       /\ conf[v][c] # "NONE" => rows[v] # "NONE"
       /\ conf[v][c] = "REJECTED" => ~Pending(v)
  /\ \A v \in Versions : Pending(v) => \E c \in Consumers : conf[v][c] = "PENDING"
  /\ \A q \in open : Recalls(view[q])

\* Whoever runs recalls; what Now has read is current.
LEMMA SeenRecalls ==
  ASSUME TypeOK, AnswersInv, NEW who \in Callers, Running(who)
  PROVE  Recalls(Seen(who))
<1>1. CASE who = Now
  BY <1>1 DEF Seen, CurrentView, Recalls, AnswersInv
<1>2. CASE who # Now
  BY <1>2 DEF Seen, Running, AnswersInv
<1> QED BY <1>1, <1>2

\* A step that asks nobody, and leaves no version pending without a question.
LEMMA AnswersKept ==
  ASSUME TypeOK, TypeOK', AnswersInv,
         \A v \in Versions : /\ rows[v] # "NONE" => rows'[v] # "NONE"
                             /\ Pending(v)' => Pending(v),
         \A v \in Versions, c \in Consumers :
           /\ conf'[v][c] # "NONE" => rows'[v] # "NONE"
           /\ conf'[v][c] = "REJECTED" => conf[v][c] = "REJECTED" \/ ~Pending(v)'
           /\ conf'[v][c] = "PENDING" => conf[v][c] = "PENDING",
         \A v \in Versions : Pending(v)' => \E c \in Consumers : conf'[v][c] = "PENDING",
         open' \subseteq open, \A q \in open' : view'[q] = view[q]
  PROVE  AnswersInv'
<1>1. ASSUME NEW q \in open' PROVE Recalls(view[q])'
  <2>1. Recalls(view[q]) /\ view'[q] = view[q]
    BY <1>1 DEF AnswersInv
  <2> QED BY <2>1 DEF Recalls
<1>2. \A v \in Versions, c \in Consumers : conf'[v][c] = "REJECTED" => ~Pending(v)'
  BY DEF AnswersInv
<1> QED BY <1>1, <1>2 DEF AnswersInv

\* A step that leaves the answers alone.
LEMMA SameAnswers ==
  ASSUME TypeOK, TypeOK', AnswersInv, UNCHANGED conf,
         \A v \in Versions : /\ rows[v] # "NONE" => rows'[v] # "NONE"
                             /\ Pending(v)' => Pending(v),
         open' \subseteq open, \A q \in open' : view'[q] = view[q]
  PROVE  AnswersInv'
<1>1. \A v \in Versions : Pending(v)' => \E c \in Consumers : conf'[v][c] = "PENDING"
  BY DEF AnswersInv
<1>2. \A v \in Versions, c \in Consumers : conf'[v][c] # "NONE" => rows'[v] # "NONE"
  BY DEF AnswersInv
<1> QED BY <1>1, <1>2, AnswersKept

\* Inserting a row loses none and makes no other one pending.
LEMMA InsertKeeps ==
  ASSUME TypeOK, NEW who \in Callers, NEW n \in Versions, NEW status \in RowStates,
         NEW definition, AddRow(who, n, status, definition)
  PROVE  /\ rows[n] = "NONE" /\ rows'[n] = status
         /\ \A v \in Versions \ {n} : /\ rows[v] # "NONE" => rows'[v] # "NONE"
                                      /\ Pending(v)' => Pending(v)
BY DEF AddRow, TypeOK, Pending

\* A proposal asks somebody about a row that no request has seen.
LEMMA ProposalKeeps ==
  ASSUME TypeOK, TypeOK', VersionInv, AnswersInv, NEW who \in Callers,
         NEW asked \in Audiences, NEW n \in Versions, NEW definition,
         AddRow(who, n, "PENDING_CONFIRMATION", definition), AskConsumers(n, asked),
         Close(who)
  PROVE  AnswersInv'
<1>1. /\ rows[n] = "NONE" /\ rows'[n] = "PENDING_CONFIRMATION"
      /\ \A v \in Versions \ {n} : /\ rows[v] # "NONE" => rows'[v] # "NONE"
                                   /\ Pending(v)' => Pending(v)
  BY InsertKeeps DEF RowStates
<1>2. /\ \A c \in Consumers : conf'[n][c] = IF c \in asked THEN "PENDING" ELSE "NONE"
      /\ \A v \in Versions \ {n} : conf'[v] = conf[v]
  BY DEF AskConsumers, TypeOK
<1>3. \E c \in Consumers : conf'[n][c] = "PENDING"
  BY <1>2, ConsumersAssumption
<1>4. \A v \in Versions, c \in Consumers : /\ conf'[v][c] # "NONE" => rows'[v] # "NONE"
                                           /\ conf'[v][c] = "REJECTED" => ~Pending(v)'
  BY <1>1, <1>2 DEF AnswersInv
<1>5. \A v \in Versions : Pending(v)' => \E c \in Consumers : conf'[v][c] = "PENDING"
  BY <1>1, <1>2, <1>3 DEF AnswersInv
<1>6. ASSUME NEW q \in open' PROVE Recalls(view[q])'
  <2>1. q \in open /\ view'[q] = view[q] /\ Recalls(view[q]) /\ Consistent(view[q])
    BY <1>6, CloseKeeps DEF AnswersInv, VersionInv
  <2>2. view[q].rows[n] = "NONE"
    BY <1>1, <2>1 DEF Consistent
  <2>3. \A c \in Consumers : view[q].conf[n][c] = "NONE"
    BY <1>1, <2>1 DEF Recalls
  <2>4. ASSUME NEW v \in Versions, NEW c \in Consumers
        PROVE  /\ view[q].conf[v][c] # "NONE" => rows'[v] # "NONE"
               /\ view[q].conf[v][c] = "REJECTED" => ~Pending(v)'
               /\ view[q].rows[v] # "NONE" /\ conf'[v][c] = "PENDING"
                    => view[q].conf[v][c] = "PENDING"
    <3>1. CASE v = n
      BY <2>2, <2>3, <3>1
    <3>2. CASE v # n
      BY <1>1, <1>2, <2>1, <3>2 DEF Recalls
    <3> QED BY <3>1, <3>2
  <2> QED BY <2>1, <2>4 DEF Recalls
<1> QED BY <1>4, <1>5, <1>6 DEF AnswersInv

\* A confirmation that is not the last one leaves somebody to answer: the
\* answers it has read are locked, so they are the current ones.
LEMMA ConfirmKeeps ==
  ASSUME TypeOK, TypeOK', AnswersInv, NEW who \in Callers, NEW v \in Versions,
         NEW c \in Consumers, Confirm(who, v, c)
  PROVE  AnswersInv'
<1> DEFINE answers == [conf[v] EXCEPT ![c] = "CONFIRMED"]
<1>1. /\ conf[v][c] \in Confirmable
      /\ conf' = [conf EXCEPT ![v][c] = "CONFIRMED"]
      /\ Close(who)
      /\ \/ AllAccepted(answers) /\ Mark(v, "PUBLISHED")
         \/ ~AllAccepted(answers) /\ UNCHANGED rows
  BY DEF Confirm, LockedAnswers, PromotePending, Save, CommitWithoutBump
<1>2. conf'[v] = answers /\ \A w \in Versions \ {v} : conf'[w] = conf[w]
  BY <1>1 DEF TypeOK
<1>3. \A w \in Versions : /\ rows'[w] = "NONE" <=> rows[w] = "NONE"
                          /\ Pending(w)' => Pending(w)
  BY <1>1, MarkKeeps DEF RowStates, Pending
<1>4. answers \in [Consumers -> Answers]
  BY DEF TypeOK, Answers
<1>5. ASSUME Pending(v)' PROVE \E d \in Consumers : conf'[v][d] = "PENDING"
  <2>1. ~AllAccepted(answers)
    <3>1. ~Mark(v, "PUBLISHED")
      BY <1>5 DEF Mark, TypeOK, Pending
    <3> QED BY <1>1, <3>1
  <2>2. PICK d \in Consumers : answers[d] # "NONE" /\ answers[d] \notin Accepting
    BY <2>1 DEF AllAccepted, Asked
  <2>3. answers[d] # "REJECTED"
    BY <1>3, <1>5 DEF TypeOK, AnswersInv
  <2> QED BY <1>2, <1>4, <2>2, <2>3 DEF Accepting, Answers
<1>6. \A w \in Versions, d \in Consumers :
        /\ conf'[w][d] # "NONE" => conf[w][d] # "NONE"
        /\ conf'[w][d] \in {"REJECTED", "PENDING"} => conf'[w][d] = conf[w][d]
  BY <1>1 DEF TypeOK, Confirmable
<1>7. \A w \in Versions : Pending(w)' => \E d \in Consumers : conf'[w][d] = "PENDING"
  <2> SUFFICES ASSUME NEW w \in Versions, Pending(w)'
               PROVE  \E d \in Consumers : conf'[w][d] = "PENDING"
    OBVIOUS
  <2>1. CASE w = v
    BY <1>5, <2>1
  <2>2. CASE w # v
    <3>1. conf'[w] = conf[w] /\ Pending(w)
      BY <1>2, <1>3, <2>2
    <3> QED BY <3>1 DEF AnswersInv
  <2> QED BY <2>1, <2>2
<1>8. \A w \in Versions, d \in Consumers :
        /\ conf'[w][d] # "NONE" => rows'[w] # "NONE"
        /\ conf'[w][d] = "REJECTED" => conf[w][d] = "REJECTED"
        /\ conf'[w][d] = "PENDING" => conf[w][d] = "PENDING"
  BY <1>3, <1>6 DEF AnswersInv
<1> HIDE DEF answers
<1> QED BY <1>1, <1>3, <1>7, <1>8, CloseKeeps, AnswersKept

\* A rejection cancels the row it is about, which the rejecting consumer saw.
LEMMA RejectKeeps ==
  ASSUME TypeOK, TypeOK', AnswersInv, NEW who \in Callers, NEW v \in Versions,
         NEW c \in Consumers, RejectVersion(who, v, c)
  PROVE  AnswersInv'
<1> DEFINE seen == Seen(who)
<1>1. /\ Running(who) /\ seen.conf[v][c] # "NONE"
      /\ conf' = [conf EXCEPT ![v] = [d \in Consumers |->
                    IF d = c \/ seen.conf[v][d] = "PENDING" THEN "REJECTED" ELSE @[d]]]
      /\ Mark(v, "CANCELLED") /\ Close(who)
  BY DEF RejectVersion, RejectedRow, Readable, CommitWithoutBump
<1>2. rows[v] # "NONE"
  BY <1>1, SeenRecalls DEF Recalls
<1>3. rows'[v] = "CANCELLED" /\ \A w \in Versions \ {v} : rows'[w] = rows[w]
  BY <1>1, <1>2 DEF Mark, TypeOK
<1>4. \A w \in Versions \ {v} : conf'[w] = conf[w]
  BY <1>1 DEF TypeOK
<1>5. \A d \in Consumers : conf'[v][d] \in {"REJECTED", conf[v][d]}
  BY <1>1 DEF TypeOK
<1>6. \A w \in Versions : /\ rows[w] # "NONE" => rows'[w] # "NONE"
                          /\ Pending(w)' => Pending(w)
  BY <1>3 DEF Pending
<1>7. ~Pending(v)'
  BY <1>3 DEF Pending
<1>8. \A w \in Versions, d \in Consumers :
        /\ conf'[w][d] # "NONE" => rows'[w] # "NONE"
        /\ conf'[w][d] = "REJECTED" => conf[w][d] = "REJECTED" \/ ~Pending(w)'
        /\ conf'[w][d] = "PENDING" => conf[w][d] = "PENDING"
  <2>1. ASSUME NEW w \in Versions, NEW d \in Consumers
        PROVE  /\ conf'[w][d] # "NONE" => rows'[w] # "NONE"
               /\ conf'[w][d] = "REJECTED" => conf[w][d] = "REJECTED" \/ ~Pending(w)'
               /\ conf'[w][d] = "PENDING" => conf[w][d] = "PENDING"
    <3>1. CASE w = v
      BY <1>3, <1>5, <1>7, <3>1
    <3>2. CASE w # v
      BY <1>3, <1>4, <3>2 DEF AnswersInv
    <3> QED BY <3>1, <3>2
  <2> QED BY <2>1
<1>9. \A w \in Versions : Pending(w)' => \E d \in Consumers : conf'[w][d] = "PENDING"
  BY <1>4, <1>6, <1>7 DEF AnswersInv
<1> QED BY <1>1, <1>6, <1>8, <1>9, CloseKeeps, AnswersKept

\* The timeout job overwrites answers it has not locked.  If it does not
\* promote, it saw a rejection, and the row is pending no more.
LEMMA TimeoutKeeps ==
  ASSUME TypeOK, TypeOK', AnswersInv, NEW who \in Callers, NEW v \in Versions,
         AutoAccept(who, v)
  PROVE  AnswersInv'
<1> DEFINE seen == Seen(who)
           timedOut == {c \in Consumers : seen.conf[v][c] = "PENDING"}
           answers == [c \in Consumers |->
                         IF c \in timedOut THEN "TIMEOUT_ACCEPTED" ELSE seen.conf[v][c]]
<1>1. /\ Running(who)
      /\ conf' = [conf EXCEPT ![v] = [c \in Consumers |->
                    IF c \in timedOut THEN "TIMEOUT_ACCEPTED" ELSE @[c]]]
      /\ Close(who)
      /\ \/ AllAccepted(answers) /\ Mark(v, "PUBLISHED")
         \/ ~AllAccepted(answers) /\ UNCHANGED rows
  BY DEF AutoAccept, Readable, PromotePending, Save, CommitWithoutBump
<1>2. Recalls(seen)
  BY <1>1, SeenRecalls
<1>3. /\ \A w \in Versions \ {v} : conf'[w] = conf[w]
      /\ \A c \in Consumers :
           conf'[v][c] = IF c \in timedOut THEN "TIMEOUT_ACCEPTED" ELSE conf[v][c]
  BY <1>1 DEF TypeOK
<1>4. \A w \in Versions : /\ rows'[w] = "NONE" <=> rows[w] = "NONE"
                          /\ Pending(w)' => Pending(w)
  BY <1>1, MarkKeeps DEF RowStates, Pending
<1>5. ~Pending(v)'
  <2>1. CASE Mark(v, "PUBLISHED")
    BY <2>1 DEF Mark, TypeOK, Pending
  <2>2. CASE ~AllAccepted(answers) /\ UNCHANGED rows
    <3>1. PICK c \in Consumers : answers[c] # "NONE" /\ answers[c] \notin Accepting
      BY <2>2 DEF AllAccepted, Asked
    <3>2. seen.conf[v][c] = "REJECTED"
      <4>1. seen.conf[v][c] \in Answers
        <5>1. seen.conf \in [Versions -> [Consumers -> Answers]]
          BY SeenType DEF View
        <5> QED BY <5>1
      <4> QED BY <3>1, <4>1 DEF Answers, Accepting
    <3> HIDE DEF seen
    <3> QED BY <1>2, <2>2, <3>2 DEF Recalls, Pending
  <2> QED BY <1>1, <2>1, <2>2
<1>6. \A w \in Versions, d \in Consumers :
        /\ conf'[w][d] # "NONE" => rows'[w] # "NONE"
        /\ conf'[w][d] = "REJECTED" => conf[w][d] = "REJECTED"
        /\ conf'[w][d] = "PENDING" => conf[w][d] = "PENDING"
  <2>1. \A d \in timedOut : rows[v] # "NONE"
    BY <1>2 DEF Recalls
  <2> HIDE DEF timedOut
  <2> QED BY <1>3, <1>4, <2>1 DEF AnswersInv
<1>7. \A w \in Versions : Pending(w)' => \E d \in Consumers : conf'[w][d] = "PENDING"
  BY <1>3, <1>4, <1>5 DEF AnswersInv
<1> HIDE DEF answers, timedOut, seen
<1> QED BY <1>1, <1>4, <1>6, <1>7, CloseKeeps, AnswersKept

LEMMA AnswersNext ==
  ASSUME TypeOK, TypeOK', VersionInv, AnswersInv, [Next]_vars
  PROVE  AnswersInv'
<1>1. ASSUME NEW who \in Callers, Edit(who) PROVE AnswersInv'
  <2>1. CASE EditAttributes(who)
    <3>1. Close(who) /\ UNCHANGED <<conf, rows>>
      BY <2>1 DEF EditAttributes, Save, versionVars
    <3> QED BY <3>1, CloseKeeps, SameAnswers DEF Pending
  <2>2. CASE EditDefinition(who)
    <3> DEFINE n == Seen(who).version + 1
    <3>1. n \in Versions
      BY <2>2, SeenType, BoundsAssumption DEF View, EditDefinition, AddRow
    <3>2. AddRow(who, n, "DRAFT", n) /\ Close(who) /\ UNCHANGED conf
      BY <2>2 DEF EditDefinition, Save
    <3> HIDE DEF n
    <3>3. \A v \in Versions : /\ rows[v] # "NONE" => rows'[v] # "NONE"
                              /\ Pending(v)' => Pending(v)
      BY <3>1, <3>2, InsertKeeps DEF RowStates, Pending
    <3> QED BY <3>2, <3>3, CloseKeeps, SameAnswers
  <2> QED BY <1>1, <2>1, <2>2, Proposal, ProposalKeeps DEF Edit
<1>2. ASSUME NEW who \in Callers, Publish(who) \/ Retire(who) PROVE AnswersInv'
  <2>1. \A v \in Versions : /\ rows[v] # "NONE" => rows'[v] # "NONE"
                            /\ Pending(v)' => Pending(v)
    BY <1>2, StatusSteps, MarkKeeps DEF RowStates, Pending
  <2> QED BY <1>2, <2>1, StatusSteps, CloseKeeps, SameAnswers
<1>3. ASSUME NEW who \in Callers, Answer(who) PROVE AnswersInv'
  <2>1. ASSUME NEW v \in Versions, Extend(who, v) PROVE AnswersInv'
    <3>1. Close(who) /\ UNCHANGED <<conf, rows>>
      BY <2>1 DEF Extend, CommitWithoutBump
    <3> QED BY <3>1, CloseKeeps, SameAnswers DEF Pending
  <2> QED BY <1>3, <2>1, ConfirmKeeps, RejectKeeps, TimeoutKeeps DEF Answer
<1>4. ASSUME NEW q \in Requests, Begin(q) PROVE AnswersInv'
  <2>1. Recalls(CurrentView)
    BY DEF Recalls, CurrentView, AnswersInv
  <2>2. /\ open' = open \cup {q} /\ UNCHANGED <<metric, rows, conf>>
        /\ view'[q] = CurrentView
        /\ \A r \in open \ {q} : view'[r] = view[r]
    BY <1>4 DEF Begin, versionVars, TypeOK
  <2>3. ASSUME NEW r \in open' PROVE Recalls(view[r])'
    <3>1. Recalls(view'[r])
      BY <2>1, <2>2, <2>3 DEF AnswersInv
    <3> QED BY <2>2, <3>1 DEF Recalls, Pending
  <2> QED BY <2>2, <2>3 DEF AnswersInv, Pending
<1>5. ASSUME NEW q \in Requests, Abandon(q) PROVE AnswersInv'
  <2>1. Close(q) /\ UNCHANGED <<conf, rows>>
    BY <1>5 DEF Abandon, CommitWithoutBump, versionVars
  <2> QED BY <2>1, CloseKeeps, SameAnswers DEF Pending
<1>6. CASE (\E v \in Versions : DeadlinePasses(v)) \/ UNCHANGED vars
  <2>1. UNCHANGED <<rows, conf, open, view>>
    BY <1>6 DEF DeadlinePasses, requestVars, vars
  <2> QED BY <2>1 DEF AnswersInv, Recalls, Pending
<1> QED BY <1>1, <1>2, <1>3, <1>4, <1>5, <1>6 DEF Next

THEOREM AnswersConsistent == Spec => []AnswersInv
<1>1. Init => AnswersInv
  BY DEF Init, NewRows, NoAnswers, AnswersInv, Pending
<1>2. TypeOK /\ TypeOK' /\ VersionInv /\ AnswersInv /\ [Next]_vars => AnswersInv'
  BY AnswersNext
<1> QED BY <1>1, <1>2, TypeCorrect, VersionsConsistent, PTL DEF Spec

\* No version waits for confirmation when everybody asked has accepted it:
\* nobody and nothing would ever take it out of that state.
THEOREM NobodyStranded == Spec => []NoStrandedVersion
<1>1. AnswersInv => NoStrandedVersion
  BY DEF AnswersInv, NoStrandedVersion, EveryoneAccepts
<1> QED BY <1>1, AnswersConsistent, PTL

\* Only a timeout job that read before the rejection overrules it: confirm_version
\* reads the answer it overwrites under a lock and refuses a rejected one, and
\* nobody is asked again about a version that has a row.
THEOREM RejectionStands == Spec => OnlyStaleTimeoutsOverrule
<1> DEFINE Overruled(v, c) == conf[v][c] = "REJECTED" /\ conf'[v][c] # "REJECTED"
           ByTimeout(v, c) == /\ conf'[v][c] = "TIMEOUT_ACCEPTED"
                              /\ \E q \in open \ open' : view[q].conf[v][c] = "PENDING"
           Stands == \A v \in Versions, c \in Consumers : Overruled(v, c) => ByTimeout(v, c)
<1>1. ASSUME TypeOK, AnswersInv, [Next]_vars
      PROVE  Stands
  <2>1. CASE UNCHANGED conf
    BY <2>1
  <2>2. ASSUME NEW n \in Versions, NEW asked, rows[n] = "NONE", AskConsumers(n, asked)
        PROVE  Stands
    <3>1. \A c \in Consumers : conf[n][c] = "NONE"
      BY <1>1, <2>2 DEF AnswersInv
    <3>2. \A v \in Versions \ {n} : conf'[v] = conf[v]
      BY <1>1, <2>2 DEF AskConsumers, TypeOK
    <3> QED BY <3>1, <3>2
  <2>3. ASSUME NEW who \in Callers, NEW v \in Versions, NEW c \in Consumers,
               Confirm(who, v, c) \/ RejectVersion(who, v, c)
        PROVE  Stands
    <3>1. CASE Confirm(who, v, c)
      <4>1. conf[v][c] # "REJECTED" /\ conf' = [conf EXCEPT ![v][c] = "CONFIRMED"]
        BY <3>1 DEF Confirm, LockedAnswers, Confirmable
      <4> QED BY <1>1, <4>1 DEF TypeOK
    <3>2. CASE RejectVersion(who, v, c)
      BY <1>1, <3>2 DEF RejectVersion, TypeOK
    <3> QED BY <2>3, <3>1, <3>2
  <2>4. ASSUME NEW who \in Callers, NEW v \in Versions, AutoAccept(who, v)
        PROVE  Stands
    <3> SUFFICES ASSUME NEW w \in Versions, NEW c \in Consumers, Overruled(w, c)
                 PROVE  ByTimeout(w, c)
      OBVIOUS
    <3>1. w = v /\ Seen(who).conf[v][c] = "PENDING" /\ conf'[w][c] = "TIMEOUT_ACCEPTED"
      BY <1>1, <2>4 DEF AutoAccept, TypeOK
    <3>2. who \in open /\ Seen(who) = view[who]
      BY <2>4, <3>1 DEF AutoAccept, Readable, Running, Seen, CurrentView
    <3>3. who \notin open'
      BY <2>4 DEF AutoAccept, PromotePending, Save, CommitWithoutBump, Close
    <3> QED BY <3>1, <3>2, <3>3
  <2>5. ASSUME NEW who \in Callers, NEW v \in Versions, Extend(who, v)
        PROVE  UNCHANGED conf
    BY <2>5 DEF Extend
  <2> HIDE DEF Stands
  <2> QED BY <1>1, <2>1, <2>2, <2>3, <2>4, <2>5, AnswerSteps
<1>2. TypeOK /\ AnswersInv /\ [Next]_vars => [Stands]_vars
  BY <1>1
<1> QED BY <1>2, TypeCorrect, AnswersConsistent, PTL DEF Spec, OnlyStaleTimeoutsOverrule

-----------------------------------------------------------------------------
(* Consent *)

\* A promotion by the timeout job has the consent of everybody: who had not
\* answered when it read is timed out by this very step, and who had answered
\* has not changed the answer to a rejection, for then the row would not wait.
LEMMA TimeoutHasConsent ==
  ASSUME TypeOK, VersionInv, AnswersInv, NEW who \in Callers, NEW v \in Versions,
         AutoAccept(who, v), PromotePending(who, v), Pending(v),
         \A c \in Consumers : Seen(who).conf[v][c] \in {"PENDING", "NONE"} \cup Accepting
  PROVE  EveryoneAccepts(v)'
<1> DEFINE seen == Seen(who)
<1>1. Running(who) /\ seen.rows[v] # "NONE"
  BY DEF AutoAccept, Readable, PromotePending
<1>2. Recalls(seen)
  BY <1>1, SeenRecalls
<1>3. \A c \in Consumers :
        conf'[v][c] = IF seen.conf[v][c] = "PENDING" THEN "TIMEOUT_ACCEPTED" ELSE conf[v][c]
  BY DEF AutoAccept, TypeOK
<1>4. \A c \in Consumers : conf[v][c] \in Answers /\ conf[v][c] # "REJECTED"
  BY DEF TypeOK, AnswersInv
<1>5. \A c \in Consumers : conf[v][c] = "PENDING" => seen.conf[v][c] = "PENDING"
  BY <1>1, <1>2 DEF Recalls
<1> HIDE DEF seen
<1> QED BY <1>3, <1>4, <1>5 DEF EveryoneAccepts, Answers

\* The last answer promotes a version that waits with the consent of everybody:
\* a consumer's is decided on answers that are locked.
LEMMA PromotionHasConsent ==
  ASSUME TypeOK, VersionInv, AnswersInv, NEW who \in Callers, NEW v \in Versions,
         PromotePending(who, v), Pending(v),
         AutoAccept(who, v) \/ \E c \in Consumers : Confirm(who, v, c)
  PROVE  EveryoneAccepts(v)'
<1>1. ASSUME NEW c \in Consumers, Confirm(who, v, c),
             AllAccepted([conf[v] EXCEPT ![c] = "CONFIRMED"]) PROVE EveryoneAccepts(v)'
  <2>1. conf' = [conf EXCEPT ![v][c] = "CONFIRMED"]
    BY <1>1 DEF Confirm
  <2>2. conf'[v] = [conf[v] EXCEPT ![c] = "CONFIRMED"]
    BY <2>1 DEF TypeOK
  <2> QED BY <1>1, <2>2 DEF AllAccepted, Asked, Accepting, EveryoneAccepts
<1>2. ASSUME AutoAccept(who, v), AllAccepted([c \in Consumers |->
             IF c \in {d \in Consumers : Seen(who).conf[v][d] = "PENDING"}
             THEN "TIMEOUT_ACCEPTED" ELSE Seen(who).conf[v][c]]) PROVE EveryoneAccepts(v)'
  <2>1. \A c \in Consumers :
          Seen(who).conf[v][c] \in {"PENDING", "NONE"} \cup Accepting
    BY <1>2 DEF AllAccepted, Asked, Accepting
  <2> QED BY <1>2, <2>1, TimeoutHasConsent
<1>3. rows' # rows
  <2>1. Mark(v, "PUBLISHED")
    BY DEF PromotePending
  <2> QED BY <2>1 DEF Mark, Pending, TypeOK
<1> QED BY <1>1, <1>2, <1>3 DEF Confirm, AutoAccept, LockedAnswers

\* Which steps make a pending version the effective one of a published metric.
LEMMA EffectiveSteps ==
  ASSUME TypeOK, VersionInv, FreshInv, [Next]_vars, NEW v \in Versions,
         metric.status = "PUBLISHED", metric'.status = "PUBLISHED",
         Pending(v), metric.effective # v, metric'.effective = v
  PROVE  \E who \in Callers :
           /\ PromotePending(who, v)
           /\ AutoAccept(who, v) \/ \E c \in Consumers : Confirm(who, v, c)
<1>1. ASSUME NEW who \in Callers, Edit(who) PROVE FALSE
  <2>1. CASE EditDefinition(who)
    <3> DEFINE n == Seen(who).version + 1
    <3>1. rows[n] = "NONE"
          /\ metric' = [metric EXCEPT
                          !.version = n, !.live = n,
                          !.effective = IF Seen(who).status = "PUBLISHED" THEN n ELSE @,
                          !.status = IF @ = "REVIEW" THEN "DRAFT" ELSE @]
      BY <2>1 DEF EditDefinition, AddRow, Save
    <3> HIDE DEF n
    <3>2. metric'.effective \in {n, metric.effective}
      BY <3>1 DEF TypeOK, MetricRow
    <3> QED BY <3>1, <3>2 DEF Pending
  <2> QED BY <1>1, <2>1 DEF Edit, EditAttributes, BindDimension, ProposeBreaking, Save,
         TypeOK, MetricRow
<1>2. ASSUME NEW who \in Callers, Publish(who) PROVE FALSE
  <2>1. CASE Rollback(who)
    <3>1. PICK prev \in Versions :
            /\ Seen(who).rows[prev] = "PUBLISHED"
            /\ metric' = [metric EXCEPT !.status = "PUBLISHED", !.effective = prev,
                                        !.version = prev, !.live = def[prev]]
      BY <2>1 DEF Rollback, Save
    <3>2. prev = v
      BY <3>1 DEF TypeOK, MetricRow
    <3>3. Running(who)
      BY <2>1 DEF Rollback, Readable
    <3> QED BY <3>1, <3>2, <3>3, SeenConsistent DEF Consistent
  <2>2. CASE EmergencyPublish(who) \/ \E target \in {"PUBLISHED", "EXPERIMENTAL"} :
                                         Approve(who, target)
    BY <2>2, SavedIsCurrent DEF EmergencyPublish, Approve, Save
  <2> QED BY <1>2, <2>1, <2>2 DEF Publish, Submit, Reject, Promote, RecycleGray, Save,
         TypeOK, MetricRow
<1>3. ASSUME NEW who \in Callers, Retire(who) PROVE FALSE
  BY <1>3 DEF Retire, Deprecate, Reactivate, MarkSourceDropped, RecoverSource,
       ConfirmDeprecateDropped, Delete, VoidByArbitration, ArchiveAtSunset, SoftDelete,
       Restore, Save, TypeOK, MetricRow
<1>4. ASSUME NEW who \in Callers, Answer(who)
      PROVE  /\ PromotePending(who, v)
             /\ AutoAccept(who, v) \/ \E c \in Consumers : Confirm(who, v, c)
  <2>1. PICK w \in Versions : \/ \E c \in Consumers : Confirm(who, w, c)
                              \/ \E c \in Consumers : RejectVersion(who, w, c)
                              \/ AutoAccept(who, w)
                              \/ Extend(who, w)
    BY <1>4 DEF Answer
  <2>2. PromotePending(who, w) /\ (AutoAccept(who, w) \/ \E c \in Consumers : Confirm(who, w, c))
    BY <2>1 DEF Confirm, RejectVersion, AutoAccept, Extend
  <2>3. w = v
    BY <2>2 DEF PromotePending, Save, TypeOK, MetricRow
  <2> QED BY <2>2, <2>3
<1>5. CASE (\E q \in Requests : Begin(q) \/ Abandon(q))
           \/ (\E w \in Versions : DeadlinePasses(w)) \/ UNCHANGED vars
  BY <1>5 DEF Begin, Abandon, DeadlinePasses, vars
<1> QED BY <1>1, <1>2, <1>3, <1>4, <1>5 DEF Next

\* A pending version becomes the effective one of a metric that stays
\* published only with the acceptance of every consumer.
THEOREM Consent == Spec => EffectiveWithConsent
<1> DEFINE Consented == \A v \in Versions :
              /\ metric.status = "PUBLISHED" /\ metric'.status = "PUBLISHED"
              /\ Pending(v) /\ metric.effective # v /\ metric'.effective = v
              => EveryoneAccepts(v)'
<1>1. ASSUME TypeOK, VersionInv, FreshInv, AnswersInv, [Next]_vars
      PROVE  Consented
  <2> SUFFICES ASSUME NEW v \in Versions,
                      metric.status = "PUBLISHED", metric'.status = "PUBLISHED",
                      Pending(v), metric.effective # v, metric'.effective = v
               PROVE  EveryoneAccepts(v)'
    OBVIOUS
  <2>1. PICK who \in Callers :
          /\ PromotePending(who, v)
          /\ AutoAccept(who, v) \/ \E c \in Consumers : Confirm(who, v, c)
    BY <1>1, EffectiveSteps
  <2> QED BY <1>1, <2>1, PromotionHasConsent
<1>2. TypeOK /\ VersionInv /\ FreshInv /\ AnswersInv /\ [Next]_vars => [Consented]_vars
  BY <1>1
<1> QED BY <1>2, TypeCorrect, VersionsConsistent, FreshIsCurrent, AnswersConsistent, PTL
    DEF Spec, EffectiveWithConsent

-----------------------------------------------------------------------------
(***************************************************************************)
(* What an old snapshot breaks.  The state machine promises two more       *)
(* things, which do not hold: a published metric is not in the recycle     *)
(* bin, and a rejected version does not take effect.  Both promises are    *)
(* kept by every behaviour in which a few writes are based on the current  *)
(* rows: those the two theorems name.                                      *)
(***************************************************************************)

\* A deletion or a restoration looks at row_version, as the other writes of
\* the main row do.
DeletesAreSaved == [][metric'.deleted # metric.deleted => open \ open' \subseteq fresh]_vars

DeletedInv == metric.deleted => metric.status # "PUBLISHED"

LEMMA DeletedKept ==
  ASSUME TypeOK, FreshInv, DeletedInv, [Next]_vars,
         metric'.deleted # metric.deleted => open \ open' \subseteq fresh
  PROVE  DeletedInv'
<1>0. CASE metric'.deleted = metric.deleted /\ (metric.deleted => metric'.status = metric.status)
  BY <1>0 DEF DeletedInv
<1>2. ASSUME NEW who \in Callers, Edit(who) PROVE DeletedInv'
  BY <1>0, <1>2 DEF Edit, EditAttributes, EditDefinition, BindDimension, ProposeBreaking, Save,
       CasSucceeds, TypeOK, MetricRow
<1>3. ASSUME NEW who \in Callers, Publish(who) PROVE DeletedInv'
  BY <1>0, <1>3 DEF Publish, Submit, Approve, Reject, EmergencyPublish, Promote, RecycleGray,
       Rollback, Save, CasSucceeds, TypeOK, MetricRow
<1>4. ASSUME NEW who \in Callers, Retire(who) PROVE DeletedInv'
  <2>1. CASE Deprecate(who) \/ Reactivate(who) \/ MarkSourceDropped(who) \/ RecoverSource(who)
             \/ ConfirmDeprecateDropped(who)
    BY <1>0, <2>1 DEF Deprecate, Reactivate, MarkSourceDropped, RecoverSource,
         ConfirmDeprecateDropped, Save, CasSucceeds, TypeOK, MetricRow
  <2>2. CASE Restore(who)
    BY <2>2 DEF Restore, DeletedInv, TypeOK, MetricRow
  <2>3. CASE Delete(who) \/ VoidByArbitration(who) \/ ArchiveAtSunset(who)
    <3>1. /\ Running(who) /\ SoftDelete(who) /\ Seen(who).status # "PUBLISHED"
      BY <2>3 DEF Delete, VoidByArbitration, ArchiveAtSunset, Readable
    <3>2. metric' = [metric EXCEPT !.deleted = TRUE] /\ open' = open \ {who}
      BY <3>1 DEF SoftDelete, CommitWithoutBump, Close
    <3>3. CASE metric.deleted
      BY <1>0, <3>2, <3>3 DEF TypeOK, MetricRow
    <3>4. CASE ~metric.deleted
      <4>1. who = Now \/ who \in fresh
        BY <3>1, <3>2, <3>4 DEF Running, TypeOK, MetricRow
      <4>2. Seen(who).status = metric.status
        BY <4>1 DEF Seen, CurrentView, FreshInv
      <4> QED BY <3>1, <3>2, <4>2 DEF DeletedInv, TypeOK, MetricRow
    <3> QED BY <3>3, <3>4
  <2> QED BY <1>4, <2>1, <2>2, <2>3 DEF Retire
<1>5. ASSUME NEW who \in Callers, Answer(who) PROVE DeletedInv'
  BY <1>0, <1>5 DEF Answer, Confirm, RejectVersion, AutoAccept, Extend, PromotePending, Save,
       CasSucceeds, TypeOK, MetricRow
<1>6. CASE (\E q \in Requests : Begin(q) \/ Abandon(q))
           \/ (\E v \in Versions : DeadlinePasses(v)) \/ UNCHANGED vars
  BY <1>0, <1>6 DEF Begin, Abandon, DeadlinePasses, vars
<1> QED BY <1>2, <1>3, <1>4, <1>5, <1>6 DEF Next

\* A published metric would never be in the recycle bin, if the soft deletes
\* went through the compare-and-swap.
THEOREM DeletionNeedsCas == Spec /\ DeletesAreSaved => []PublishedIsNotDeleted
<1>1. Init => DeletedInv
  BY DEF Init, NewMetric, DeletedInv
<1>2. TypeOK /\ FreshInv /\ DeletedInv /\ [Next]_vars
        /\ [metric'.deleted # metric.deleted => open \ open' \subseteq fresh]_vars => DeletedInv'
  <2>1. CASE UNCHANGED vars
    BY <2>1 DEF vars, DeletedInv
  <2> QED BY <2>1, DeletedKept
<1>3. DeletedInv => PublishedIsNotDeleted
  BY DEF DeletedInv, PublishedIsNotDeleted
<1> QED BY <1>1, <1>2, <1>3, TypeCorrect, FreshIsCurrent, PTL DEF Spec, DeletesAreSaved

\* The timeout job locks the answers it overwrites, as confirm_version does,
\* and a rollback locks the version rows among which it chooses.
ReadsLocked ==
  \A q \in Requests :
    /\ Rollback(q) => view[q].rows = rows
    /\ (\E v \in Versions : AutoAccept(q, v))
         => view[q].conf = conf \/ UNCHANGED <<metric, rows, conf>>
ReadsAreLocked == [][ReadsLocked]_vars

\* A version is cancelled by a rejection, which nothing takes back.
CancelledInv ==
  \A v \in Versions : rows[v] = "CANCELLED" => \E c \in Consumers : conf[v][c] = "REJECTED"

LEMMA LockedIsCurrent ==
  ASSUME ReadsLocked, NEW who \in Callers
  PROVE  /\ Rollback(who) => Seen(who).rows = rows
         /\ \A v \in Versions : AutoAccept(who, v)
              => Seen(who).conf = conf \/ UNCHANGED <<metric, rows, conf>>
BY DEF ReadsLocked, Seen, CurrentView

LEMMA CancelledKept ==
  ASSUME CancelledInv,
         \A v \in Versions : rows'[v] = "CANCELLED" => rows[v] = "CANCELLED",
         \A v \in Versions, c \in Consumers :
           rows[v] = "CANCELLED" /\ conf[v][c] = "REJECTED" => conf'[v][c] = "REJECTED"
  PROVE  CancelledInv'
BY DEF CancelledInv

LEMMA MarkCancelsNothing ==
  ASSUME TypeOK, NEW n \in Versions, NEW status \in RowStates \ {"CANCELLED"}, Mark(n, status)
  PROVE  \A v \in Versions : rows'[v] = "CANCELLED" => rows[v] = "CANCELLED"
BY DEF Mark, TypeOK

LEMMA AddCancelsNothing ==
  ASSUME TypeOK, NEW who, NEW n \in Versions, NEW status \in RowStates \ {"CANCELLED"},
         NEW definition, AddRow(who, n, status, definition)
  PROVE  /\ \A v \in Versions : rows'[v] = "CANCELLED" => rows[v] = "CANCELLED"
         /\ rows[n] # "CANCELLED"
BY DEF AddRow, TypeOK

LEMMA CancelledNext ==
  ASSUME TypeOK, CancelledInv, [Next]_vars, ReadsLocked
  PROVE  CancelledInv'
<1>0. CASE UNCHANGED <<rows, conf>>
  BY <1>0 DEF CancelledInv
<1>1. ASSUME NEW who \in Callers, Edit(who) PROVE CancelledInv'
  <2>1. CASE EditAttributes(who)
    BY <1>0, <2>1 DEF EditAttributes, versionVars
  <2>2. CASE EditDefinition(who)
    <3> DEFINE n == Seen(who).version + 1
    <3>1. AddRow(who, n, "DRAFT", n) /\ UNCHANGED conf
      BY <2>2 DEF EditDefinition
    <3>2. n \in Versions
      BY <2>2, SeenType, BoundsAssumption DEF View, EditDefinition, AddRow
    <3> HIDE DEF n
    <3> QED BY <3>1, <3>2, AddCancelsNothing, CancelledKept DEF RowStates
  <2>3. ASSUME NEW asked \in Audiences, BindDimension(who, asked)
                 \/ \E change \in Changes : ProposeBreaking(who, asked, change)
        PROVE  CancelledInv'
    <3> DEFINE n == Seen(who).version + 1
    <3>1. n \in Versions /\ AskConsumers(n, asked)
          /\ \E definition : AddRow(who, n, "PENDING_CONFIRMATION", definition)
      BY <2>3, Proposal
    <3> HIDE DEF n
    <3>2. \A v \in Versions, c \in Consumers : v # n => conf'[v][c] = conf[v][c]
      BY <3>1 DEF AskConsumers, TypeOK
    <3>3. /\ \A v \in Versions : rows'[v] = "CANCELLED" => rows[v] = "CANCELLED"
          /\ rows[n] # "CANCELLED"
      BY <3>1, AddCancelsNothing DEF RowStates
    <3> QED BY <3>2, <3>3, CancelledKept
  <2> QED BY <1>1, <2>1, <2>2, <2>3 DEF Edit
<1>2. ASSUME NEW who \in Callers, Publish(who) \/ Retire(who) PROVE CancelledInv'
  <2>1. \A v \in Versions : rows'[v] = "CANCELLED" => rows[v] = "CANCELLED"
    BY <1>2, StatusSteps, MarkCancelsNothing DEF RowStates
  <2> QED BY <1>2, <2>1, StatusSteps, CancelledKept
<1>3. ASSUME NEW who \in Callers, NEW v \in Versions, NEW c \in Consumers, Confirm(who, v, c)
      PROVE  CancelledInv'
  <2>1. /\ conf' = [conf EXCEPT ![v][c] = "CONFIRMED"] /\ conf[v][c] # "REJECTED"
        /\ Mark(v, "PUBLISHED") \/ UNCHANGED rows
    BY <1>3 DEF Confirm, PromotePending, LockedAnswers, Confirmable
  <2>2. \A w \in Versions : rows'[w] = "CANCELLED" => rows[w] = "CANCELLED"
    BY <2>1, MarkCancelsNothing DEF RowStates
  <2>3. \A w \in Versions, d \in Consumers : conf[w][d] = "REJECTED" => conf'[w][d] = "REJECTED"
    BY <2>1 DEF TypeOK
  <2> QED BY <2>2, <2>3, CancelledKept
<1>4. ASSUME NEW who \in Callers, NEW v \in Versions, NEW c \in Consumers, RejectVersion(who, v, c)
      PROVE  CancelledInv'
  <2> DEFINE seen == Seen(who)
  <2>1. /\ conf' = [conf EXCEPT ![v] = [d \in Consumers |->
                      IF d = c \/ seen.conf[v][d] = "PENDING" THEN "REJECTED" ELSE @[d]]]
        /\ Mark(v, "CANCELLED")
    BY <1>4 DEF RejectVersion, RejectedRow
  <2> HIDE DEF seen
  <2>2. \A w \in Versions : w # v => rows'[w] = rows[w] /\ conf'[w] = conf[w]
    BY <2>1 DEF Mark, TypeOK
  <2>3. conf'[v][c] = "REJECTED"
    BY <2>1 DEF TypeOK
  <2> QED BY <2>2, <2>3 DEF CancelledInv
<1>5. ASSUME NEW who \in Callers, NEW v \in Versions, AutoAccept(who, v)
      PROVE  CancelledInv'
  <2> SUFFICES ASSUME ~UNCHANGED <<rows, conf>> PROVE CancelledInv'
    BY <1>0
  <2>1. Seen(who).conf = conf
    BY <1>5, LockedIsCurrent
  <2>2. /\ conf' = [conf EXCEPT ![v] = [c \in Consumers |->
                      IF conf[v][c] = "PENDING" THEN "TIMEOUT_ACCEPTED" ELSE @[c]]]
        /\ Mark(v, "PUBLISHED") \/ UNCHANGED rows
    BY <1>5, <2>1 DEF AutoAccept, PromotePending
  <2>3. \A w \in Versions : rows'[w] = "CANCELLED" => rows[w] = "CANCELLED"
    BY <2>2, MarkCancelsNothing DEF RowStates
  <2>4. \A w \in Versions, d \in Consumers : conf[w][d] = "REJECTED" => conf'[w][d] = "REJECTED"
    BY <2>2 DEF TypeOK
  <2> QED BY <2>3, <2>4, CancelledKept
<1>6. ASSUME NEW who \in Callers, NEW v \in Versions, Extend(who, v) PROVE CancelledInv'
  BY <1>0, <1>6 DEF Extend
<1>7. CASE (\E q \in Requests : Begin(q) \/ Abandon(q))
           \/ (\E v \in Versions : DeadlinePasses(v)) \/ UNCHANGED vars
  BY <1>0, <1>7 DEF Begin, Abandon, DeadlinePasses, versionVars, vars
<1> QED BY <1>1, <1>2, <1>3, <1>4, <1>5, <1>6, <1>7 DEF Next, Answer

\* What becomes effective has not been rejected.
LEMMA RejectedStaysOut ==
  ASSUME TypeOK, FreshInv, CancelledInv, [Next]_vars, ReadsLocked, NEW v \in Versions,
         metric.status = "PUBLISHED", rows[v] = "CANCELLED", metric'.effective = v,
         metric.effective # v
  PROVE  FALSE
<1>1. PICK d \in Consumers : conf[v][d] = "REJECTED"
  BY DEF CancelledInv
<1>2. ASSUME NEW who \in Callers, Edit(who) PROVE FALSE
  <2>1. CASE EditDefinition(who)
    <3> DEFINE n == Seen(who).version + 1
    <3>1. rows[n] = "NONE"
          /\ metric' = [metric EXCEPT
                          !.version = n, !.live = n,
                          !.effective = IF Seen(who).status = "PUBLISHED" THEN n ELSE @,
                          !.status = IF @ = "REVIEW" THEN "DRAFT" ELSE @]
      BY <2>1 DEF EditDefinition, AddRow, Save
    <3> HIDE DEF n
    <3>2. metric'.effective \in {n, metric.effective}
      BY <3>1 DEF TypeOK, MetricRow
    <3> QED BY <3>1, <3>2
  <2> QED BY <1>2, <2>1 DEF Edit, EditAttributes, BindDimension, ProposeBreaking, Save,
         TypeOK, MetricRow
<1>3. ASSUME NEW who \in Callers, Publish(who) PROVE FALSE
  <2>1. CASE Rollback(who)
    <3>1. PICK prev \in Versions :
            /\ Seen(who).rows[prev] = "PUBLISHED"
            /\ metric' = [metric EXCEPT !.status = "PUBLISHED", !.effective = prev,
                                        !.version = prev, !.live = def[prev]]
      BY <2>1 DEF Rollback, Save
    <3>2. prev = v
      BY <3>1 DEF TypeOK, MetricRow
    <3>3. Seen(who).rows = rows
      BY <2>1, LockedIsCurrent
    <3> QED BY <3>1, <3>2, <3>3
  <2>2. CASE EmergencyPublish(who) \/ \E target \in {"PUBLISHED", "EXPERIMENTAL"} :
                                         Approve(who, target)
    BY <2>2, SavedIsCurrent DEF EmergencyPublish, Approve, Save
  <2>3. CASE RecycleGray(who)
    BY <2>3, SavedIsCurrent DEF RecycleGray, Save
  <2> QED BY <1>3, <2>1, <2>2, <2>3 DEF Publish, Submit, Reject, Promote, Save, TypeOK, MetricRow
<1>4. ASSUME NEW who \in Callers, Retire(who) PROVE FALSE
  BY <1>4 DEF Retire, Deprecate, Reactivate, MarkSourceDropped, RecoverSource,
       ConfirmDeprecateDropped, Delete, VoidByArbitration, ArchiveAtSunset, SoftDelete,
       Restore, Save, TypeOK, MetricRow
<1>5. ASSUME NEW who \in Callers, NEW w \in Versions, NEW c \in Consumers, Confirm(who, w, c)
      PROVE  FALSE
  <2>1. metric' # metric
    OBVIOUS
  <2>2. PromotePending(who, w) /\ AllAccepted([conf[w] EXCEPT ![c] = "CONFIRMED"])
        /\ conf[w][c] # "REJECTED"
    BY <1>5, <2>1 DEF Confirm, LockedAnswers, Confirmable
  <2>3. w = v
    BY <2>2 DEF PromotePending, Save, TypeOK, MetricRow
  <2>4. [conf[w] EXCEPT ![c] = "CONFIRMED"][d] = "REJECTED"
    BY <1>1, <2>2, <2>3 DEF TypeOK
  <2> QED BY <2>2, <2>4 DEF AllAccepted, Asked, Accepting
<1>6. ASSUME NEW who \in Callers, NEW w \in Versions, AutoAccept(who, w) PROVE FALSE
  <2>1. metric' # metric
    OBVIOUS
  <2>2. PromotePending(who, w) /\ AllAccepted([c \in Consumers |->
             IF c \in {b \in Consumers : Seen(who).conf[w][b] = "PENDING"}
             THEN "TIMEOUT_ACCEPTED" ELSE Seen(who).conf[w][c]])
    BY <1>6, <2>1 DEF AutoAccept
  <2>3. w = v
    BY <2>2 DEF PromotePending, Save, TypeOK, MetricRow
  <2>4. Seen(who).conf = conf
    BY <1>6, LockedIsCurrent
  <2> QED BY <1>1, <2>2, <2>3, <2>4 DEF AllAccepted, Asked, Accepting
<1>7. ASSUME NEW who \in Callers, NEW w \in Versions, NEW c \in Consumers, RejectVersion(who, w, c)
      PROVE  FALSE
  BY <1>7 DEF RejectVersion, RejectedRow
<1>8. CASE (\E q \in Requests : Begin(q) \/ Abandon(q))
           \/ (\E w \in Versions : DeadlinePasses(w)) \/ UNCHANGED vars
  BY <1>8 DEF Begin, Abandon, DeadlinePasses, vars
<1>9. ASSUME NEW who \in Callers, NEW w \in Versions, Extend(who, w) PROVE FALSE
  BY <1>9 DEF Extend
<1> QED BY <1>2, <1>3, <1>4, <1>5, <1>6, <1>7, <1>8, <1>9 DEF Next, Answer

\* A rejected version would never take effect, if the timeout job and the
\* rollback locked what they read: nothing else lets one through.
THEOREM RejectionNeedsLocks == Spec /\ ReadsAreLocked => RejectedNeverTakesEffect
<1>1. Init => CancelledInv
  BY DEF Init, NewRows, CancelledInv
<1>2. TypeOK /\ CancelledInv /\ [Next]_vars /\ [ReadsLocked]_vars => CancelledInv'
  <2>1. CASE UNCHANGED vars
    BY <2>1 DEF vars, CancelledInv
  <2> QED BY <2>1, CancelledNext
<1>3. Spec /\ ReadsAreLocked => []CancelledInv
  BY <1>1, <1>2, TypeCorrect, PTL DEF Spec, ReadsAreLocked
<1>4. TypeOK /\ FreshInv /\ CancelledInv /\ [Next]_vars /\ [ReadsLocked]_vars
        => [\A v \in Versions :
              /\ metric.status = "PUBLISHED" /\ rows[v] = "CANCELLED"
              /\ metric'.effective = v
              => metric.effective = v]_vars
  BY RejectedStaysOut
<1> QED BY <1>3, <1>4, TypeCorrect, FreshIsCurrent, PTL
    DEF Spec, ReadsAreLocked, RejectedNeverTakesEffect

-----------------------------------------------------------------------------
(***************************************************************************)
(* What a missing guard breaks.  Five more promises of the version manager *)
(* are kept by every behaviour in which one operation looks first at what  *)
(* it is about to change; the theorems say which operation, and at what.   *)
(***************************************************************************)

\* The steps there would be if promote_metric refused what is not a grey release.
GrayStep ==
  \/ \E who \in Callers :
       \/ Edit(who) \/ Retire(who) \/ Answer(who)
       \/ Submit(who) \/ Reject(who) \/ EmergencyPublish(who) \/ RecycleGray(who)
       \/ Rollback(who)
       \/ \E target \in {"PUBLISHED", "EXPERIMENTAL"} : Approve(who, target)
       \/ Promote(who) /\ Seen(who).status = "EXPERIMENTAL"
  \/ \E q \in Requests : Begin(q) \/ Abandon(q)
  \/ \E v \in Versions : DeadlinePasses(v)
OnlyGrayIsPromoted == [][GrayStep]_vars

\* A metric is published, in a grey release or without its source only with an
\* effective version.
EffectiveInv ==
  metric.status \in {"PUBLISHED", "EXPERIMENTAL", "DATA_SOURCE_DROPPED"}
    => metric.effective # 0

LEMMA EffectiveKept ==
  ASSUME TypeOK, FreshInv, EffectiveInv, GrayStep
  PROVE  EffectiveInv'
<1>0. CASE UNCHANGED metric
  BY <1>0 DEF EffectiveInv
<1>a. CASE metric'.effective \in Versions
  BY <1>a DEF EffectiveInv
<1>1. ASSUME NEW who \in Callers, Edit(who) PROVE EffectiveInv'
  <2>1. CASE EditDefinition(who)
    <3> DEFINE n == Seen(who).version + 1
    <3>1. /\ n \in Versions
          /\ metric' = [metric EXCEPT
                          !.version = n, !.live = n,
                          !.effective = IF Seen(who).status = "PUBLISHED" THEN n ELSE @,
                          !.status = IF @ = "REVIEW" THEN "DRAFT" ELSE @]
      BY <2>1, SeenType, BoundsAssumption DEF View, EditDefinition, AddRow, Save
    <3> HIDE DEF n
    <3> QED BY <3>1 DEF EffectiveInv, TypeOK, MetricRow
  <2> QED BY <1>0, <1>1, <2>1 DEF Edit, EditAttributes, BindDimension, ProposeBreaking, Save,
         EffectiveInv, TypeOK, MetricRow
<1>2. ASSUME NEW who \in Callers,
             \/ Submit(who) \/ Reject(who) \/ EmergencyPublish(who) \/ RecycleGray(who)
             \/ Rollback(who)
             \/ \E target \in {"PUBLISHED", "EXPERIMENTAL"} : Approve(who, target)
             \/ Promote(who) /\ Seen(who).status = "EXPERIMENTAL"
      PROVE  EffectiveInv'
  <2>1. CASE Promote(who) /\ Seen(who).status = "EXPERIMENTAL"
    <3>1. metric.status = "EXPERIMENTAL"
      BY <2>1, SavedIsCurrent DEF Promote, Save
    <3> QED BY <2>1, <3>1 DEF Promote, Save, EffectiveInv, TypeOK, MetricRow
  <2>2. CASE EmergencyPublish(who) \/ \E target \in {"PUBLISHED", "EXPERIMENTAL"} :
                                         Approve(who, target)
    <3>1. Seen(who).version \in Versions
      BY SeenType DEF View
    <3>2. \E target \in MetricStates :
            metric' = [metric EXCEPT !.status = target, !.effective = Seen(who).version]
      BY <2>2 DEF EmergencyPublish, Approve, Save, MetricStates
    <3>3. metric'.effective = Seen(who).version
      BY <3>2 DEF TypeOK, MetricRow
    <3> QED BY <1>a, <3>1, <3>3
  <2>3. CASE Rollback(who)
    BY <2>3 DEF Rollback, Save, EffectiveInv, TypeOK, MetricRow
  <2>4. CASE Submit(who) \/ Reject(who) \/ RecycleGray(who)
    BY <2>4 DEF Submit, Reject, RecycleGray, Save, EffectiveInv, TypeOK, MetricRow
  <2> QED BY <1>2, <2>1, <2>2, <2>3, <2>4
<1>3. ASSUME NEW who \in Callers, Retire(who) PROVE EffectiveInv'
  <2>1. CASE MarkSourceDropped(who) \/ RecoverSource(who)
    BY <2>1, SavedIsCurrent
    DEF MarkSourceDropped, RecoverSource, Save, EffectiveInv, TypeOK, MetricRow
  <2> QED BY <1>3, <2>1 DEF Retire, Deprecate, Reactivate, ConfirmDeprecateDropped, Delete,
         VoidByArbitration, ArchiveAtSunset, SoftDelete, Restore, Save, EffectiveInv, TypeOK,
         MetricRow
<1>4. ASSUME NEW who \in Callers, Answer(who) PROVE EffectiveInv'
  <2>1. UNCHANGED metric \/ \E v \in Versions : PromotePending(who, v)
    BY <1>4 DEF Answer, Confirm, RejectVersion, AutoAccept, Extend
  <2>2. ASSUME NEW v \in Versions, PromotePending(who, v) PROVE metric'.effective = v
    BY <2>2 DEF PromotePending, Save, TypeOK, MetricRow
  <2> QED BY <1>0, <1>a, <2>1, <2>2
<1>5. CASE (\E q \in Requests : Begin(q) \/ Abandon(q))
           \/ \E v \in Versions : DeadlinePasses(v)
  BY <1>0, <1>5 DEF Begin, Abandon, DeadlinePasses
<1> QED BY <1>1, <1>2, <1>3, <1>4, <1>5 DEF GrayStep

\* Only a promotion of what was never approved publishes a metric without an
\* effective version.
THEOREM EffectiveNeedsGray == Spec /\ OnlyGrayIsPromoted => []PublishedHasEffective
<1>1. Init => EffectiveInv
  BY DEF Init, NewMetric, EffectiveInv
<1>2. TypeOK /\ FreshInv /\ EffectiveInv /\ [GrayStep]_vars => EffectiveInv'
  <2>1. CASE UNCHANGED vars
    BY <2>1 DEF vars, EffectiveInv
  <2> QED BY <2>1, EffectiveKept
<1>3. EffectiveInv => PublishedHasEffective
  BY DEF EffectiveInv, PublishedHasEffective
<1> QED BY <1>1, <1>2, <1>3, TypeCorrect, FreshIsCurrent, PTL DEF Spec, OnlyGrayIsPromoted

\* Which steps mark a row that waits as published.
LEMMA PublishingSteps ==
  ASSUME TypeOK, VersionInv, FreshInv, GrayStep, NEW v \in Versions,
         metric.status = "PUBLISHED", metric'.status = "PUBLISHED",
         Pending(v), rows'[v] = "PUBLISHED"
  PROVE  \E who \in Callers :
           /\ PromotePending(who, v)
           /\ AutoAccept(who, v) \/ \E c \in Consumers : Confirm(who, v, c)
<1>1. rows' # rows
  BY DEF Pending
<1>2. ASSUME NEW who \in Callers, Edit(who) PROVE FALSE
  <2> DEFINE n == Seen(who).version + 1
  <2>1. \E status \in {"DRAFT", "PENDING_CONFIRMATION"} : \E definition :
          AddRow(who, n, status, definition)
    BY <1>1, <1>2 DEF Edit, EditAttributes, EditDefinition, BindDimension, ProposeBreaking,
         versionVars
  <2> HIDE DEF n
  <2> QED BY <2>1 DEF AddRow, Pending
<1>3. ASSUME NEW who \in Callers,
             \/ Submit(who) \/ Reject(who) \/ EmergencyPublish(who) \/ RecycleGray(who)
             \/ Rollback(who)
             \/ \E target \in {"PUBLISHED", "EXPERIMENTAL"} : Approve(who, target)
             \/ Promote(who) /\ Seen(who).status = "EXPERIMENTAL"
      PROVE  FALSE
  <2>1. CASE Rollback(who)
    BY <2>1 DEF Rollback, Mark, Pending, TypeOK
  <2>2. CASE \/ Promote(who) /\ Seen(who).status = "EXPERIMENTAL"
             \/ EmergencyPublish(who)
             \/ \E target \in {"PUBLISHED", "EXPERIMENTAL"} : Approve(who, target)
    BY <2>2, SavedIsCurrent DEF Promote, EmergencyPublish, Approve, Save
  <2> QED BY <1>1, <1>3, <2>1, <2>2 DEF Submit, Reject, RecycleGray, versionVars
<1>4. ASSUME NEW who \in Callers, Retire(who) PROVE FALSE
  BY <1>1, <1>4 DEF Retire, Deprecate, Reactivate, MarkSourceDropped, RecoverSource,
       ConfirmDeprecateDropped, Delete, VoidByArbitration, ArchiveAtSunset, SoftDelete,
       Restore, versionVars
<1>5. ASSUME NEW who \in Callers, Answer(who)
      PROVE  /\ PromotePending(who, v)
             /\ AutoAccept(who, v) \/ \E c \in Consumers : Confirm(who, v, c)
  <2>1. PICK w \in Versions : \/ \E c \in Consumers : Confirm(who, w, c)
                              \/ \E c \in Consumers : RejectVersion(who, w, c)
                              \/ AutoAccept(who, w)
                              \/ Extend(who, w)
    BY <1>5 DEF Answer
  <2>2. ~(\E c \in Consumers : RejectVersion(who, w, c)) /\ ~Extend(who, w)
    BY <1>1 DEF RejectVersion, RejectedRow, Extend, Mark, Pending, TypeOK
  <2>3. PromotePending(who, w)
    BY <1>1, <2>1, <2>2 DEF Confirm, AutoAccept
  <2>4. w = v
    BY <1>1, <2>3 DEF PromotePending, Mark, Pending, TypeOK
  <2> QED BY <2>1, <2>2, <2>3, <2>4
<1>6. CASE (\E q \in Requests : Begin(q) \/ Abandon(q))
           \/ \E w \in Versions : DeadlinePasses(w)
  BY <1>1, <1>6 DEF Begin, Abandon, DeadlinePasses, versionVars
<1> QED BY <1>2, <1>3, <1>4, <1>5, <1>6 DEF GrayStep

\* Only a promotion of what is no grey release marks a version as published
\* that its consumers have not accepted.
THEOREM ConsultationNeedsGray == Spec /\ OnlyGrayIsPromoted => ConsumersConsulted
<1>1. TypeOK /\ VersionInv /\ FreshInv /\ AnswersInv /\ [GrayStep]_vars
        => [\A v \in Versions :
              /\ metric.status = "PUBLISHED" /\ metric'.status = "PUBLISHED"
              /\ Pending(v) /\ rows'[v] = "PUBLISHED"
              => EveryoneAccepts(v)']_vars
  BY PublishingSteps, PromotionHasConsent
<1> QED BY <1>1, TypeCorrect, VersionsConsistent, FreshIsCurrent, AnswersConsistent, PTL
    DEF Spec, OnlyGrayIsPromoted, ConsumersConsulted

\* A version is cancelled while it waits, or not at all.
CancelledInTime ==
  \A v \in Versions : rows'[v] = "CANCELLED" => rows[v] = "CANCELLED" \/ Pending(v)
CancelsAreInTime == [][CancelledInTime]_vars

\* A row that has been settled other than by a cancellation.
Settled(status) == status \notin {"NONE", "PENDING_CONFIRMATION", "CANCELLED"}

\* The effective version is settled, and so is what a request has seen settled:
\* a rollback chooses among the rows it has seen.
SettledInv ==
  /\ metric.effective # 0 => Settled(rows[metric.effective])
  /\ \A q \in open, v \in Versions : Settled(view[q].rows[v]) => Settled(rows[v])

\* What any request has seen settled is settled.
LEMMA SeenSettled ==
  ASSUME TypeOK, SettledInv, NEW who \in Callers, Running(who), NEW v \in Versions,
         Settled(Seen(who).rows[v])
  PROVE  Settled(rows[v])
<1>1. CASE who = Now
  BY <1>1 DEF Seen, CurrentView
<1>2. CASE who # Now
  BY <1>2 DEF Seen, Running, SettledInv
<1> QED BY <1>1, <1>2

\* Publishing or archiving a row settles it, inserting one unsettles none.
LEMMA MarkSettles ==
  ASSUME TypeOK, NEW n \in Versions, NEW status \in {"PUBLISHED", "EXPERIMENTAL", "ARCHIVED"},
         Mark(n, status)
  PROVE  /\ \A v \in Versions : Settled(rows[v]) => Settled(rows'[v])
         /\ rows[n] # "NONE" => Settled(rows'[n])
BY DEF Mark, Settled, TypeOK

LEMMA AddSettles ==
  ASSUME TypeOK, NEW who, NEW n \in Versions, NEW status, NEW definition,
         AddRow(who, n, status, definition)
  PROVE  /\ \A v \in Versions : Settled(rows[v]) => Settled(rows'[v])
         /\ rows'[n] = status
BY DEF AddRow, Settled, TypeOK

\* A step that unsettles nothing, and at most makes a settled version effective.
LEMMA SettledKept ==
  ASSUME TypeOK, TypeOK', SettledInv, NEW who \in Callers, Close(who),
         \A v \in Versions : Settled(rows[v]) => Settled(rows'[v]),
         metric'.effective \in {0, metric.effective} \/ Settled(rows'[metric'.effective])
  PROVE  SettledInv'
<1>1. \A q \in open', v \in Versions : Settled(view'[q].rows[v]) => Settled(rows'[v])
  BY CloseKeeps DEF SettledInv
<1>2. metric'.effective # 0 => Settled(rows'[metric'.effective])
  BY DEF SettledInv, TypeOK, MetricRow
<1> QED BY <1>1, <1>2 DEF SettledInv, Settled

LEMMA SettledNext ==
  ASSUME TypeOK, TypeOK', VersionInv, SettledInv, [Next]_vars, CancelledInTime
  PROVE  SettledInv'
<1>1. ASSUME NEW who \in Callers, Edit(who) PROVE SettledInv'
  <2> DEFINE n == Seen(who).version + 1
  <2>1. CASE EditAttributes(who)
    BY <2>1, SettledKept DEF EditAttributes, Save, versionVars, TypeOK, MetricRow
  <2>2. CASE EditDefinition(who)
    <3>1. /\ AddRow(who, n, "DRAFT", n) /\ Close(who)
          /\ metric' = [metric EXCEPT
                          !.version = n, !.live = n,
                          !.effective = IF Seen(who).status = "PUBLISHED" THEN n ELSE @,
                          !.status = IF @ = "REVIEW" THEN "DRAFT" ELSE @]
      BY <2>2 DEF EditDefinition, Save
    <3>2. n \in Versions
      BY <3>1, SeenType, BoundsAssumption DEF View, AddRow
    <3> HIDE DEF n
    <3>3. metric'.effective \in {n, metric.effective}
      BY <3>1 DEF TypeOK, MetricRow
    <3>4. Settled("DRAFT")
      BY DEF Settled
    <3> QED BY <3>1, <3>2, <3>3, <3>4, AddSettles, SettledKept
  <2>3. ASSUME NEW asked \in Audiences, BindDimension(who, asked)
                 \/ \E change \in Changes : ProposeBreaking(who, asked, change)
        PROVE  SettledInv'
    <3>1. /\ n \in Versions /\ Close(who)
          /\ \E definition : AddRow(who, n, "PENDING_CONFIRMATION", definition)
      BY <2>3, Proposal
    <3> HIDE DEF n
    <3>2. metric'.effective = metric.effective
      BY <2>3 DEF BindDimension, ProposeBreaking, Save, TypeOK, MetricRow
    <3> QED BY <3>1, <3>2, AddSettles, SettledKept
  <2> QED BY <1>1, <2>1, <2>2, <2>3 DEF Edit
<1>2. ASSUME NEW who \in Callers, Publish(who) \/ Retire(who) PROVE SettledInv'
  <2>0. Close(who) /\ \A v \in Versions : Settled(rows[v]) => Settled(rows'[v])
    BY <1>2, StatusSteps, MarkSettles
  <2>1. CASE Rollback(who)
    <3>1. PICK prev \in Versions :
            /\ Seen(who).rows[prev] = "PUBLISHED"
            /\ metric' = [metric EXCEPT !.status = "PUBLISHED", !.effective = prev,
                                        !.version = prev, !.live = def[prev]]
      BY <2>1 DEF Rollback, Save
    <3>2. metric'.effective = prev
      BY <3>1 DEF TypeOK, MetricRow
    <3>3. Settled(rows[prev])
      BY <2>1, <3>1, SeenSettled DEF Rollback, Readable, Settled
    <3> QED BY <2>0, <3>2, <3>3, SettledKept
  <2>2. CASE EmergencyPublish(who) \/ \E target \in {"PUBLISHED", "EXPERIMENTAL"} :
                                         Approve(who, target)
    <3> DEFINE n == Seen(who).version
    <3>1. /\ n \in Versions /\ Running(who) /\ Seen(who).rows[n] # "NONE"
          /\ \E status \in {"PUBLISHED", "EXPERIMENTAL"} :
               /\ metric' = [metric EXCEPT !.status = status, !.effective = n]
               /\ Mark(n, status)
      BY <2>2, SeenType DEF View, EmergencyPublish, Approve, Save, Readable
    <3>2. rows[n] # "NONE"
      BY <3>1, SeenConsistent DEF Consistent
    <3> HIDE DEF n
    <3>3. metric'.effective = n
      BY <3>1 DEF TypeOK, MetricRow
    <3> QED BY <2>0, <3>1, <3>2, <3>3, MarkSettles, SettledKept
  <2>3. CASE \/ Submit(who) \/ Reject(who) \/ Promote(who) \/ RecycleGray(who) \/ Retire(who)
    <3>1. metric'.effective \in {0, metric.effective}
      BY <2>3 DEF Submit, Reject, Promote, RecycleGray, Retire, Deprecate, Reactivate,
           MarkSourceDropped, RecoverSource, ConfirmDeprecateDropped, Delete,
           VoidByArbitration, ArchiveAtSunset, SoftDelete, Restore, Save, TypeOK, MetricRow
    <3> QED BY <2>0, <3>1, SettledKept
  <2> QED BY <1>2, <2>1, <2>2, <2>3 DEF Publish
<1>3. ASSUME NEW who \in Callers, NEW v \in Versions,
             \/ \E c \in Consumers : Confirm(who, v, c)
             \/ AutoAccept(who, v) \/ Extend(who, v)
      PROVE  SettledInv'
  <2>1. CASE CommitWithoutBump(who) /\ UNCHANGED <<metric, rows>>
    BY <2>1, SettledKept DEF CommitWithoutBump
  <2>2. CASE Running(who) /\ PromotePending(who, v)
    <3>1. Close(who) /\ Mark(v, "PUBLISHED") /\ Seen(who).rows[v] # "NONE"
      BY <2>2 DEF PromotePending, Save
    <3>2. metric'.effective = v
      BY <2>2 DEF PromotePending, Save, TypeOK, MetricRow
    <3>3. rows[v] # "NONE"
      BY <2>2, <3>1, SeenConsistent DEF Consistent
    <3> QED BY <3>1, <3>2, <3>3, MarkSettles, SettledKept
  <2> QED BY <1>3, <2>1, <2>2 DEF Confirm, AutoAccept, Extend, Readable
<1>4. ASSUME NEW who \in Callers, NEW v \in Versions, NEW c \in Consumers, RejectVersion(who, v, c)
      PROVE  SettledInv'
  <2>1. Close(who) /\ UNCHANGED metric /\ Mark(v, "CANCELLED")
    BY <1>4 DEF RejectVersion, RejectedRow, CommitWithoutBump
  <2>2. \A w \in Versions : Settled(rows[w]) => rows'[w] = rows[w]
    BY <2>1 DEF Mark, Pending, Settled, TypeOK, CancelledInTime
  <2> QED BY <2>1, <2>2, SettledKept
<1>5. ASSUME NEW q \in Requests, Begin(q) PROVE SettledInv'
  BY <1>5 DEF Begin, CurrentView, versionVars, SettledInv, TypeOK
<1>6. ASSUME NEW q \in Requests, Abandon(q) PROVE SettledInv'
  BY <1>6, SettledKept DEF Abandon, CommitWithoutBump, versionVars
<1>7. CASE (\E v \in Versions : DeadlinePasses(v)) \/ UNCHANGED vars
  BY <1>7 DEF DeadlinePasses, requestVars, vars, SettledInv
<1> QED BY <1>1, <1>2, <1>3, <1>4, <1>5, <1>6, <1>7 DEF Next, Answer

\* Only a rejection after the promotion cancels the version in force.
THEOREM ForceNeedsTimelyCancels == Spec /\ CancelsAreInTime => []EffectiveNotCancelled
<1>1. Init => SettledInv
  BY DEF Init, NewMetric, SettledInv
<1>2. TypeOK /\ TypeOK' /\ VersionInv /\ SettledInv /\ [Next]_vars /\ [CancelledInTime]_vars
        => SettledInv'
  <2>1. CASE UNCHANGED vars
    BY <2>1 DEF vars, SettledInv
  <2> QED BY <2>1, SettledNext
<1>3. SettledInv => EffectiveNotCancelled
  BY DEF SettledInv, Settled, EffectiveNotCancelled
<1> QED BY <1>1, <1>2, <1>3, TypeCorrect, VersionsConsistent, PTL DEF Spec, CancelsAreInTime

\* confirm_version refuses a metric that is not published, as the timeout job does.
ConfirmedPublished ==
  \A who \in Callers, v \in Versions, c \in Consumers :
    Confirm(who, v, c) => Seen(who).status = "PUBLISHED"
ConfirmsArePublished == [][ConfirmedPublished]_vars

\* Only confirm_version changes what a retired metric says.  A request that saves
\* has seen the current status, so it is enough that it looks.
THEOREM FreezeNeedsStatus == Spec /\ ConfirmsArePublished => RetiredIsFrozen
<1> DEFINE Frozen == /\ metric.status \in {"DEPRECATED", "DATA_SOURCE_DROPPED"}
                     /\ metric'.status = metric.status
                     => metric'.live = metric.live
<1>1. ASSUME TypeOK, FreshInv, [Next]_vars, [ConfirmedPublished]_vars PROVE Frozen
  <2> SUFFICES ASSUME metric.status \in {"DEPRECATED", "DATA_SOURCE_DROPPED"},
                      metric'.status = metric.status, metric'.live # metric.live
               PROVE  FALSE
    OBVIOUS
  <2>0. ConfirmedPublished
    BY <1>1 DEF vars
  <2>1. ASSUME NEW who \in Callers, Edit(who) PROVE FALSE
    <3>1. CASE EditDefinition(who)
      BY <1>1, <3>1, SavedIsCurrent DEF EditDefinition, Save
    <3> QED BY <1>1, <2>1, <3>1 DEF Edit, EditAttributes, BindDimension, ProposeBreaking, Save,
           TypeOK, MetricRow
  <2>2. ASSUME NEW who \in Callers, Publish(who) PROVE FALSE
    BY <1>1, <2>2 DEF Publish, Submit, Approve, Reject, EmergencyPublish, Promote, RecycleGray,
         Rollback, Save, TypeOK, MetricRow
  <2>3. ASSUME NEW who \in Callers, Retire(who) PROVE FALSE
    BY <1>1, <2>3 DEF Retire, Deprecate, Reactivate, MarkSourceDropped, RecoverSource,
         ConfirmDeprecateDropped, Delete, VoidByArbitration, ArchiveAtSunset, SoftDelete,
         Restore, Save, TypeOK, MetricRow
  <2>4. ASSUME NEW who \in Callers, Answer(who) PROVE FALSE
    <3>1. /\ Seen(who).status = "PUBLISHED"
          /\ \E v \in Versions : PromotePending(who, v)
      BY <2>0, <2>4 DEF Answer, Confirm, RejectVersion, AutoAccept, Extend, ConfirmedPublished
    <3> QED BY <1>1, <3>1, SavedIsCurrent DEF PromotePending, Save
  <2>5. CASE (\E q \in Requests : Begin(q) \/ Abandon(q))
             \/ (\E v \in Versions : DeadlinePasses(v)) \/ UNCHANGED vars
    BY <2>5 DEF Begin, Abandon, DeadlinePasses, vars
  <2> QED BY <1>1, <2>1, <2>2, <2>3, <2>4, <2>5 DEF Next
<1>2. TypeOK /\ FreshInv /\ [Next]_vars /\ [ConfirmedPublished]_vars => [Frozen]_vars
  BY <1>1
<1> QED BY <1>2, TypeCorrect, FreshIsCurrent, PTL DEF Spec, ConfirmsArePublished, RetiredIsFrozen

\* The last answer promotes a version that waits, or nothing.
PromotedInTime ==
  \A who \in Callers, v \in Versions :
    AutoAccept(who, v) \/ (\E c \in Consumers : Confirm(who, v, c))
      => Pending(v) \/ UNCHANGED metric
\* While a version waits, update_metric refuses every new definition, as it
\* refuses a breaking one.
EditsInTurn == \A who \in Callers : EditDefinition(who) => ~HasPending(who)
NumbersInTurn == [][PromotedInTime /\ EditsInTurn]_vars

\* Nothing is numbered above a version that waits.
TopInv == \A v, w \in Versions : Pending(v) /\ w > v => rows[w] = "NONE"

\* A step that creates no row and makes none pending.
LEMMA TopKept ==
  ASSUME TopInv,
         \A v \in Versions : /\ rows'[v] = "NONE" <=> rows[v] = "NONE"
                             /\ Pending(v)' => Pending(v)
  PROVE  TopInv'
BY DEF TopInv, Pending

\* A request that sees nothing pending inserts above the main row's number, and
\* nothing waits.
LEMMA InsertOnTop ==
  ASSUME TypeOK, VersionInv, NEW who \in Callers, Running(who), ~HasPending(who),
         NEW status \in RowStates \ {"NONE"}, NEW definition,
         AddRow(who, Seen(who).version + 1, status, definition)
  PROVE  TopInv' /\ Seen(who).version + 1 > metric.version
<1> DEFINE seen == Seen(who)
           n == seen.version + 1
<1>0. metric.version \in Versions
  BY DEF TypeOK, MetricRow
<1>1. /\ seen.version \in Versions /\ n \in Versions /\ n = seen.version + 1
      /\ rows[n] = "NONE"
  BY SeenType, BoundsAssumption DEF View, AddRow
<1>2. Consistent(seen)
  BY SeenConsistent
<1>3. rows' = [v \in Versions |-> IF v = n THEN status
                                  ELSE IF v \in Excess(seen.rows) THEN "ARCHIVED"
                                  ELSE rows[v]]
  BY DEF AddRow
<1>4. \A v \in Versions : v >= n => rows[v] = "NONE"
  BY <1>1 DEF VersionInv, Contiguous
<1>5. \A v \in Versions : ~Pending(v)
  <2>1. \A v \in Versions : Pending(v) => seen.rows[v] = "NONE"
    BY <1>2 DEF HasPending, Consistent
  <2>2. \A v \in Versions : v <= seen.version => seen.rows[v] # "NONE"
    BY <1>1, <1>2 DEF Consistent, Contiguous
  <2> HIDE DEF seen, n
  <2> QED BY <1>1, <1>4, <2>1, <2>2 DEF Pending
<1>6. \A v \in Excess(seen.rows) : rows[v] # "NONE"
  BY <1>2 DEF Excess, Finalized, Consistent
<1> HIDE DEF seen, n
<1>7. \A v \in Versions \ {n} : ~Pending(v)' /\ (rows[v] = "NONE" => rows'[v] = "NONE")
  BY <1>3, <1>5, <1>6 DEF Pending
<1>8. TopInv'
  BY <1>1, <1>4, <1>7 DEF TopInv
<1>9. n > metric.version
  BY <1>0, <1>1, <1>4 DEF VersionInv
<1> QED BY <1>8, <1>9 DEF n, seen

\* The edits insert on top or leave rows and number alone.
LEMMA EditsOnTop ==
  ASSUME TypeOK, VersionInv, TopInv, EditsInTurn, NEW who \in Callers, Edit(who)
  PROVE  TopInv' /\ ~(metric'.version < metric.version)
<1> DEFINE n == Seen(who).version + 1
<1>0. metric.version \in Versions
  BY DEF TypeOK, MetricRow
<1>1. CASE EditAttributes(who)
  BY <1>0, <1>1, TopKept DEF EditAttributes, Save, versionVars, Pending, TypeOK, MetricRow
<1>2. CASE EditDefinition(who)
  <2>1. /\ Running(who) /\ ~HasPending(who) /\ AddRow(who, n, "DRAFT", n)
        /\ metric' = [metric EXCEPT
                        !.version = n, !.live = n,
                        !.effective = IF Seen(who).status = "PUBLISHED" THEN n ELSE @,
                        !.status = IF @ = "REVIEW" THEN "DRAFT" ELSE @]
    BY <1>2 DEF EditDefinition, EditsInTurn, Save, Readable
  <2>2. TopInv' /\ n > metric.version
    BY <2>1, InsertOnTop DEF RowStates
  <2>3. n \in Versions
    BY <2>1, SeenType, BoundsAssumption DEF View, AddRow
  <2> HIDE DEF n
  <2>4. metric'.version = n
    BY <2>1 DEF TypeOK, MetricRow
  <2> QED BY <1>0, <2>2, <2>3, <2>4
<1>3. ASSUME NEW asked \in Audiences, BindDimension(who, asked)
               \/ \E change \in Changes : ProposeBreaking(who, asked, change)
      PROVE  TopInv' /\ ~(metric'.version < metric.version)
  <2>1. /\ Running(who) /\ n \in Versions
        /\ \E definition : AddRow(who, n, "PENDING_CONFIRMATION", definition)
    BY <1>3, Proposal
  <2>2. ~HasPending(who)
    BY <1>3 DEF BindDimension, ProposeBreaking
  <2>3. TopInv' /\ n > metric.version
    BY <2>1, <2>2, InsertOnTop DEF RowStates
  <2>4. metric'.version \in {n, metric.version}
    <3> HIDE DEF n
    <3>1. UNCHANGED metric \/ metric' = [metric EXCEPT !.version = n]
      BY <1>3 DEF BindDimension, ProposeBreaking, Save, n
    <3> QED BY <3>1 DEF TypeOK, MetricRow
  <2> HIDE DEF n
  <2> QED BY <1>0, <2>1, <2>3, <2>4
<1> QED BY <1>1, <1>2, <1>3 DEF Edit

LEMMA TopNext ==
  ASSUME TypeOK, VersionInv, TopInv, [Next]_vars, EditsInTurn
  PROVE  TopInv'
<1> DEFINE Same == \A v \in Versions : /\ rows'[v] = "NONE" <=> rows[v] = "NONE"
                                       /\ Pending(v)' => Pending(v)
<1>1. ASSUME NEW who \in Callers, Edit(who) PROVE TopInv'
  BY <1>1, EditsOnTop
<1>2. ASSUME NEW who \in Callers, Publish(who) \/ Retire(who) PROVE Same
  BY <1>2, StatusSteps, MarkKeeps DEF Pending, RowStates
<1>3. ASSUME NEW who \in Callers, Answer(who) PROVE Same
  <2>1. UNCHANGED rows \/ \E v \in Versions, status \in {"PUBLISHED", "CANCELLED"} :
                            Mark(v, status)
    BY <1>3 DEF Answer, Confirm, RejectVersion, RejectedRow, AutoAccept, Extend, PromotePending
  <2> QED BY <2>1, MarkKeeps DEF Pending, RowStates
<1>4. CASE (\E q \in Requests : Begin(q) \/ Abandon(q))
           \/ (\E v \in Versions : DeadlinePasses(v)) \/ UNCHANGED vars
  <2>1. UNCHANGED rows
    BY <1>4 DEF Begin, Abandon, DeadlinePasses, versionVars, vars
  <2> QED BY <2>1 DEF TopInv, Pending
<1> HIDE DEF Same
<1>5. Same => TopInv'
  BY TopKept DEF Same
<1> QED BY <1>1, <1>2, <1>3, <1>4, <1>5 DEF Next

\* Who goes back to an older number, and what becomes of the version left.
LEMMA NumberGoesBack ==
  ASSUME TypeOK, VersionInv, FreshInv, TopInv, [Next]_vars, PromotedInTime, EditsInTurn,
         metric'.version < metric.version
  PROVE  rows'[metric.version] = "ARCHIVED"
<1>0. metric.version \in Versions /\ metric' # metric /\ metric'.version # metric.version
  BY DEF TypeOK, MetricRow
<1>1. ASSUME NEW who \in Callers, Edit(who) PROVE FALSE
  <2>1. ~(metric'.version < metric.version)
    BY <1>1, EditsOnTop
  <2> QED BY <1>0, <2>1
<1>2. ASSUME NEW who \in Callers, Publish(who) \/ Retire(who)
      PROVE  rows'[metric.version] = "ARCHIVED"
  <2>1. Rollback(who)
    BY <1>0, <1>2 DEF Publish, Submit, Approve, Reject, EmergencyPublish, Promote, RecycleGray,
         Retire, Deprecate, Reactivate, MarkSourceDropped, RecoverSource,
         ConfirmDeprecateDropped, Delete, VoidByArbitration, ArchiveAtSunset, SoftDelete,
         Restore, Save, TypeOK, MetricRow
  <2>2. Mark(metric.version, "ARCHIVED")
    BY <2>1, SavedIsCurrent DEF Rollback, Save
  <2> QED BY <1>0, <2>2 DEF Mark, VersionInv, TypeOK
<1>3. ASSUME NEW who \in Callers, Answer(who) PROVE FALSE
  <2>1. PICK v \in Versions : PromotePending(who, v) /\ Pending(v)
    BY <1>0, <1>3
    DEF Answer, Confirm, RejectVersion, AutoAccept, Extend, PromotedInTime
  <2>2. metric'.version = v
    BY <2>1 DEF PromotePending, Save, TypeOK, MetricRow
  <2> QED BY <1>0, <2>1, <2>2 DEF TopInv, VersionInv
<1>4. CASE (\E q \in Requests : Begin(q) \/ Abandon(q))
           \/ (\E v \in Versions : DeadlinePasses(v)) \/ UNCHANGED vars
  BY <1>0, <1>4 DEF Begin, Abandon, DeadlinePasses, vars
<1> QED BY <1>1, <1>2, <1>3, <1>4 DEF Next

\* With both guards the number goes back in a rollback alone, which archives the
\* version it leaves.
THEOREM NumberNeedsTurns == Spec /\ NumbersInTurn => VersionNeverRegresses
<1>1. Init => TopInv
  BY DEF Init, NewRows, TopInv, Pending
<1>2. TypeOK /\ VersionInv /\ TopInv /\ [Next]_vars /\ [PromotedInTime /\ EditsInTurn]_vars
        => TopInv'
  <2>1. CASE UNCHANGED vars
    BY <2>1 DEF vars, TopInv, Pending
  <2> QED BY <2>1, TopNext
<1>3. Spec /\ NumbersInTurn => []TopInv
  BY <1>1, <1>2, TypeCorrect, VersionsConsistent, PTL DEF Spec, NumbersInTurn
<1>4. TypeOK /\ VersionInv /\ FreshInv /\ TopInv /\ [Next]_vars
        /\ [PromotedInTime /\ EditsInTurn]_vars
        => [metric'.version < metric.version => rows'[metric.version] = "ARCHIVED"]_vars
  BY NumberGoesBack
<1> QED BY <1>3, <1>4, TypeCorrect, VersionsConsistent, FreshIsCurrent, PTL
    DEF Spec, NumbersInTurn, VersionNeverRegresses
=============================================================================
