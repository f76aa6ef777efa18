---------------------- MODULE ConflictArbitrationProofs ----------------------
(***************************************************************************)
(* Proofs about ConflictArbitration, for any metrics, any size of the      *)
(* conflict table and any number of overlapping requests: type             *)
(* correctness, that a pair has one active conflict, that only a decision  *)
(* with an old snapshot hides a conflict, and that without such a decision *)
(* an active conflict is shown unless a swallowed failure left it unmarked. *)
(***************************************************************************)
EXTENDS ConflictArbitration, TLAPS

USE NoOneAssumption, NowAssumption, MaxAssumption

Everyone == Requests \cup {Now}
Registered == {m \in Metrics : life[m] # "ABSENT"}
Rows == {c \in Conflicts : status[c] # "NONE"}

-----------------------------------------------------------------------------
(***************************************************************************)
(* The inductive invariant, by the tables it is about.                     *)
(***************************************************************************)
LifeOK ==
  /\ life \in [Metrics -> LifeStates]
  /\ gone \subseteq Registered
  /\ flagged \subseteq Registered

TableOK ==
  /\ status \in [Conflicts -> ConflictStates]
  /\ pair \in [Conflicts -> Pair \cup {NoPair}]
  /\ \A c \in Conflicts : IF status[c] = "NONE" THEN pair[c] = NoPair ELSE pair[c] \in Pair

\* What a request has seen was there, and rows are not removed.
ViewOK ==
  /\ open \subseteq Requests
  /\ view \in [Requests -> View]
  /\ \A q \in Requests :
       /\ \A m \in Metrics : view[q].life[m] # "ABSENT" => m \in Registered
       /\ \A c \in Conflicts : view[q].status[c] # "NONE" => c \in Rows

\* The unique key of the active pairs.
KeyInv ==
  \A c, d \in Active :
    c # d /\ HasKey(pair[c]) /\ HasKey(pair[d]) => Key(pair[c]) # Key(pair[d])

Base == LifeOK /\ TableOK /\ ViewOK /\ KeyInv

LEMMA Initially == Init => Base
<1> SUFFICES ASSUME Init PROVE Base
  OBVIOUS
<1>1. LifeOK
  BY DEF Init, LifeOK, LifeStates
<1>2. TableOK /\ KeyInv
  BY DEF Init, TableOK, ConflictStates, KeyInv, Active, Undecided
<1>3. ViewOK
  <2>1. NoView \in View
    BY DEF NoView, View, LifeStates, ConflictStates
  <2>2. \A q \in Requests : view[q] = NoView
    BY DEF Init
  <2> QED BY <2>1, <2>2 DEF Init, ViewOK, NoView
<1> QED BY <1>1, <1>2, <1>3 DEF Base

-----------------------------------------------------------------------------
(***************************************************************************)
(* Requests.                                                               *)
(***************************************************************************)
LEMMA SeenWasThere ==
  ASSUME LifeOK, TableOK, ViewOK, NEW who \in Everyone
  PROVE  /\ SeenLive(who) \subseteq Registered
         /\ \A m \in Metrics : Seen(who).life[m] # "ABSENT" => m \in Registered
         /\ \A c \in Conflicts : Seen(who).status[c] # "NONE" => c \in Rows
<1>1. CASE who = Now
  BY <1>1 DEF Seen, CurrentView, SeenLive, Registered, Rows
<1>2. CASE who # Now
  BY <1>2 DEF Seen, SeenLive, ViewOK, Everyone
<1> QED BY <1>1, <1>2

LEMMA ViewKept ==
  ASSUME ViewOK, Registered \subseteq Registered', Rows \subseteq Rows',
         UNCHANGED <<open, view>> \/ \E who \in Everyone : Close(who)
  PROVE  ViewOK'
<1>1. CASE UNCHANGED <<open, view>>
  BY <1>1 DEF ViewOK
<1>2. ASSUME NEW who \in Everyone, Close(who) PROVE ViewOK'
  <2>1. NoView \in View
    BY DEF NoView, View, LifeStates, ConflictStates
  <2>2. \A q \in Requests : view'[q] = NoView \/ view'[q] = view[q]
    BY <1>2 DEF Close
  <2>3. open' \subseteq Requests /\ view' \in [Requests -> View]
    BY <1>2, <2>1 DEF Close, ViewOK
  <2>4. /\ \A m \in Metrics : NoView.life[m] = "ABSENT"
        /\ \A c \in Conflicts : NoView.status[c] = "NONE"
    BY DEF NoView
  <2> QED BY <2>2, <2>3, <2>4 DEF ViewOK
<1> QED BY <1>1, <1>2

LEMMA ViewTaken ==
  ASSUME LifeOK, TableOK, ViewOK, NEW q \in Requests, Begin(q)
  PROVE  ViewOK'
<1>1. CurrentView \in View
  BY DEF LifeOK, TableOK, CurrentView, View, Registered
<1>2. open' \subseteq Requests /\ view' \in [Requests -> View]
  BY <1>1 DEF Begin, ViewOK
<1>3. \A r \in Requests : view'[r] = IF r = q THEN CurrentView ELSE view[r]
  BY DEF Begin, ViewOK
<1>4. Registered' = Registered /\ Rows' = Rows
  BY DEF Begin, metricVars, Registered, Rows
<1>5. /\ \A m \in Metrics : CurrentView.life[m] # "ABSENT" => m \in Registered
      /\ \A c \in Conflicts : CurrentView.status[c] # "NONE" => c \in Rows
  BY DEF CurrentView, Registered, Rows
<1> QED BY <1>2, <1>3, <1>4, <1>5 DEF ViewOK

-----------------------------------------------------------------------------
(***************************************************************************)
(* The conflict table.                                                     *)
(***************************************************************************)
TableStep == TableOK' /\ KeyInv' /\ Rows \subseteq Rows'

LEMMA TableKept ==
  ASSUME TableOK, KeyInv, UNCHANGED <<status, pair>>
  PROVE  TableStep
BY DEF TableStep, TableOK, KeyInv, Active, Rows

LEMMA RecordStep ==
  ASSUME TableOK, KeyInv, NEW who \in Everyone, NEW p \in Pair, Record(who, p)
  PROVE  /\ TableStep
         /\ \A c \in Active : status'[c] = status[c] /\ pair'[c] = pair[c]
<1>1. CASE ~Inserts(who, p)
  BY <1>1, TableKept DEF Record
<1>2. CASE Inserts(who, p)
  <2>1. PICK c \in Conflicts : /\ status[c] = "NONE"
                               /\ status' = [status EXCEPT ![c] = "OPEN"]
                               /\ pair' = [pair EXCEPT ![c] = p]
    BY <1>2 DEF Record
  <2>2. KeyIsFree(p, Active)
    BY <1>2 DEF Inserts
  <2>3. \A d \in Conflicts : d # c => status'[d] = status[d] /\ pair'[d] = pair[d]
    BY <2>1 DEF TableOK
  <2>4. status'[c] = "OPEN" /\ pair'[c] = p
    BY <2>1 DEF TableOK
  <2>5. TableOK'
    <3>1. status' \in [Conflicts -> ConflictStates] /\ pair' \in [Conflicts -> Pair \cup {NoPair}]
      BY <2>1 DEF TableOK, ConflictStates
    <3> QED BY <2>3, <2>4, <3>1 DEF TableOK
  <2>6. c \notin Active /\ Active' = Active \cup {c}
    BY <2>1, <2>3, <2>4 DEF Active, Undecided
  <2>7. KeyInv'
    BY <2>2, <2>3, <2>4, <2>6 DEF KeyInv, KeyIsFree, Active
  <2>8. Rows \subseteq Rows'
    BY <2>3, <2>4 DEF Rows
  <2> QED BY <2>3, <2>5, <2>6, <2>7, <2>8 DEF TableStep, Active
<1> QED BY <1>1, <1>2

LEMMA WriteStep ==
  ASSUME TableOK, KeyInv, NEW cs \in SUBSET Rows,
         NEW new \in {"OPEN", "ESCALATED", "RULED", "CLOSED"}, Write(cs, new)
  PROVE  TableStep
<1>1. pair' = pair /\ status' = [c \in Conflicts |-> IF c \in cs THEN new ELSE status[c]]
  BY DEF Write
<1>2. TableOK' /\ Rows \subseteq Rows'
  BY <1>1 DEF TableOK, Rows, ConflictStates
<1>3. CASE new \notin Undecided
  <2>1. Active' \subseteq Active
    BY <1>1, <1>3 DEF Active
  <2> QED BY <1>1, <1>2, <2>1 DEF KeyInv, TableStep
<1>4. CASE new \in Undecided
  <2>1. Active' \subseteq Active \cup cs
    BY <1>1 DEF Active
  <2>2. \A c \in cs : KeyIsFree(pair[c], (Active \cup cs) \ {c})
    BY <1>4 DEF Write
  <2>3. \A c \in cs, d \in Active \cup cs :
          c # d /\ HasKey(pair[c]) /\ HasKey(pair[d]) => Key(pair[d]) # Key(pair[c])
    BY <2>2 DEF KeyIsFree
  <2>4. KeyInv'
    BY <1>1, <2>1, <2>3 DEF KeyInv
  <2> QED BY <1>2, <2>4 DEF TableStep
<1> QED BY <1>3, <1>4

-----------------------------------------------------------------------------
(***************************************************************************)
(* The metrics.                                                            *)
(***************************************************************************)
LifeStep == LifeOK' /\ Registered \subseteq Registered'

LEMMA LifeMoves ==
  ASSUME LifeOK, NEW m \in Metrics, NEW to \in LifeStates \ {"ABSENT"},
         life' = [life EXCEPT ![m] = to],
         gone' \subseteq Registered, flagged' \subseteq Registered \cup {m}
  PROVE  LifeStep /\ Registered' = Registered \cup {m}
<1>1. life' \in [Metrics -> LifeStates]
  BY DEF LifeOK
<1>2. Registered' = Registered \cup {m}
  BY DEF LifeOK, Registered
<1> QED BY <1>1, <1>2 DEF LifeStep, LifeOK

LEMMA LifeStays ==
  ASSUME LifeOK, UNCHANGED life, gone' \subseteq Registered, flagged' \subseteq Registered
  PROVE  LifeStep /\ Registered' = Registered
BY DEF LifeStep, LifeOK, Registered

LEMMA ApplyStep ==
  ASSUME LifeOK, TableOK, ViewOK, NEW who \in Everyone, NEW c \in Rows,
         NEW winner \in Metrics \cup {NoOne}, Apply(who, c, winner),
         flagged' \subseteq flagged
  PROVE  LifeStep /\ Registered' = Registered
<1> DEFINE loser == CHOOSE m \in Metrics : Sides(pair[c]) = {winner, m}
<1>1. flagged' \subseteq Registered /\ gone \subseteq Registered
  BY DEF LifeOK
<1>2. CASE UNCHANGED metricVars
  BY <1>1, <1>2, LifeStays DEF metricVars
<1>3. CASE ~UNCHANGED metricVars
  <2>1. /\ winner \in Sides(pair[c]) /\ ~Hard(c) /\ Sides(pair[c]) \subseteq SeenLive(who)
        /\ \/ life' = [life EXCEPT ![loser] = "DEPRECATED"] /\ gone' = gone
           \/ gone' = gone \cup {loser} /\ life' = life
    BY <1>3 DEF Apply, Impact, metricVars
  <2>2. pair[c] \in Pair
    BY DEF TableOK, Rows
  <2>3. \E m \in Metrics : Sides(pair[c]) = {winner, m}
    BY <2>1, <2>2 DEF Pair, Sides
  <2>4. loser \in Metrics /\ Sides(pair[c]) = {winner, loser}
    BY <2>3
  <2>5. loser \in Registered
    BY <2>1, <2>4, SeenWasThere
  <2> HIDE DEF loser
  <2>6. CASE life' = [life EXCEPT ![loser] = "DEPRECATED"] /\ gone' = gone
    <3>1. LifeStep /\ Registered' = Registered \cup {loser}
      BY <1>1, <2>4, <2>6, LifeMoves DEF LifeStates
    <3> QED BY <2>5, <3>1
  <2>7. CASE gone' = gone \cup {loser} /\ life' = life
    BY <1>1, <2>5, <2>7, LifeStays
  <2> QED BY <2>1, <2>6, <2>7
<1> QED BY <1>2, <1>3

-----------------------------------------------------------------------------
(***************************************************************************)
(* The steps.                                                              *)
(***************************************************************************)
LEMMA Together ==
  ASSUME Base, LifeStep, TableStep,
         UNCHANGED <<open, view>> \/ \E who \in Everyone : Close(who)
  PROVE  Base'
BY ViewKept DEF Base, LifeStep, TableStep

LEMMA DetectStep ==
  ASSUME Base, NEW who \in Everyone, NEW m \in Metrics,
         NEW found \in Metrics \cup {NoOne}, DetectAndMark(who, m, found)
  PROVE  TableStep /\ flagged' \subseteq flagged \cup {m}
<1> DEFINE p == [cand |-> m, exist |-> found, a |-> TRUE, b |-> TRUE]
<1>1. flagged' \subseteq flagged \cup {m}
  BY DEF DetectAndMark
<1>2. CASE found = NoOne
  BY <1>1, <1>2, TableKept DEF DetectAndMark, Base
<1>3. CASE found # NoOne
  <2>1. Record(who, p) /\ p \in Pair
    BY <1>3 DEF DetectAndMark, Pair
  <2> QED BY <1>1, <2>1, RecordStep DEF Base
<1> QED BY <1>2, <1>3

LEMMA CheckStep ==
  ASSUME Base, NEW who \in Everyone, Check(who)
  PROVE  Base'
<1>1. ASSUME NEW m \in Metrics, NEW found \in Metrics \cup {NoOne}, Register(who, m, found)
      PROVE  Base'
  <2>1. TableStep /\ flagged' \subseteq flagged \cup {m}
    BY <1>1, DetectStep DEF Register
  <2>2. LifeStep
    BY <1>1, <2>1, LifeMoves DEF Register, Base, LifeOK, LifeStates
  <2> QED BY <1>1, <2>1, <2>2, Together DEF Register
<1>2. ASSUME NEW m \in Metrics, NEW found \in Metrics \cup {NoOne}, Redefine(who, m, found)
      PROVE  Base'
  <2>1. TableStep /\ flagged' \subseteq flagged \cup {m}
    BY <1>2, DetectStep DEF Redefine
  <2> DEFINE to == IF life[m] = "REVIEW" THEN "DRAFT" ELSE life[m]
  <2>2. life[m] # "ABSENT" /\ life[m] \in LifeStates
    BY <1>2, SeenWasThere DEF Redefine, Base, LifeOK, Registered
  <2>3. to \in LifeStates \ {"ABSENT"} /\ life' = [life EXCEPT ![m] = to]
    BY <1>2, <2>2 DEF Redefine, LifeStates
  <2> HIDE DEF to
  <2>4. LifeStep
    BY <1>2, <2>1, <2>3, LifeMoves DEF Redefine, Base, LifeOK
  <2> QED BY <1>2, <2>1, <2>4, Together DEF Redefine
<1>3. ASSUME NEW m \in Metrics, NEW known \in BOOLEAN, NEW pii \in BOOLEAN,
             NEW found \in Metrics, Precheck(who, m, known, found, pii)
      PROVE  Base'
  <2>1. TableStep
    <3> DEFINE p == [cand |-> m, exist |-> found, a |-> known, b |-> TRUE]
    <3>1. p \in Pair
      BY DEF Pair
    <3> QED BY <1>3, <3>1, TableKept, RecordStep DEF Precheck, Base
  <2>2. found \in Registered
    BY <1>3, SeenWasThere DEF Precheck, Comparable, Base
  <2>3. LifeStep
    BY <1>3, <2>2, LifeStays DEF Precheck, metricVars, Base, LifeOK
  <2> QED BY <1>3, <2>1, <2>3, Together DEF Precheck
<1>4. ASSUME NEW m \in Metrics, PrecheckCode(who, m) PROVE Base'
  <2> DEFINE p == [cand |-> m, exist |-> m, a |-> FALSE, b |-> FALSE]
  <2>1. p \in Pair
    BY DEF Pair
  <2>2. TableStep
    BY <1>4, <2>1, RecordStep DEF PrecheckCode, Base
  <2>3. LifeStep
    BY <1>4, LifeStays DEF PrecheckCode, metricVars, Base, LifeOK
  <2> QED BY <1>4, <2>2, <2>3, Together DEF PrecheckCode
<1> QED BY <1>1, <1>2, <1>3, <1>4 DEF Check

\* A decision is about rows that are there.
LEMMA DecidedRows ==
  ASSUME Base, NEW who \in Everyone
  PROVE  /\ \A c \in Conflicts :
              Seen(who).status[c] \in {"OPEN", "ESCALATED", "RULED", "CLOSED"} => c \in Rows
         /\ \A k \in Conflicts : Due(who, k) \subseteq Rows
BY SeenWasThere DEF Base, Due

LEMMA DeskStep ==
  ASSUME Base, NEW who \in Everyone, Desk(who)
  PROVE  Base'
<1>0. PICK c \in Conflicts :
        \/ \E winner \in Metrics \cup {NoOne} : Arbitrate(who, c, winner)
        \/ Escalate(who, c) \/ CloseRuled(who, c) \/ ForceClose(who, c)
        \/ Reopen(who, c) \/ EscalateOverdue(who, c)
  BY DEF Desk
<1> USE DEF Base
<1>1. ASSUME NEW winner \in Metrics \cup {NoOne}, Arbitrate(who, c, winner) PROVE Base'
  <2>1. c \in Rows /\ {c} \in SUBSET Rows
    BY <1>1, DecidedRows DEF Arbitrate, Undecided
  <2>2. TableStep
    BY <1>1, <2>1, WriteStep DEF Arbitrate
  <2>3. flagged' \subseteq flagged
    BY <1>1 DEF Arbitrate, SyncFlag
  <2>4. LifeStep
    BY <1>1, <2>1, <2>3, ApplyStep DEF Arbitrate
  <2> QED BY <1>1, <2>2, <2>4, Together DEF Arbitrate
<1>2. CASE Escalate(who, c) \/ CloseRuled(who, c) \/ ForceClose(who, c)
  <2>1. {c} \in SUBSET Rows
    BY <1>2, DecidedRows DEF Escalate, CloseRuled, ForceClose, Undecided
  <2>2. TableStep
    BY <1>2, <2>1, WriteStep DEF Escalate, CloseRuled, ForceClose
  <2>3. flagged' \subseteq flagged /\ UNCHANGED metricVars
    BY <1>2 DEF Escalate, CloseRuled, ForceClose, SyncFlag
  <2>4. LifeStep
    BY <2>3, LifeStays DEF metricVars, LifeOK
  <2> QED BY <1>2, <2>2, <2>4, Together DEF Escalate, CloseRuled, ForceClose
<1>3. CASE Reopen(who, c)
  <2>1. {c} \in SUBSET Rows /\ pair[c].cand \in Metrics
    BY <1>3, DecidedRows DEF Reopen, TableOK, Rows, Pair
  <2>2. TableStep
    BY <1>3, <2>1, WriteStep DEF Reopen
  <2>3. flagged' \subseteq Registered
    BY <1>3, <2>1 DEF Reopen, Marked, LifeOK, Registered
  <2>4. LifeStep
    BY <1>3, <2>3, LifeStays DEF Reopen, metricVars, LifeOK
  <2> QED BY <1>3, <2>2, <2>4, Together DEF Reopen
<1>4. CASE EscalateOverdue(who, c)
  <2>1. TableStep
    BY <1>4, DecidedRows, WriteStep DEF EscalateOverdue
  <2>2. LifeStep
    BY <1>4, LifeStays DEF EscalateOverdue, metricVars, LifeOK
  <2> QED BY <1>4, <2>1, <2>2, Together DEF EscalateOverdue
<1> QED BY <1>0, <1>1, <1>2, <1>3, <1>4

LEMMA LifecycleStep ==
  ASSUME Base, Lifecycle
  PROVE  Base'
<1>0. PICK m \in Metrics : \/ Submit(m) \/ Approve(m) \/ Promote(m) \/ EmergencyPublish(m)
                           \/ Reject(m) \/ Deprecate(m) \/ Reactivate(m)
                           \/ Delete(m) \/ Restore(m)
  BY DEF Lifecycle
<1> USE DEF Base
<1>1. UNCHANGED <<status, pair, open, view>> /\ flagged' = flagged
  BY <1>0 DEF Submit, Approve, Promote, EmergencyPublish, Reject, Deprecate, Reactivate,
              Delete, Restore, Move
<1>2. TableStep
  BY <1>1, TableKept
<1>3. CASE Delete(m) \/ Restore(m)
  <2>1. LifeStep
    BY <1>1, <1>3, LifeStays DEF Delete, Restore, Live, LifeOK, Registered
  <2> QED BY <1>1, <1>2, <2>1, Together
<1>4. ASSUME NEW from, NEW to \in LifeStates \ {"ABSENT"}, Move(m, from, to) PROVE Base'
  <2>1. LifeStep
    BY <1>4, LifeMoves DEF Move, LifeOK
  <2> QED BY <1>1, <1>2, <2>1, Together
<1>5. CASE \/ Submit(m) \/ Approve(m) \/ Promote(m) \/ EmergencyPublish(m)
           \/ Reject(m) \/ Deprecate(m) \/ Reactivate(m)
  BY <1>4, <1>5 DEF Submit, Approve, Promote, EmergencyPublish, Reject, Deprecate, Reactivate,
                    LifeStates
<1> QED BY <1>0, <1>3, <1>5

LEMMA BaseNext == Base /\ [Next]_vars => Base'
<1> SUFFICES ASSUME Base, [Next]_vars PROVE Base'
  OBVIOUS
<1>1. ASSUME NEW who \in Everyone, Check(who) \/ Desk(who) PROVE Base'
  BY <1>1, CheckStep, DeskStep
<1>2. ASSUME NEW q \in Requests, Begin(q) PROVE Base'
  <2>1. TableStep /\ LifeOK'
    BY <1>2, TableKept DEF Begin, metricVars, Base, LifeOK, Registered
  <2> QED BY <1>2, <2>1, ViewTaken DEF Base, TableStep
<1>3. ASSUME NEW q \in Requests, Abandon(q) PROVE Base'
  <2>1. TableStep /\ LifeStep
    BY <1>3, TableKept, LifeStays DEF Abandon, metricVars, Base, LifeOK
  <2> QED BY <1>3, <2>1, Together DEF Abandon, Everyone
<1>4. CASE UNCHANGED vars
  <2>1. TableStep /\ LifeStep
    BY <1>4, TableKept, LifeStays DEF vars, metricVars, Base, LifeOK
  <2> QED BY <1>4, <2>1, Together DEF vars
<1> QED BY <1>1, <1>2, <1>3, <1>4, LifecycleStep DEF Next, Everyone

LEMMA Based == Spec => []Base
BY Initially, BaseNext, PTL DEF Spec

LEMMA MarksTyped == Spec => [](unmarked \subseteq Conflicts)
<1>1. Init => unmarked \subseteq Conflicts
  BY DEF Init
<1>2. unmarked \subseteq Conflicts /\ [Next]_vars => (unmarked \subseteq Conflicts)'
  <2> SUFFICES ASSUME unmarked \subseteq Conflicts, [Next]_vars
               PROVE  unmarked' \subseteq Conflicts
    BY DEF Conflicts
  <2>1. ASSUME NEW who \in Everyone, Check(who) PROVE unmarked' \subseteq Conflicts
    BY <2>1 DEF Check, Register, Redefine, DetectAndMark, Hidden, Precheck, PrecheckCode
  <2>2. ASSUME NEW who \in Everyone, Desk(who) PROVE unmarked' \subseteq Conflicts
    BY <2>2 DEF Desk, Arbitrate, Escalate, CloseRuled, ForceClose, Reopen, EscalateOverdue
  <2>3. CASE (\E q \in Requests : Begin(q) \/ Abandon(q)) \/ UNCHANGED vars \/ Lifecycle
    BY <2>3 DEF Begin, Abandon, vars, Lifecycle, Submit, Approve, Promote, EmergencyPublish,
                Reject, Deprecate, Reactivate, Delete, Restore, Move
  <2> QED BY <2>1, <2>2, <2>3 DEF Next, Everyone
<1> QED BY <1>1, <1>2, PTL DEF Spec

\* The records of metrics, conflicts and requests are well-typed: flags and
\* deletions are of registered metrics only, although requests act on what
\* they have seen before.
THEOREM TypeCorrect == Spec => []TypeOK
<1>1. Base /\ unmarked \subseteq Conflicts => TypeOK
  BY DEF Base, LifeOK, TableOK, ViewOK, TypeOK, Registered
<1> QED BY <1>1, Based, MarksTyped, PTL

\* A pair of metrics has one active conflict in each order (migration 0100).
THEOREM OneConflictPerPair == Spec => []OneActivePerPair
<1>1. Base => OneActivePerPair
  BY DEF Base, KeyInv, OneActivePerPair, HasKey, Key
<1> QED BY <1>1, Based, PTL

-----------------------------------------------------------------------------
(***************************************************************************)
(* What a step may not do.                                                 *)
(***************************************************************************)

\* Which steps take flags away.
LEMMA FlagsFall ==
  ASSUME Base, [Next]_vars, ~(flagged \subseteq flagged')
  PROVE  \E who \in Everyone, d \in Conflicts, new \in {"RULED", "CLOSED"} :
           Running(who) /\ Write({d}, new) /\ SyncFlag(who, d) /\ Close(who)
<1>1. ASSUME NEW who \in Everyone, Check(who) PROVE FALSE
  BY <1>1 DEF Check, Register, Redefine, Precheck, PrecheckCode, DetectAndMark
<1>2. ASSUME (\E q \in Requests : Begin(q) \/ Abandon(q)) \/ UNCHANGED vars \/ Lifecycle
      PROVE  FALSE
  BY <1>2 DEF Begin, Abandon, vars, Lifecycle, Submit, Approve, Promote, EmergencyPublish,
              Reject, Deprecate, Reactivate, Delete, Restore, Move
<1>3. PICK who \in Everyone : Desk(who)
  BY <1>1, <1>2 DEF Next, Everyone
<1>4. PICK d \in Conflicts : (\E winner : Arbitrate(who, d, winner)) \/ CloseRuled(who, d)
                               \/ ForceClose(who, d)
  BY <1>3 DEF Desk, Escalate, Reopen, Marked, EscalateOverdue
<1> QED BY <1>4 DEF Arbitrate, CloseRuled, ForceClose

\* A write leaves the pairs alone, a check writes a row of its own.
LEMMA ActivePairKept ==
  ASSUME Base, [Next]_vars, NEW c \in Active
  PROVE  pair'[c] = pair[c]
<1>1. ASSUME NEW who \in Everyone, NEW p \in Pair, Record(who, p) PROVE pair'[c] = pair[c]
  BY <1>1, RecordStep DEF Base
<1>2. ASSUME NEW who \in Everyone, NEW m \in Metrics, NEW found \in Metrics \cup {NoOne},
             DetectAndMark(who, m, found)
      PROVE  pair'[c] = pair[c]
  <2> DEFINE p == [cand |-> m, exist |-> found, a |-> TRUE, b |-> TRUE]
  <2>1. found # NoOne => p \in Pair
    BY DEF Pair
  <2>2. UNCHANGED pair \/ (found # NoOne /\ Record(who, p))
    BY <1>2 DEF DetectAndMark
  <2> HIDE DEF p
  <2> QED BY <1>1, <2>1, <2>2
<1>3. ASSUME NEW who \in Everyone, NEW m \in Metrics, NEW known \in BOOLEAN,
             NEW pii \in BOOLEAN, NEW found \in Metrics, Precheck(who, m, known, found, pii)
      PROVE  pair'[c] = pair[c]
  <2> DEFINE p == [cand |-> m, exist |-> found, a |-> known, b |-> TRUE]
  <2>1. p \in Pair
    BY DEF Pair
  <2>2. UNCHANGED pair \/ Record(who, p)
    BY <1>3 DEF Precheck
  <2> HIDE DEF p
  <2> QED BY <1>1, <2>1, <2>2
<1>4. ASSUME NEW who \in Everyone, NEW m \in Metrics, PrecheckCode(who, m)
      PROVE  pair'[c] = pair[c]
  <2> DEFINE p == [cand |-> m, exist |-> m, a |-> FALSE, b |-> FALSE]
  <2>1. p \in Pair /\ Record(who, p)
    BY <1>4 DEF Pair, PrecheckCode
  <2> HIDE DEF p
  <2> QED BY <1>1, <2>1
<1>5. ASSUME NEW who \in Everyone, Check(who) PROVE pair'[c] = pair[c]
  BY <1>2, <1>3, <1>4, <1>5 DEF Check, Register, Redefine
<1>6. ASSUME NEW who \in Everyone, Desk(who) PROVE UNCHANGED pair
  BY <1>6 DEF Desk, Arbitrate, Escalate, CloseRuled, ForceClose, Reopen, EscalateOverdue, Write
<1>7. CASE (\E q \in Requests : Begin(q) \/ Abandon(q)) \/ UNCHANGED vars \/ Lifecycle
  BY <1>7 DEF Begin, Abandon, vars, Lifecycle, Submit, Approve, Promote, EmergencyPublish,
              Reject, Deprecate, Reactivate, Delete, Restore, Move
<1> QED BY <1>5, <1>6, <1>7 DEF Next, Everyone

LEMMA PairKept ==
  ASSUME NEW d, NEW new, Write({d}, new), NEW c \in Conflicts
  PROVE  pair'[c] = pair[c] /\ status'[c] = IF c = d THEN new ELSE status[c]
BY DEF Write

\* A step that hides an active conflict is the commit of a decision whose
\* snapshot is older than the conflict.
THEOREM HiddenByStaleDecisions == Spec => OnlyStaleDecisionsHide
<1>1. Base /\ [Next]_vars =>
        \A c \in Active : Shown(c) /\ ~Shown(c)' /\ status'[c] \in Undecided
                             => \E q \in open \ open' : c \notin SeenActive(q)
  <2> SUFFICES ASSUME Base, [Next]_vars, NEW c \in Active,
                      Shown(c), ~Shown(c)', status'[c] \in Undecided
               PROVE  \E q \in open \ open' : c \notin SeenActive(q)
    OBVIOUS
  <2>0. c \in Conflicts /\ status[c] \in Undecided
    BY DEF Active
  <2>1. \E who \in Everyone, d \in Conflicts, new \in {"RULED", "CLOSED"} :
          Running(who) /\ Write({d}, new) /\ SyncFlag(who, d) /\ Close(who)
    <3>1. CASE flagged \subseteq flagged'
      <4>1. pair'[c] = pair[c]
        BY ActivePairKept
      <4> QED BY <3>1, <4>1 DEF Shown, Sides
    <3> QED BY <3>1, FlagsFall
  <2>2. PICK who \in Everyone, d \in Conflicts, new \in {"RULED", "CLOSED"} :
          Running(who) /\ Write({d}, new) /\ SyncFlag(who, d) /\ Close(who)
    BY <2>1
  <2>3. pair'[c] = pair[c] /\ c # d
    BY <2>0, <2>2, PairKept DEF Undecided
  <2>4. PICK m \in Sides(pair[c]) : m \in flagged /\ m \notin flagged'
    BY <2>3 DEF Shown, Sides
  <2>5. m = pair[d].cand /\ ~StillOpenFor(who, m, d)
    BY <2>2, <2>4 DEF SyncFlag
  <2>6. c \notin SeenActive(who)
    BY <2>3, <2>4, <2>5 DEF StillOpenFor
  <2>7. who # Now
    BY <2>0, <2>6 DEF SeenActive, Seen, CurrentView
  <2>8. who \in open /\ who \notin open'
    BY <2>2, <2>7 DEF Running, Close
  <2> QED BY <2>6, <2>8
<1> QED BY <1>1, Based, PTL DEF Spec, OnlyStaleDecisionsHide
-----------------------------------------------------------------------------
(***************************************************************************)
(* What the old snapshots cost.  When the commit of every request that     *)
(* changes anything is based on the current tables, as under SERIALIZABLE  *)
(* isolation, no conflict is hidden at all.                                *)
(***************************************************************************)
tables == <<life, gone, flagged, status, pair, unmarked>>
CommitIsCurrent == \A q \in open \ open' : view[q] = CurrentView \/ UNCHANGED tables
CommitsAreCurrent == [][CommitIsCurrent]_vars

\* Flags outlive the deletion of a metric, so that its restoration finds them.
ShownInv ==
  \A c \in Active \ unmarked : pair[c].b /\ Sides(pair[c]) \subseteq Registered => Shown(c)

LEMMA CurrentRequest ==
  ASSUME NEW who \in Everyone, Running(who), Close(who), CommitIsCurrent,
         ~UNCHANGED tables
  PROVE  Seen(who) = CurrentView /\ SeenActive(who) = Active
<1>1. Seen(who) = CurrentView
  BY DEF Running, Close, CommitIsCurrent, Seen
<1> QED BY <1>1 DEF SeenActive, CurrentView, Active

LEMMA ShownKept ==
  ASSUME ShownInv, Registered' = Registered, flagged \subseteq flagged',
         unmarked \subseteq unmarked', UNCHANGED <<status, pair>>
  PROVE  ShownInv'
BY DEF ShownInv, Shown, Active

LEMMA Recorded ==
  ASSUME TableOK, KeyInv, NEW who \in Everyone, NEW p \in Pair, Record(who, p),
         NEW c \in Active'
  PROVE  \/ c \in Active /\ pair'[c] = pair[c]
         \/ Inserts(who, p) /\ pair'[c] = p
<1>1. CASE ~Inserts(who, p)
  BY <1>1 DEF Record, Active
<1>2. CASE Inserts(who, p)
  <2>1. PICK d \in Conflicts : /\ status' = [status EXCEPT ![d] = "OPEN"]
                               /\ pair' = [pair EXCEPT ![d] = p]
    BY <1>2 DEF Record
  <2>2. CASE c = d
    BY <1>2, <2>1, <2>2 DEF TableOK
  <2>3. CASE c # d
    BY <2>1, <2>3 DEF TableOK, Active
  <2> QED BY <2>2, <2>3
<1> QED BY <1>1, <1>2

LEMMA DetectShows ==
  ASSUME Base, ShownInv, NEW who \in Everyone, SeenActive(who) = Active,
         NEW m \in Metrics, NEW found \in Metrics \cup {NoOne},
         DetectAndMark(who, m, found), Registered' = Registered \cup {m}
  PROVE  ShownInv'
<1> DEFINE p == [cand |-> m, exist |-> found, a |-> TRUE, b |-> TRUE]
<1>1. flagged \subseteq flagged' /\ unmarked \subseteq unmarked'
  BY DEF DetectAndMark
<1> SUFFICES ASSUME NEW c \in (Active \ unmarked)', pair'[c].b, Sides(pair'[c]) \subseteq Registered'
             PROVE  Shown(c)'
  BY DEF ShownInv
<1>2. \/ c \in Active /\ pair'[c] = pair[c]
      \/ found # NoOne /\ Inserts(who, p) /\ pair'[c] = p
  <2>1. CASE found = NoOne
    BY <2>1 DEF DetectAndMark, Active
  <2>2. CASE found # NoOne
    <3>1. Record(who, p) /\ p \in Pair
      BY <2>2 DEF DetectAndMark, Pair
    <3> HIDE DEF p
    <3> QED BY <2>2, <3>1, Recorded DEF Base
  <2> QED BY <2>1, <2>2
<1>3. CASE c \in Active /\ pair'[c] = pair[c] /\ m \notin Sides(pair[c])
  <2>1. Shown(c)
    BY <1>1, <1>3 DEF ShownInv, DetectAndMark
  <2> QED BY <1>1, <1>3, <2>1 DEF Shown
<1>4. CASE m \in Sides(pair'[c]) /\ FindsOpen(who, m, found # NoOne /\ Inserts(who, p))
  <2>1. CASE m \in flagged'
    BY <1>4, <2>1 DEF Shown
  <2>2. CASE m \notin flagged'
    <3>1. unmarked' = unmarked \cup Hidden(m) /\ flagged' = flagged
      BY <1>4, <2>2 DEF DetectAndMark
    <3>2. c \in Conflicts /\ status'[c] \in Undecided /\ c \notin Hidden(m)
      BY <3>1 DEF Active
    <3> QED BY <1>4, <3>1, <3>2 DEF Hidden, Shown
  <2> QED BY <2>1, <2>2
<1>5. ASSUME m \in Sides(pair'[c])
      PROVE  FindsOpen(who, m, found # NoOne /\ Inserts(who, p))
  BY <1>2, <1>5 DEF FindsOpen
<1>6. pair'[c] = p => m \in Sides(pair'[c])
  BY DEF Sides
<1> QED BY <1>2, <1>3, <1>4, <1>5, <1>6

LEMMA CheckShows ==
  ASSUME Base, ShownInv, NEW who \in Everyone, Check(who), CommitIsCurrent
  PROVE  ShownInv'
<1>0. CASE UNCHANGED tables
  BY <1>0, ShownKept DEF tables, Registered
<1>1. ASSUME NEW m \in Metrics, NEW found \in Metrics \cup {NoOne}, Register(who, m, found),
             ~UNCHANGED tables
      PROVE  ShownInv'
  <2>1. Registered' = Registered \cup {m}
    BY <1>1 DEF Register, Registered, Base, LifeOK
  <2> QED BY <1>1, <2>1, CurrentRequest, DetectShows DEF Register
<1>2. ASSUME NEW m \in Metrics, NEW found \in Metrics \cup {NoOne}, Redefine(who, m, found),
             ~UNCHANGED tables
      PROVE  ShownInv'
  <2>1. m \in Registered
    BY <1>2, SeenWasThere DEF Redefine, Base
  <2>2. Registered' = Registered \cup {m}
    BY <1>2, <2>1 DEF Redefine, Registered, Base, LifeOK
  <2> QED BY <1>2, <2>2, CurrentRequest, DetectShows DEF Redefine
<1>3. ASSUME NEW m \in Metrics, NEW known \in BOOLEAN, NEW pii \in BOOLEAN,
             NEW found \in Metrics, Precheck(who, m, known, found, pii), ~UNCHANGED tables
      PROVE  ShownInv'
  <2> DEFINE p == [cand |-> m, exist |-> found, a |-> known, b |-> TRUE]
  <2>1. Seen(who) = CurrentView
    BY <1>3, CurrentRequest DEF Precheck
  <2>2. /\ found \notin gone /\ flagged' = flagged \cup {found} /\ Registered' = Registered
        /\ unmarked' = unmarked
    BY <1>3, <2>1 DEF Precheck, Comparable, SeenLive, CurrentView, metricVars, Registered
  <2>3. CASE UNCHANGED <<status, pair>>
    BY <2>2, <2>3, ShownKept
  <2>4. CASE Record(who, p)
    <3> SUFFICES ASSUME NEW c \in (Active \ unmarked)', pair'[c].b, Sides(pair'[c]) \subseteq Registered'
                 PROVE  Shown(c)'
      BY DEF ShownInv
    <3>1. p \in Pair /\ found \in Sides(p)
      BY DEF Pair, Sides
    <3> HIDE DEF p
    <3>2. (c \in Active /\ pair'[c] = pair[c]) \/ pair'[c] = p
      BY <2>4, <3>1, Recorded DEF Base
    <3>3. CASE pair'[c] = p
      BY <2>2, <3>1, <3>3 DEF Shown
    <3>4. CASE c \in Active /\ pair'[c] = pair[c]
      BY <2>2, <3>4 DEF Shown, ShownInv
    <3> QED BY <3>2, <3>3, <3>4
  <2> QED BY <1>3, <2>3, <2>4 DEF Precheck
<1>4. ASSUME NEW m \in Metrics, PrecheckCode(who, m) PROVE ShownInv'
  <2> DEFINE p == [cand |-> m, exist |-> m, a |-> FALSE, b |-> FALSE]
  <2>1. p \in Pair /\ ~p.b /\ Record(who, p)
    BY <1>4 DEF PrecheckCode, Pair
  <2>2. Registered' = Registered /\ flagged' = flagged /\ unmarked' = unmarked
    BY <1>4 DEF PrecheckCode, metricVars, Registered
  <2> HIDE DEF p
  <2> SUFFICES ASSUME NEW c \in (Active \ unmarked)', pair'[c].b, Sides(pair'[c]) \subseteq Registered'
               PROVE  Shown(c)'
    BY DEF ShownInv
  <2>3. c \in Active /\ pair'[c] = pair[c]
    BY <2>1, Recorded DEF Base
  <2> QED BY <2>2, <2>3 DEF Shown, ShownInv
<1> QED BY <1>0, <1>1, <1>2, <1>3, <1>4 DEF Check

\* A decision that knows all active conflicts leaves them their flags.
LEMMA SyncShows ==
  ASSUME ShownInv, NEW who, SeenActive(who) = Active, NEW c \in Conflicts,
         NEW new \in {"RULED", "CLOSED"}, Write({c}, new), SyncFlag(who, c),
         Registered' = Registered, UNCHANGED unmarked
  PROVE  ShownInv'
<1> SUFFICES ASSUME NEW d \in (Active \ unmarked)', pair'[d].b, Sides(pair'[d]) \subseteq Registered'
             PROVE  Shown(d)'
  BY DEF ShownInv
<1>1. d \in Active /\ d # c /\ pair'[d] = pair[d]
  BY PairKept DEF Active, Undecided
<1>2. Shown(d)
  BY <1>1 DEF ShownInv
<1>3. CASE StillOpenFor(who, pair[c].cand, c)
  BY <1>1, <1>2, <1>3 DEF SyncFlag, Shown
<1>4. CASE ~StillOpenFor(who, pair[c].cand, c)
  <2>1. pair[c].cand \notin Sides(pair[d])
    BY <1>1, <1>4 DEF StillOpenFor
  <2> QED BY <1>1, <1>2, <2>1 DEF SyncFlag, Shown
<1> QED BY <1>3, <1>4

LEMMA DeskShows ==
  ASSUME Base, ShownInv, NEW who \in Everyone, Desk(who), CommitIsCurrent
  PROVE  ShownInv'
<1>0. CASE UNCHANGED tables
  BY <1>0, ShownKept DEF tables, Registered
<1> SUFFICES ASSUME ~UNCHANGED tables PROVE ShownInv'
  BY <1>0
<1>1. PICK c \in Conflicts :
        \/ \E winner \in Metrics \cup {NoOne} : Arbitrate(who, c, winner)
        \/ Escalate(who, c) \/ CloseRuled(who, c) \/ ForceClose(who, c)
        \/ Reopen(who, c) \/ EscalateOverdue(who, c)
  BY DEF Desk
<1>2. Seen(who) = CurrentView /\ SeenActive(who) = Active
  <2>1. Running(who) /\ Close(who)
    BY <1>1 DEF Arbitrate, Escalate, CloseRuled, ForceClose, Reopen, EscalateOverdue
  <2> QED BY <2>1, CurrentRequest
<1>3. ASSUME NEW winner \in Metrics \cup {NoOne}, Arbitrate(who, c, winner) PROVE ShownInv'
  <2>1. c \in Rows /\ flagged' \subseteq flagged
    BY <1>3, DecidedRows DEF Arbitrate, Undecided, SyncFlag
  <2>2. Registered' = Registered
    BY <1>3, <2>1, ApplyStep DEF Arbitrate, Base
  <2> QED BY <1>2, <1>3, <2>2, SyncShows DEF Arbitrate
<1>4. CASE CloseRuled(who, c) \/ ForceClose(who, c)
  <2>1. Registered' = Registered
    BY <1>4 DEF CloseRuled, ForceClose, metricVars, Registered
  <2> QED BY <1>2, <1>4, <2>1, SyncShows DEF CloseRuled, ForceClose
<1>5. CASE Escalate(who, c) \/ EscalateOverdue(who, c)
  <2>1. Registered' = Registered /\ UNCHANGED <<flagged, pair, unmarked>>
    BY <1>5 DEF Escalate, EscalateOverdue, metricVars, Write, Registered
  <2>2. PICK cs \in SUBSET Active : Write(cs, "ESCALATED")
    BY <1>2, <1>5 DEF Escalate, EscalateOverdue, Due, CurrentView, Active, Undecided
  <2>3. Active' \subseteq Active
    BY <2>2 DEF Write, Active
  <2> QED BY <2>1, <2>3 DEF ShownInv, Shown
<1>6. CASE Reopen(who, c)
  <2>1. /\ Registered' = Registered /\ flagged \subseteq flagged' /\ Write({c}, "OPEN")
        /\ unmarked \ {c} \subseteq unmarked'
    BY <1>6 DEF Reopen, metricVars, Marked, Registered
  <2> SUFFICES ASSUME NEW d \in (Active \ unmarked)', pair'[d].b, Sides(pair'[d]) \subseteq Registered'
               PROVE  Shown(d)'
    BY DEF ShownInv
  <2>2. pair'[d] = pair[d] /\ (d = c \/ d \in Active)
    BY <2>1, PairKept DEF Active
  <2>3. CASE d = c
    <3>1. pair[c].cand \in Registered /\ pair[c].cand \notin gone
      BY <1>2, <1>6, <2>1, <2>2, <2>3 DEF Reopen, CurrentView, Sides
    <3>2. pair[c].cand \in flagged'
      BY <1>6, <2>3, <3>1 DEF Reopen, Marked, Registered
    <3> QED BY <2>2, <2>3, <3>2 DEF Shown, Sides
  <2>4. CASE d # c
    BY <2>1, <2>2, <2>4 DEF ShownInv, Shown
  <2> QED BY <2>3, <2>4
<1> QED BY <1>1, <1>3, <1>4, <1>5, <1>6

LEMMA LifecycleShows ==
  ASSUME Base, ShownInv, Lifecycle
  PROVE  ShownInv'
<1>1. PICK m \in Metrics : \/ Submit(m) \/ Approve(m) \/ Promote(m) \/ EmergencyPublish(m)
                           \/ Reject(m) \/ Deprecate(m) \/ Reactivate(m)
                           \/ Delete(m) \/ Restore(m)
  BY DEF Lifecycle
<1>2. UNCHANGED <<status, pair, flagged, unmarked>>
  BY <1>1 DEF Submit, Approve, Promote, EmergencyPublish, Reject, Deprecate, Reactivate,
              Delete, Restore, Move
<1>3. Registered' = Registered
  <2>1. CASE UNCHANGED life
    BY <2>1 DEF Registered
  <2>2. ASSUME NEW from, NEW to \in LifeStates \ {"ABSENT"}, Move(m, from, to)
        PROVE  Registered' = Registered
    BY <2>2 DEF Move, Live, Base, LifeOK, Registered
  <2> QED BY <1>1, <2>1, <2>2 DEF Submit, Approve, Promote, EmergencyPublish, Reject,
                                  Deprecate, Reactivate, Delete, Restore, LifeStates
<1> QED BY <1>2, <1>3, ShownKept

\* While nobody commits on the ground of an old snapshot, an active conflict
\* of two metrics that exist is shown in the catalogue, through checks,
\* rulings, reopenings, deletions and restorations in any order, unless the
\* request that made it active could not set the flag and passed over that.
THEOREM ShownWhenCurrent == Spec /\ CommitsAreCurrent => []OpenConflictIsShown
<1>1. Init => ShownInv
  BY DEF Init, ShownInv, Active, Undecided
<1>2. Base /\ ShownInv /\ [Next]_vars /\ [CommitIsCurrent]_vars => ShownInv'
  <2> SUFFICES ASSUME Base, ShownInv, [Next]_vars, [CommitIsCurrent]_vars PROVE ShownInv'
    OBVIOUS
  <2>1. CASE UNCHANGED vars
    BY <2>1, ShownKept DEF vars, Registered
  <2>2. CASE CommitIsCurrent /\ \E who \in Everyone : Check(who) \/ Desk(who)
    BY <2>2, CheckShows, DeskShows
  <2>3. CASE \E q \in Requests : Begin(q) \/ Abandon(q)
    BY <2>3, ShownKept DEF Begin, Abandon, metricVars, Registered
  <2> QED BY <2>1, <2>2, <2>3, LifecycleShows DEF Next, Everyone
<1>3. Base /\ ShownInv => OpenConflictIsShown
  BY DEF Base, TableOK, ShownInv, OpenConflictIsShown, Live, Registered, Active, Undecided,
         Pair, Sides
<1> QED BY <1>1, <1>2, <1>3, Based, PTL DEF Spec, CommitsAreCurrent

\* Requests that follow one another, which is the configuration the property is
\* checked in, never hide a conflict: what may be in the dark is what a
\* swallowed failure left unmarked from the start.
THEOREM ShownInTurn ==
  ASSUME Requests = {}
  PROVE  Spec => []OpenConflictIsShown
<1>1. Base => [CommitIsCurrent]_vars
  BY DEF Base, ViewOK, CommitIsCurrent
<1>2. Spec => CommitsAreCurrent
  BY <1>1, Based, PTL DEF CommitsAreCurrent
<1> QED BY <1>2, ShownWhenCurrent, PTL
=============================================================================
