-------------------------- MODULE LineageScanProofs --------------------------
(***************************************************************************)
(* Proofs about LineageScan, for any steps, scripts, edges and any number  *)
(* of rounds: the records are well-typed and the flag of an edge agrees    *)
(* with its count of missed rounds; a round counts an edge as missing only *)
(* for a cause; and the scan never writes a cycle.                         *)
(***************************************************************************)
EXTENDS LineageScan, FiniteSetTheorems, TLAPS

USE StepsAssumption, ScriptsAssumption, SizesAssumption

-----------------------------------------------------------------------------
(***************************************************************************)
(* Least and greatest elements: sets of naturals are well-ordered.         *)
(***************************************************************************)
LEMMA HasLeast ==
  ASSUME NEW S \in SUBSET Nat, S # {}
  PROVE  \E x \in S : \A y \in S : x <= y
<1> DEFINE R == StrictSubsetOrdering(Nat)
<1> DEFINE Below == {0 .. x : x \in S}
<1>1. IsWellFoundedOn(R, FiniteSubsetsOf(Nat))
  BY FS_StrictSubsetOrderingWellFounded
<1>2. Below \subseteq FiniteSubsetsOf(Nat) /\ Below # {}
  <2>1. \A x \in S : IsFiniteSet(0 .. x) /\ 0 .. x \subseteq Nat
    BY FS_Interval
  <2> QED BY <2>1 DEF FiniteSubsetsOf
<1>3. \A A, B \in Below : A \subseteq B /\ A # B => <<A, B>> \in R
  BY <1>2 DEF StrictSubsetOrdering, FiniteSubsetsOf
<1> HIDE DEF R, Below
<1>4. PICK A \in Below : \A B \in Below : <<B, A>> \notin R
  BY <1>1, <1>2, WFMin
<1>5. PICK x \in S : A = 0 .. x
  BY DEF Below
<1>6. ASSUME NEW y \in S, y < x PROVE FALSE
  <2>1. 0 .. y \in Below
    BY DEF Below
  <2>2. 0 .. y \subseteq 0 .. x /\ x \in 0 .. x /\ x \notin 0 .. y
    BY <1>6
  <2> QED BY <1>3, <1>4, <1>5, <2>1, <2>2
<1> QED BY <1>6

LEMMA MinMember ==
  ASSUME NEW S \in SUBSET Nat, S # {}
  PROVE  Min(S) \in S
BY HasLeast DEF Min

LEMMA MaxMember ==
  ASSUME NEW S \in SUBSET Nat, S # {}, NEW bound \in Nat, \A y \in S : y <= bound
  PROVE  Max(S) \in S /\ \A y \in S : y <= Max(S)
<1> DEFINE Gaps == {bound - y : y \in S}
<1>1. Gaps \in SUBSET Nat /\ Gaps # {}
  <2>1. \A y \in S : bound - y \in Nat
    OBVIOUS
  <2> QED BY <2>1
<1>2. PICK g \in Gaps : \A h \in Gaps : g <= h
  BY <1>1, HasLeast
<1>3. PICK x \in S : g = bound - x
  BY <1>2
<1>4. \A y \in S : bound - x <= bound - y
  BY <1>2, <1>3
<1>5. \A y \in S : x >= y
  BY <1>4
<1> QED BY <1>5 DEF Max

-----------------------------------------------------------------------------
(***************************************************************************)
(* The rows of the edges.                                                  *)
(***************************************************************************)
Consistent(r) == r \in Row /\ (Present(r) => (r.row = "stale" <=> r.missing = Threshold))

LEMMA Fields ==
  ASSUME NEW r, Consistent(r)
  PROVE  /\ r \in Row
         /\ r.row \in {"none", "active", "stale", "deleted"}
         /\ r.missing \in 0 .. Threshold
         /\ r.seen \in BOOLEAN
         /\ r.row \in {"active", "stale"} => (r.row = "stale" <=> r.missing = Threshold)
BY DEF Consistent, Row, Present

\* A row that has missed no round is consistent, unless it is stale.
LEMMA CleanRow ==
  ASSUME NEW r \in Row, r.missing = 0, r.row # "stale"
  PROVE  Consistent(r)
BY DEF Consistent, Row, Present

LEMMA RestoredType ==
  ASSUME NEW r, Consistent(r)
  PROVE  Consistent(Restored(r)) /\ Restored(r).missing <= r.missing
<1>1. r \in Row /\ 0 \in 0 .. Threshold
  BY Fields
<1>2. Restored(r) \in Row /\ Restored(r).missing = 0 /\ Restored(r).row = "active"
  BY <1>1 DEF Restored, Row
<1> QED BY <1>2, CleanRow, Fields

LEMMA UpsertedType ==
  ASSUME NEW r, Consistent(r)
  PROVE  Consistent(Upserted(r)) /\ Upserted(r).missing <= r.missing
<1>1. CASE r.row = "none"
  <2>1. Upserted(r) = [row |-> "active", missing |-> 0, seen |-> FALSE]
    BY <1>1 DEF Upserted
  <2>2. Upserted(r) \in Row /\ Upserted(r).missing = 0 /\ Upserted(r).row = "active"
    BY <2>1 DEF Row
  <2> QED BY <2>2, CleanRow, Fields
<1>2. CASE r.row = "deleted"
  <2>1. Upserted(r) = Restored(r)
    BY <1>2 DEF Upserted, Restored
  <2> QED BY <2>1, RestoredType
<1>3. CASE r.row # "none" /\ r.row # "deleted"
  <2>1. Upserted(r) = r
    BY <1>3 DEF Upserted
  <2> QED BY <2>1, Fields
<1> QED BY <1>1, <1>2, <1>3

LEMMA MarkSeenType ==
  ASSUME NEW r, Consistent(r)
  PROVE  Consistent(MarkSeen(r)) /\ MarkSeen(r).missing <= r.missing
<1>1. CASE Present(r)
  <2>1. MarkSeen(r) = [row |-> "active", missing |-> 0, seen |-> TRUE]
    BY <1>1 DEF MarkSeen
  <2>2. MarkSeen(r) \in Row /\ MarkSeen(r).missing = 0 /\ MarkSeen(r).row = "active"
    BY <2>1 DEF Row
  <2> QED BY <2>2, CleanRow, Fields
<1>2. CASE ~Present(r)
  BY <1>2, Fields DEF MarkSeen
<1> QED BY <1>1, <1>2

LEMMA MarkMissingType ==
  ASSUME NEW r, Consistent(r)
  PROVE  Consistent(MarkMissing(r))
<1>1. CASE ~Present(r) \/ ~r.seen
  BY <1>1 DEF MarkMissing
<1>2. CASE ~(~Present(r) \/ ~r.seen)
  <2> DEFINE n == IF r.missing < Threshold THEN r.missing + 1 ELSE Threshold
  <2>1. r.missing \in 0 .. Threshold /\ r.seen \in BOOLEAN
        /\ r.row \in {"none", "active", "stale", "deleted"}
    BY DEF Consistent, Row
  <2>2. n \in 0 .. Threshold
    BY <2>1
  <2>3. MarkMissing(r) = [r EXCEPT !.missing = n, !.row = IF n >= Threshold THEN "stale" ELSE @]
    BY <1>2 DEF MarkMissing
  <2>4. r.row \in {"active", "stale"} /\ (r.row = "stale" <=> r.missing = Threshold)
    BY <1>2 DEF Consistent, Present
  <2>5. n >= Threshold <=> n = Threshold
    BY <2>2
  <2>6. r.row = "stale" => n = Threshold
    BY <2>1, <2>4
  <2> HIDE DEF n
  <2> QED BY <2>1, <2>2, <2>3, <2>4, <2>5, <2>6 DEF Consistent, Row, Present
<1> QED BY <1>1, <1>2

LEMMA DeletedType ==
  ASSUME NEW r, Consistent(r)
  PROVE  Consistent([r EXCEPT !.row = "deleted"]) /\ [r EXCEPT !.row = "deleted"].missing <= r.missing
BY DEF Consistent, Row, Present

-----------------------------------------------------------------------------
(***************************************************************************)
(* The edges, and what each operation does to their counts.                *)
(***************************************************************************)
EdgeOK == edge \in [Edges -> Row] /\ \A e \in Edges : Consistent(edge[e])
NoGain == \A e \in Edges : edge'[e].missing <= edge[e].missing

LEMMA EdgesMapped ==
  ASSUME NEW f, edge' = f, DOMAIN f = Edges, f = [e \in Edges |-> f[e]],
         \A e \in Edges : Consistent(f[e])
  PROVE  EdgeOK'
<1>1. \A e \in Edges : f[e] \in Row
  BY DEF Consistent
<1> QED BY <1>1 DEF EdgeOK

LEMMA EdgesKept ==
  ASSUME EdgeOK, UNCHANGED edge
  PROVE  EdgeOK' /\ NoGain
<1>1. EdgeOK'
  BY DEF EdgeOK
<1>2. \A e \in Edges : edge[e].missing \in Nat
  BY Fields DEF EdgeOK
<1> QED BY <1>1, <1>2 DEF NoGain

LEMMA EdgesUpserted ==
  ASSUME EdgeOK, NEW found, Upsert(found)
  PROVE  EdgeOK' /\ NoGain
<1> DEFINE f == [e \in Edges |-> IF e \in found THEN Upserted(edge[e]) ELSE edge[e]]
<1>1. edge' = f
  BY DEF Upsert
<1>2. \A e \in Edges : Consistent(f[e]) /\ f[e].missing <= edge[e].missing
  BY UpsertedType, Fields DEF EdgeOK
<1>3. EdgeOK'
  BY <1>1, <1>2, EdgesMapped
<1> QED BY <1>1, <1>2, <1>3 DEF NoGain

LEMMA EdgeRuled ==
  ASSUME EdgeOK, NEW e \in Edges, ConfirmStale(e) \/ RestoreStale(e)
  PROVE  EdgeOK' /\ NoGain
<1>1. PICK r : edge' = [edge EXCEPT ![e] = r] /\ Consistent(r) /\ r.missing <= edge[e].missing
  <2>1. Consistent(edge[e])
    BY DEF EdgeOK
  <2>2. CASE ConfirmStale(e)
    BY <2>1, <2>2, DeletedType DEF ConfirmStale
  <2>3. CASE RestoreStale(e)
    BY <2>1, <2>3, RestoredType DEF RestoreStale
  <2> QED BY <2>2, <2>3
<1> DEFINE f == [edge EXCEPT ![e] = r]
<1>2. DOMAIN f = Edges /\ f = [d \in Edges |-> f[d]]
  BY DEF EdgeOK
<1>3. \A d \in Edges : Consistent(f[d]) /\ f[d].missing <= edge[d].missing
  BY <1>1, Fields DEF EdgeOK
<1>4. EdgeOK'
  BY <1>1, <1>2, <1>3, EdgesMapped
<1> QED BY <1>1, <1>3, <1>4 DEF NoGain

LEMMA EdgesClosed ==
  ASSUME EdgeOK, CloseEdges
  PROVE  /\ EdgeOK'
         /\ \A e \in Edges : edge'[e].missing > edge[e].missing => e \notin round.seen /\ Counts
<1> DEFINE f == [e \in Edges |-> IF e \in round.seen THEN MarkSeen(edge[e])
                                 ELSE IF Counts THEN MarkMissing(edge[e]) ELSE edge[e]]
<1>1. edge' = f
  BY DEF CloseEdges
<1>2. \A e \in Edges : Consistent(edge[e])
  BY DEF EdgeOK
<1>3. \A e \in Edges : Consistent(f[e])
  BY <1>2, MarkSeenType, MarkMissingType
<1>4. EdgeOK'
  BY <1>1, <1>3, EdgesMapped
<1>5. ASSUME NEW e \in Edges, ~(e \notin round.seen /\ Counts)
      PROVE  ~(edge'[e].missing > edge[e].missing)
  <2>1. CASE e \in round.seen
    BY <1>1, <1>2, <2>1, MarkSeenType, Fields
  <2>2. CASE e \notin round.seen /\ ~Counts
    BY <1>1, <1>2, <2>2, Fields
  <2> QED BY <1>5, <2>1, <2>2
<1> QED BY <1>4, <1>5

-----------------------------------------------------------------------------
(***************************************************************************)
(* Types.                                                                  *)
(***************************************************************************)
PlatformOK ==
  /\ script \in [Steps -> Scripts]
  /\ gmt \in [Steps -> Nat]
  /\ now \in Nat
  /\ dropped \subseteq Tasks
  /\ \A s \in Steps : gmt[s] <= now   \* the greatest time of a set exists
ScanOK == wm \in Nat /\ due \in BOOLEAN /\ retry \subseteq Tasks /\ turns \in 0 .. MaxTurns
RoundOK == round \in Round
Base == EdgeOK /\ PlatformOK /\ ScanOK /\ RoundOK

LEMMA TaskType == \A s \in Steps : TaskOf(s) \in Tasks /\ TaskOf(s) \in Nat /\ s \in StepsOf(TaskOf(s))
BY DEF TaskOf, Tasks, StepsOf

LEMMA TurnType == ASSUME ScanOK, Turn PROVE turns' \in 0 .. MaxTurns
BY DEF ScanOK, Turn

LEMMA IdleType == Idle \in Round
BY DEF Idle, Round, NoRead

LEMMA Initially == Init => Base
<1> SUFFICES ASSUME Init PROVE Base
  OBVIOUS
<1>1. EdgeOK
  <2> DEFINE r == [row |-> "none", missing |-> 0, seen |-> FALSE]
  <2>1. r \in Row /\ Consistent(r)
    BY DEF Row, Consistent, Present
  <2> QED BY <2>1 DEF Init, EdgeOK
<1>2. PlatformOK /\ ScanOK
  BY DEF Init, PlatformOK, ScanOK
<1> QED BY <1>1, <1>2, IdleType DEF Base, RoundOK, Init

LEMMA PlatformNext ==
  ASSUME PlatformOK, (\E s \in Steps : Edit(s)) \/ (\E t \in Tasks : DropTask(t))
  PROVE  PlatformOK'
<1>1. ASSUME NEW s \in Steps, Edit(s) PROVE PlatformOK'
  <2>1. now' \in Nat /\ now <= now'
    BY <1>1 DEF Edit, PlatformOK
  <2>2. script' \in [Steps -> Scripts] /\ dropped' = dropped
    BY <1>1 DEF Edit, PlatformOK
  <2>3. gmt' \in [Steps -> Nat] /\ \A n \in Steps : gmt'[n] = gmt[n] \/ gmt'[n] = now'
    BY <1>1, <2>1 DEF Edit, PlatformOK
  <2>4. \A n \in Steps : gmt'[n] <= now'
    BY <2>1, <2>3 DEF PlatformOK
  <2> QED BY <2>1, <2>2, <2>3, <2>4 DEF PlatformOK
<1>2. ASSUME NEW t \in Tasks, DropTask(t) PROVE PlatformOK'
  BY <1>2 DEF DropTask, PlatformOK
<1> QED BY <1>1, <1>2

LEMMA JudgedType ==
  ASSUME RoundOK, round.works # {}
  PROVE  Judged \in Tasks
<1> DEFINE S == {TaskOf(s) : s \in round.works}
<1>1. round.works \subseteq Steps
  BY DEF RoundOK, Round
<1>2. S \subseteq Tasks /\ S \subseteq Nat /\ S # {}
  BY <1>1, TaskType
<1> QED BY <1>2, MinMember DEF Judged

LEMMA BeginType ==
  ASSUME PlatformOK, ScanOK, NEW manual \in BOOLEAN, Begin(manual)
  PROVE  round' \in Round
<1> DEFINE full == IsFull(manual)
           rows == Changed(full)
           times == {gmt[s] : s \in rows}
           max == IF rows # {} THEN Max(times) ELSE IF full THEN 0 ELSE wm
           todo == {TaskOf(s) : s \in rows} \cup retry
<1>1. full \in BOOLEAN /\ rows \subseteq Steps
  BY DEF IsFull, Changed, ScanOK
<1>2. max \in Nat
  <2>1. times \in SUBSET Nat /\ \A y \in times : y <= now
    BY <1>1 DEF PlatformOK
  <2>2. rows # {} => Max(times) \in Nat
    <3>1. rows # {} => times # {}
      OBVIOUS
    <3> HIDE DEF times, rows
    <3> QED BY <2>1, <3>1, MaxMember DEF PlatformOK
  <2> HIDE DEF times, rows
  <2> QED BY <2>2 DEF ScanOK
<1>3. todo \subseteq Tasks
  BY <1>1, TaskType DEF ScanOK
<1>4. round' = [Idle EXCEPT !.phase = "asked", !.manual = manual, !.full = full,
                            !.todo = todo, !.max = max]
  BY DEF Begin
<1> HIDE DEF full, max, todo, rows, times
<1> QED BY <1>1, <1>2, <1>3, <1>4, IdleType DEF Round

LEMMA RoundFields ==
  ASSUME RoundOK
  PROVE  /\ round.failed \subseteq Tasks /\ round.works \subseteq Steps
         /\ round.seen \subseteq Edges /\ round.skipped \subseteq Edges /\ round.todo \subseteq Tasks
         /\ round.max \in Nat /\ round.read \in [Steps -> Scripts]
         /\ round.fresh \subseteq Steps /\ round.stop \in BOOLEAN
BY DEF RoundOK, Round

\* Every edge that a step has read is stored or skipped.
LEMMA StoredType ==
  ASSUME RoundOK, NEW some \in SUBSET Steps, NEW stored \in Storings(some)
  PROVE  /\ Stored(stored) \subseteq Edges /\ Skipped(stored) \subseteq Edges
         /\ \A s \in some : round.read[s] \subseteq Stored(stored) \cup Skipped(stored)
<1>1. DOMAIN stored = some /\ \A s \in some : stored[s] \in SUBSET Edges
  BY DEF Storings
<1>2. \A s \in some : round.read[s] \in SUBSET Edges
  BY RoundFields
<1>3. Stored(stored) \subseteq Edges
  BY <1>1 DEF Stored
<1>4. Skipped(stored) \subseteq Edges
  BY <1>1, <1>2 DEF Skipped
<1>5. \A s \in some : round.read[s] \subseteq Stored(stored) \cup Skipped(stored)
  BY <1>1 DEF Stored, Skipped
<1> QED BY <1>3, <1>4, <1>5

LEMMA NotedType ==
  ASSUME RoundOK, NEW some \in SUBSET Steps, NEW stored \in Storings(some)
  PROVE  /\ Noted(stored) \in Round
         /\ Noted(stored).seen = round.seen \cup Stored(stored)
         /\ Noted(stored).skipped = round.skipped \cup Skipped(stored)
         /\ Noted(stored).phase = round.phase /\ Noted(stored).stop = round.stop
         /\ Noted(stored).todo = round.todo /\ Noted(stored).failed = round.failed
         /\ Noted(stored).works = round.works
         /\ Noted(stored).read = round.read /\ Noted(stored).fresh = round.fresh
<1>1. Stored(stored) \subseteq Edges /\ Skipped(stored) \subseteq Edges
  BY StoredType
<1> QED BY <1>1 DEF Noted, RoundOK, Round

\* A part of the round is replaced.
LEMMA RoundStep ==
  ASSUME RoundOK, PlatformOK
  PROVE  /\ Prefetch => RoundOK'
         /\ \A t \in Tasks : \A done \in Prefixes(t) : ScanTask(t, done) => RoundOK'
         /\ \A t \in Tasks : \A done \in Prefixes(t) :
              TaskFails(t, done) \/ ForceStop(t, done) => RoundOK'
         /\ Stop \/ Cut \/ AskVerdicts => RoundOK'
         /\ \A agreed \in SUBSET round.works : Judge(agreed) => RoundOK'
         /\ \A agreed \in SUBSET round.works : JudgeFails(agreed) => RoundOK'
         /\ CloseEdges \/ CloseRun \/ Abort \/ Crash => RoundOK'
<1>1. ASSUME Prefetch PROVE RoundOK'
  <2> DEFINE of == UNION {StepsOf(t) : t \in round.todo}
             read == [s \in Steps |-> IF s \in of THEN script[s] ELSE {}]
             fresh == {s \in of : Fresh(s)}
  <2>1. read \in [Steps -> Scripts] /\ fresh \subseteq Steps
    BY DEF PlatformOK, StepsOf
  <2>2. round' = [round EXCEPT !.phase = "parsing", !.read = read, !.fresh = fresh]
    BY <1>1 DEF Prefetch
  <2> HIDE DEF read, fresh, of
  <2> QED BY <2>1, <2>2 DEF RoundOK, Round
<1>2. ASSUME NEW t \in Tasks, NEW done \in Prefixes(t), ScanTask(t, done) PROVE RoundOK'
  <2> DEFINE new == done \cap round.fresh
             works == round.works \cup {s \in new \cap Complex : round.read[s] # {}}
             stop == done # StepsOf(t)
  <2>1. PICK stored \in Storings(new \ Complex) :
          round' = [Noted(stored) EXCEPT
                      !.todo = @ \ {t}, !.stop = done # StepsOf(t),
                      !.works = @ \cup {s \in new \cap Complex : round.read[s] # {}}]
    BY <1>2 DEF ScanTask
  <2>2. works \subseteq Steps /\ stop \in BOOLEAN /\ new \ Complex \in SUBSET Steps
    BY RoundFields
  <2>3. Noted(stored) \in Round /\ Noted(stored).works = round.works
    <3> HIDE DEF new
    <3> QED BY <2>2, NotedType
  <2>4. round' = [Noted(stored) EXCEPT !.todo = @ \ {t}, !.stop = stop, !.works = works]
    BY <2>1, <2>3 DEF Round
  <2> HIDE DEF works, stop, new
  <2> QED BY <2>2, <2>3, <2>4 DEF RoundOK, Round
<1>3. ASSUME NEW t \in Tasks, NEW done \in Prefixes(t),
             TaskFails(t, done) \/ ForceStop(t, done)
      PROVE  RoundOK'
  <2> DEFINE some == (done \cap round.fresh) \ Complex
  <2>1. PICK stored \in Storings(some) :
          \/ round' = [Noted(stored) EXCEPT !.todo = @ \ {t}, !.failed = @ \cup {t}]
          \/ round' = [Noted(stored) EXCEPT !.stop = TRUE, !.cut = TRUE]
    BY <1>3 DEF TaskFails, ForceStop
  <2>2. some \in SUBSET Steps
    BY RoundFields
  <2> HIDE DEF some
  <2>3. Noted(stored) \in Round
    BY <2>2, NotedType
  <2>4. CASE round' = [Noted(stored) EXCEPT !.todo = @ \ {t}, !.failed = @ \cup {t}]
    BY <2>3, <2>4 DEF RoundOK, Round
  <2>5. CASE round' = [Noted(stored) EXCEPT !.stop = TRUE, !.cut = TRUE]
    BY <2>3, <2>5 DEF RoundOK, Round
  <2> QED BY <2>1, <2>4, <2>5
<1>4. ASSUME Stop \/ Cut \/ AskVerdicts PROVE RoundOK'
  <2>1. \/ round' = [round EXCEPT !.stop = TRUE] \/ round' = [round EXCEPT !.cut = TRUE]
        \/ round' = [round EXCEPT !.phase = "judging"]
    BY <1>4 DEF Stop, Cut, AskVerdicts
  <2>2. CASE round' = [round EXCEPT !.stop = TRUE]
    BY <2>2 DEF RoundOK, Round
  <2>3. CASE round' = [round EXCEPT !.cut = TRUE]
    BY <2>3 DEF RoundOK, Round
  <2>4. CASE round' = [round EXCEPT !.phase = "judging"]
    BY <2>4 DEF RoundOK, Round
  <2> QED BY <2>1, <2>2, <2>3, <2>4
<1>5. ASSUME NEW agreed \in SUBSET round.works, Judge(agreed) PROVE RoundOK'
  <2>1. PICK stored \in Storings(agreed) :
          round' = [Noted(stored) EXCEPT !.works = @ \ StepsOf(Judged)]
    BY <1>5 DEF Judge
  <2>2. Noted(stored) \in Round
    BY NotedType, RoundFields
  <2> QED BY <2>1, <2>2 DEF RoundOK, Round
<1>6. ASSUME NEW agreed \in SUBSET round.works, JudgeFails(agreed) PROVE RoundOK'
  <2>1. PICK stored \in Storings(agreed) :
          round' = [Noted(stored) EXCEPT !.works = @ \ StepsOf(Judged),
                                         !.failed = @ \cup {Judged}]
    BY <1>6 DEF JudgeFails
  <2>2. Judged \in Tasks
    BY <1>6, JudgedType DEF JudgeFails
  <2>3. Noted(stored) \in Round
    BY NotedType, RoundFields
  <2> HIDE DEF Judged
  <2> QED BY <2>1, <2>2, <2>3 DEF RoundOK, Round
<1>7. ASSUME CloseEdges PROVE RoundOK'
  <2>1. round' = [Idle EXCEPT !.phase = "closed", !.failed = round.failed]
    BY <1>7 DEF CloseEdges
  <2> QED BY <2>1, IdleType, RoundFields DEF RoundOK, Round
<1>8. ASSUME CloseRun \/ Abort \/ Crash PROVE RoundOK'
  BY <1>8, IdleType DEF CloseRun, Abort, Crash, RoundOK
<1> QED BY <1>1, <1>2, <1>3, <1>4, <1>5, <1>6, <1>7, <1>8

\* Only the close of a round raises a count.
LEMMA BaseStep ==
  ASSUME Base, [Next]_vars
  PROVE  Base' /\ (CloseEdges \/ NoGain)
<1> USE DEF Base
<1>1. ASSUME NEW s \in Steps, Edit(s) PROVE Base' /\ NoGain
  BY <1>1, PlatformNext, TurnType, EdgesKept DEF Edit, ScanOK, RoundOK
<1>2. ASSUME NEW t \in Tasks, DropTask(t) PROVE Base' /\ NoGain
  BY <1>2, PlatformNext, TurnType, EdgesKept DEF DropTask, ScanOK, RoundOK
<1>3. ASSUME NEW t \in Tasks, NEW done \in Prefixes(t),
             TaskFails(t, done) \/ ForceStop(t, done)
      PROVE  Base' /\ NoGain
  <2>1. RoundOK'
    BY <1>3, RoundStep
  <2>2. Turn /\ UNCHANGED <<platform, wm, due, retry, edge>>
    BY <1>3 DEF TaskFails, ForceStop
  <2> QED BY <2>1, <2>2, TurnType, EdgesKept DEF ScanOK, PlatformOK, platform
<1>4. ASSUME NEW e \in Edges, ConfirmStale(e) \/ RestoreStale(e) PROVE Base' /\ NoGain
  BY <1>4, EdgeRuled, TurnType DEF ConfirmStale, RestoreStale, ScanOK, PlatformOK, RoundOK, platform
<1>5. ASSUME NEW manual \in BOOLEAN, Begin(manual) PROVE Base' /\ NoGain
  BY <1>5, BeginType, EdgesKept DEF Begin, ScanOK, PlatformOK, RoundOK, platform
<1>6. ASSUME DayPasses PROVE Base' /\ NoGain
  BY <1>6, EdgesKept DEF DayPasses, ScanOK, PlatformOK, RoundOK, platform
<1>7. ASSUME Prefetch \/ Cut \/ AskVerdicts PROVE Base' /\ NoGain
  BY <1>7, RoundStep, EdgesKept DEF Prefetch, Cut, AskVerdicts, ScanOK, PlatformOK, platform
<1>8. ASSUME NEW t \in Tasks, NEW done \in Prefixes(t), ScanTask(t, done) PROVE Base' /\ NoGain
  <2>1. EdgeOK' /\ NoGain
    BY <1>8, EdgesUpserted DEF ScanTask
  <2>2. RoundOK'
    BY <1>8, RoundStep
  <2>3. ScanOK' /\ PlatformOK'
    BY <1>8, TurnType DEF ScanTask, ScanOK, PlatformOK, platform
  <2> QED BY <2>1, <2>2, <2>3
<1>9. ASSUME NEW agreed \in SUBSET round.works, Judge(agreed) PROVE Base' /\ NoGain
  <2>1. EdgeOK' /\ NoGain
    BY <1>9, EdgesUpserted DEF Judge
  <2>2. RoundOK'
    BY <1>9, RoundStep
  <2>3. ScanOK' /\ PlatformOK'
    BY <1>9 DEF Judge, ScanOK, PlatformOK, platform
  <2> QED BY <2>1, <2>2, <2>3
<1>10. ASSUME CloseEdges PROVE Base'
  BY <1>10, EdgesClosed, RoundStep, RoundFields DEF CloseEdges, ScanOK, PlatformOK, platform
<1>11. ASSUME CloseRun \/ Abort \/ Crash PROVE Base' /\ NoGain
  BY <1>11, RoundStep, RoundFields, TurnType, EdgesKept
     DEF CloseRun, Abort, Crash, ScanOK, PlatformOK, platform
<1>12. ASSUME Stop \/ \E agreed \in SUBSET round.works : JudgeFails(agreed)
       PROVE  Base' /\ NoGain
  <2>1. RoundOK'
    BY <1>12, RoundStep
  <2>2. Turn /\ UNCHANGED <<platform, wm, due, retry, edge>>
    BY <1>12 DEF Stop, JudgeFails
  <2> QED BY <2>1, <2>2, TurnType, EdgesKept DEF ScanOK, PlatformOK, platform
<1>13. ASSUME UNCHANGED vars PROVE Base' /\ NoGain
  BY <1>13, EdgesKept DEF vars, ScanOK, PlatformOK, RoundOK
<1> QED BY <1>1, <1>2, <1>3, <1>4, <1>5, <1>6, <1>7, <1>8, <1>9, <1>10, <1>11, <1>12, <1>13
        DEF Next, Work

LEMMA Typed == Spec => []Base
<1>1. Base /\ [Next]_vars => Base'
  BY BaseStep
<1> QED BY <1>1, Initially, PTL DEF Spec

\* The records of the scan are well-typed, and an edge is stale exactly when
\* Threshold full rounds in a row have missed it (repository.py).
THEOREM TypeCorrect == Spec => []TypeOK
<1>1. Base => TypeOK
  BY DEF Base, EdgeOK, PlatformOK, ScanOK, RoundOK, TypeOK, Consistent
<1> QED BY <1>1, Typed, PTL

-----------------------------------------------------------------------------
(***************************************************************************)
(* What a round has found.  Until it is stopped, every simple script that  *)
(* it has read is either of a task it has still to do, or of one that has  *)
(* failed, or each of its edges has been seen or closed a cycle.           *)
(***************************************************************************)
Accounted(s) == \/ TaskOf(s) \in round.todo \cup round.failed
                \/ round.read[s] \subseteq round.seen \cup round.skipped
FoundInv == round.phase \in {"parsing", "judging"} /\ ~round.stop =>
              \A s \in round.fresh \ Complex : Accounted(s)

LEMMA FoundNext ==
  ASSUME Base, FoundInv, [Next]_vars
  PROVE  FoundInv'
<1>0. RoundOK
  BY DEF Base
<1>1. ASSUME UNCHANGED round PROVE FoundInv'
  BY <1>1 DEF FoundInv, Accounted
<1>2. ASSUME NEW manual \in BOOLEAN, Begin(manual) PROVE FoundInv'
  <2>1. round'.phase = "asked"
    BY <1>2 DEF Begin, Idle
  <2> QED BY <2>1 DEF FoundInv
<1>3. ASSUME CloseEdges \/ CloseRun \/ Abort \/ Crash PROVE FoundInv'
  <2>1. round'.phase \in {"idle", "closed"}
    <3>1. CASE CloseEdges
      BY <3>1, RoundFields, <1>0 DEF CloseEdges, Idle
    <3>2. CASE CloseRun \/ Abort \/ Crash
      BY <3>2 DEF CloseRun, Abort, Crash, Idle
    <3> QED BY <1>3, <3>1, <3>2
  <2> QED BY <2>1 DEF FoundInv
<1>4. ASSUME Prefetch PROVE FoundInv'
  <2>1. /\ round'.todo = round.todo
        /\ round'.fresh \subseteq UNION {StepsOf(t) : t \in round.todo}
    BY <1>0, <1>4 DEF Prefetch, RoundOK, Round
  <2>2. \A s \in round'.fresh : TaskOf(s) \in round'.todo
    BY <2>1 DEF StepsOf
  <2> QED BY <2>2 DEF FoundInv, Accounted
<1>5. ASSUME NEW t \in Tasks, NEW done \in Prefixes(t), ScanTask(t, done) PROVE FoundInv'
  <2> DEFINE some == (done \cap round.fresh) \ Complex
             works == round.works \cup {s \in (done \cap round.fresh) \cap Complex :
                                          round.read[s] # {}}
  <2>1. PICK stored \in Storings(some) :
          round' = [Noted(stored) EXCEPT
                      !.todo = @ \ {t}, !.stop = done # StepsOf(t),
                      !.works = @ \cup {s \in (done \cap round.fresh) \cap Complex :
                                          round.read[s] # {}}]
    BY <1>5 DEF ScanTask
  <2>2. some \in SUBSET Steps /\ round.fresh \subseteq Steps
    BY <1>0, RoundFields
  <2>3. /\ done = StepsOf(t) => \A s \in round.fresh \ Complex : TaskOf(s) = t => s \in some
        /\ round.phase = "parsing" /\ ~round.stop
    BY <1>5, <2>2 DEF StepsOf, ScanTask
  <2> HIDE DEF some, works
  <2>4. \A s \in some : round.read[s] \subseteq Stored(stored) \cup Skipped(stored)
    BY <1>0, <2>2, StoredType
  <2>5. /\ Noted(stored) \in Round
        /\ Noted(stored).seen = round.seen \cup Stored(stored)
        /\ Noted(stored).skipped = round.skipped \cup Skipped(stored)
        /\ Noted(stored).todo = round.todo /\ Noted(stored).failed = round.failed
        /\ Noted(stored).read = round.read /\ Noted(stored).fresh = round.fresh
    BY <1>0, <2>2, NotedType
  <2>6. /\ round'.todo = round.todo \ {t} /\ round'.failed = round.failed
        /\ round'.seen = round.seen \cup Stored(stored)
        /\ round'.skipped = round.skipped \cup Skipped(stored)
        /\ round'.read = round.read /\ round'.fresh = round.fresh
        /\ round'.stop = (done # StepsOf(t))
    BY <2>1, <2>5 DEF Round
  <2>7. ASSUME ~round'.stop, NEW s \in round'.fresh \ Complex PROVE Accounted(s)'
    <3>1. s \in round.fresh \ Complex /\ Accounted(s) /\ done = StepsOf(t)
      BY <2>3, <2>6, <2>7 DEF FoundInv
    <3>2. CASE TaskOf(s) = t
      BY <2>3, <2>4, <2>6, <3>1, <3>2 DEF Accounted
    <3>3. CASE TaskOf(s) # t
      BY <2>6, <3>1, <3>3 DEF Accounted
    <3> QED BY <3>2, <3>3
  <2> QED BY <2>7 DEF FoundInv
<1>6. ASSUME NEW t \in Tasks, NEW done \in Prefixes(t),
             TaskFails(t, done) \/ ForceStop(t, done)
      PROVE  FoundInv'
  <2> DEFINE some == (done \cap round.fresh) \ Complex
  <2>1. PICK stored \in Storings(some) :
          \/ round' = [Noted(stored) EXCEPT !.todo = @ \ {t}, !.failed = @ \cup {t}]
          \/ round' = [Noted(stored) EXCEPT !.stop = TRUE, !.cut = TRUE]
    BY <1>6 DEF TaskFails, ForceStop
  <2>2. some \in SUBSET Steps
    BY <1>0, RoundFields
  <2> HIDE DEF some
  <2>3. /\ Noted(stored) \in Round
        /\ Noted(stored).seen = round.seen \cup Stored(stored)
        /\ Noted(stored).skipped = round.skipped \cup Skipped(stored)
        /\ Noted(stored).phase = round.phase /\ Noted(stored).stop = round.stop
        /\ Noted(stored).todo = round.todo /\ Noted(stored).failed = round.failed
        /\ Noted(stored).read = round.read /\ Noted(stored).fresh = round.fresh
    BY <1>0, <2>2, NotedType
  <2>4. CASE round' = [Noted(stored) EXCEPT !.todo = @ \ {t}, !.failed = @ \cup {t}]
    BY <2>3, <2>4 DEF Round, FoundInv, Accounted
  <2>5. CASE round' = [Noted(stored) EXCEPT !.stop = TRUE, !.cut = TRUE]
    BY <2>3, <2>5 DEF Round, FoundInv
  <2> QED BY <2>1, <2>4, <2>5
<1>7. ASSUME Stop \/ Cut \/ AskVerdicts PROVE FoundInv'
  BY <1>0, <1>7 DEF Stop, Cut, AskVerdicts, RoundOK, Round, FoundInv, Accounted
<1>8. ASSUME NEW agreed \in SUBSET round.works, Judge(agreed) \/ JudgeFails(agreed)
      PROVE  FoundInv'
  <2>1. PICK stored \in Storings(agreed) :
          \/ round' = [Noted(stored) EXCEPT !.works = @ \ StepsOf(Judged)]
          \/ round' = [Noted(stored) EXCEPT !.works = @ \ StepsOf(Judged),
                                            !.failed = @ \cup {Judged}]
    BY <1>8 DEF Judge, JudgeFails
  <2>2. agreed \in SUBSET Steps
    BY <1>0, RoundFields
  <2>3. /\ Noted(stored) \in Round
        /\ Noted(stored).seen = round.seen \cup Stored(stored)
        /\ Noted(stored).skipped = round.skipped \cup Skipped(stored)
        /\ Noted(stored).phase = round.phase /\ Noted(stored).stop = round.stop
        /\ Noted(stored).todo = round.todo /\ Noted(stored).failed = round.failed
        /\ Noted(stored).read = round.read /\ Noted(stored).fresh = round.fresh
    BY <1>0, <2>2, NotedType
  <2>4. /\ round'.phase = round.phase /\ round'.stop = round.stop /\ round'.todo = round.todo
        /\ round'.read = round.read /\ round'.fresh = round.fresh
        /\ round.failed \subseteq round'.failed
        /\ round.seen \subseteq round'.seen /\ round.skipped \subseteq round'.skipped
    BY <2>1, <2>3 DEF Round
  <2> QED BY <2>4 DEF FoundInv, Accounted
<1> QED BY <1>1, <1>2, <1>3, <1>4, <1>5, <1>6, <1>7, <1>8
        DEF Next, Work, Edit, DropTask, ConfirmStale, RestoreStale, DayPasses, vars

LEMMA Found == Spec => []FoundInv
<1>1. Init => FoundInv
  BY DEF Init, Idle, FoundInv
<1>2. Base /\ FoundInv /\ [Next]_vars => FoundInv'
  BY FoundNext
<1> QED BY <1>1, <1>2, Typed, PTL DEF Spec

\* A round counts an edge that a script derives as missing only when the
\* script was changed after the round asked for changes, the user stopped the
\* scan, the verdict on a complex script is out, or the edge would have closed
\* a cycle (scan_once).
THEOREM MissesHaveCauses == Spec => MissedForCause
<1>1. Base /\ FoundInv /\ [Next]_vars =>
        \A e \in Edges : edge'[e].missing > edge[e].missing =>
          \A s \in Steps : Derives(s, e) =>
            \/ e \notin round.read[s] \/ s \notin round.fresh \/ s \in Complex
            \/ round.stop
            \/ e \in round.skipped
  <2> SUFFICES ASSUME Base, FoundInv, [Next]_vars, NEW e \in Edges,
                      edge'[e].missing > edge[e].missing,
                      NEW s \in Steps, e \in round.read[s], s \in round.fresh,
                      ~round.stop, s \notin Complex, e \notin round.skipped
               PROVE  FALSE
    BY RoundFields DEF Base
  <2>1. edge'[e].missing \in Nat /\ edge[e].missing \in Nat
    BY BaseStep, Fields DEF Base, EdgeOK
  <2>2. CloseEdges
    BY <2>1, BaseStep DEF NoGain
  <2>3. e \notin round.seen /\ Counts
    BY <2>2, EdgesClosed DEF Base
  <2>4. round.phase \in {"parsing", "judging"} /\ round.todo = {} /\ round.failed = {}
    BY <2>2, <2>3 DEF CloseEdges, Counts
  <2>5. Accounted(s)
    BY <2>4 DEF FoundInv
  <2> QED BY <2>3, <2>4, <2>5 DEF Accounted
<1> QED BY <1>1, Typed, Found, PTL DEF Spec, MissedForCause
-----------------------------------------------------------------------------
(***************************************************************************)
(* Cycles.  What follows a table is the least set that holds it and that   *)
(* no edge leaves.                                                         *)
(***************************************************************************)
LEMMA Ends == \A e \in Edges : Source(e) \in Tables /\ Target(e) \in Tables
BY DEF Tables

LEMMA DownstreamFacts ==
  ASSUME NEW F \in SUBSET Edges, NEW n \in Tables
  PROVE  /\ n \in Downstream(F, n) /\ Downstream(F, n) \subseteq Tables
         /\ \A e \in F : Source(e) \in Downstream(F, n) => Target(e) \in Downstream(F, n)
         /\ \A S \in SUBSET Tables :
              (n \in S /\ \A e \in F : Source(e) \in S => Target(e) \in S)
                => Downstream(F, n) \subseteq S
<1>1. \A e \in F : Target(e) \in Tables
  BY Ends
<1> QED BY <1>1 DEF Downstream

LEMMA DownstreamGrows ==
  ASSUME NEW G \in SUBSET Edges, NEW F \in SUBSET G, NEW n \in Tables
  PROVE  Downstream(F, n) \subseteq Downstream(G, n)
<1>1. F \in SUBSET Edges
  OBVIOUS
<1>2. /\ Downstream(G, n) \in SUBSET Tables /\ n \in Downstream(G, n)
      /\ \A e \in F : Source(e) \in Downstream(G, n) => Target(e) \in Downstream(G, n)
  BY DownstreamFacts
<1> QED BY <1>1, <1>2, DownstreamFacts

LEMMA DownstreamTransitive ==
  ASSUME NEW F \in SUBSET Edges, NEW n \in Tables, NEW m \in Downstream(F, n)
  PROVE  Downstream(F, m) \subseteq Downstream(F, n)
<1>1. m \in Tables /\ Downstream(F, n) \in SUBSET Tables
  BY DownstreamFacts
<1>2. \A e \in F : Source(e) \in Downstream(F, n) => Target(e) \in Downstream(F, n)
  BY DownstreamFacts
<1> QED BY <1>1, <1>2, DownstreamFacts

\* A cycle that appears when the edges N join F goes through one of N.
LEMMA CycleThroughNew ==
  ASSUME NEW F \in SUBSET Edges, NEW N \in SUBSET Edges, NEW e \in F,
         Source(e) \in Downstream(F \cup N, Target(e)),
         Source(e) \notin Downstream(F, Target(e))
  PROVE  \E d \in N : Source(d) \in Downstream(F \cup N, Target(d))
<1> DEFINE G == F \cup N
           S == Downstream(F, Target(e))
           B == {m \in Tables : Source(e) \in Downstream(G, m)}
           T == S \cup (Tables \ B)
<1>0. /\ G \in SUBSET Edges /\ F \in SUBSET G /\ e \in G /\ e \in Edges
      /\ Source(e) \in Tables /\ Target(e) \in Tables
  BY Ends
<1>1. /\ S \subseteq Tables /\ Target(e) \in S /\ S \subseteq Downstream(G, Target(e))
      /\ \A d \in F : Source(d) \in S => Target(d) \in S
  BY <1>0, DownstreamFacts, DownstreamGrows
<1>2. ASSUME NEW d \in G, Source(d) \in Tables \ B PROVE Target(d) \in Tables \ B
  <2>1. Source(d) \in Tables /\ Target(d) \in Tables
    BY <1>0, Ends
  <2>2. Target(d) \in Downstream(G, Source(d))
    BY <1>0, <2>1, DownstreamFacts
  <2>3. Downstream(G, Target(d)) \subseteq Downstream(G, Source(d))
    BY <1>0, <2>1, <2>2, DownstreamTransitive
  <2> QED BY <1>2, <2>1, <2>3
<1>3. Source(e) \in B
  BY <1>0, DownstreamFacts
<1>4. PICK d \in N : Source(d) \in S /\ Target(d) \in B
  <2> SUFFICES ASSUME \A d \in N : Source(d) \in S => Target(d) \notin B
               PROVE  FALSE
    OBVIOUS
  <2>1. \A d \in G : Source(d) \in T => Target(d) \in T
    <3> SUFFICES ASSUME NEW d \in G, Source(d) \in T PROVE Target(d) \in T
      OBVIOUS
    <3>1. Target(d) \in Tables
      BY <1>0, Ends
    <3>2. CASE Source(d) \in Tables \ B
      BY <1>2, <3>2
    <3>3. CASE Source(d) \in S
      BY <1>1, <3>1, <3>3
    <3> QED BY <3>2, <3>3
  <2>2. T \in SUBSET Tables /\ Target(e) \in T
    BY <1>1
  <2>3. Downstream(G, Target(e)) \subseteq T
    <3> HIDE DEF T, G
    <3>1. \A X \in SUBSET Tables :
            (Target(e) \in X /\ \A d \in G : Source(d) \in X => Target(d) \in X)
              => Downstream(G, Target(e)) \subseteq X
      BY <1>0, DownstreamFacts
    <3> QED BY <2>1, <2>2, <3>1
  <2> QED BY <1>3, <2>3
<1>5. Target(d) \in Tables
  BY <1>0, Ends
<1>6. Target(e) \in Downstream(G, Target(d))
  BY <1>0, <1>4, <1>5, DownstreamFacts
<1>7. Downstream(G, Target(e)) \subseteq Downstream(G, Target(d))
  BY <1>0, <1>5, <1>6, DownstreamTransitive
<1> QED BY <1>1, <1>4, <1>7

\* A finite set of numbers has a greatest one.
LEMMA HasGreatest ==
  ASSUME NEW S \in SUBSET Steps, S # {}
  PROVE  \E x \in S : \A y \in S : y <= x
<1> DEFINE R == StrictSubsetOrdering(Nat)
           Above == {{y \in S : y > x} : x \in S}
<1>1. IsWellFoundedOn(R, FiniteSubsetsOf(Nat))
  BY FS_StrictSubsetOrderingWellFounded
<1>2. Above \subseteq FiniteSubsetsOf(Nat) /\ Above # {}
  <2>1. \A x \in S : {y \in S : y > x} \subseteq Steps
    OBVIOUS
  <2>2. \A A \in SUBSET Steps : IsFiniteSet(A)
    BY FS_Subset
  <2> QED BY <2>1, <2>2 DEF FiniteSubsetsOf
<1>3. \A A, B \in Above : A \subseteq B /\ A # B => <<A, B>> \in R
  BY <1>2 DEF StrictSubsetOrdering, FiniteSubsetsOf
<1> HIDE DEF R, Above
<1>4. PICK A \in Above : \A B \in Above : <<B, A>> \notin R
  BY <1>1, <1>2, WFMin
<1>5. PICK x \in S : A = {y \in S : y > x}
  BY DEF Above
<1>6. ASSUME NEW z \in S, z > x PROVE FALSE
  <2>1. {y \in S : y > z} \in Above
    BY DEF Above
  <2>2. {y \in S : y > z} \subseteq A /\ z \in A /\ z \notin {y \in S : y > z}
    <3>1. \A y \in S : y \in Nat
      OBVIOUS
    <3>2. \A y \in S : y > z => y > x
      BY <1>6, <3>1
    <3>3. ~(z > z)
      BY <3>1
    <3> QED BY <1>5, <1>6, <3>2, <3>3
  <2> QED BY <1>3, <1>4, <2>1, <2>2
<1> QED BY <1>6

\* What the steps of a task store closes no cycle of what stands: at each step
\* the search has seen what the steps before have stored.
LEMMA StoredClosesNoCycle ==
  ASSUME RoundOK, NEW some \in SUBSET Steps, NEW stored \in Storings(some),
         NEW e \in Stored(stored), edge[e].row # "stale"
  PROVE  Source(e) \notin Downstream(Standing(Stored(stored)), Target(e))
<1> DEFINE Upto(n) == UNION {stored[r] : r \in {r \in some : r < n}}
           Bad(n) == e \in Upto(n) /\ Source(e) \in Downstream(Standing(Upto(n)), Target(e))
           Worst == {n \in Nat : Bad(n)}
<1>1. /\ DOMAIN stored = some /\ some \subseteq Nat
      /\ \A r \in some : /\ stored[r] \in SUBSET Edges /\ round.read[r] \in SUBSET Edges
                         /\ stored[r] = round.read[r] \ Cyclic(round.read[r], Upto(r))
  BY RoundFields DEF Storings, Stores
<1>2. e \in Edges /\ Source(e) \in Tables /\ Target(e) \in Tables
  BY StoredType, Ends
<1>3. \A new : Standing(new) \in SUBSET Edges
  BY DEF Standing
<1> SUFFICES ASSUME Source(e) \in Downstream(Standing(Stored(stored)), Target(e))
             PROVE  FALSE
  OBVIOUS
<1>4. Worst # {}
  <2>1. some # {}
    BY <1>1 DEF Stored
  <2>2. PICK last \in some : \A r \in some : r <= last
    BY <2>1, HasGreatest
  <2>3. last + 1 \in Nat /\ \A r \in some : r < last + 1
    BY <1>1, <2>2
  <2>4. {r \in some : r < last + 1} = some
    BY <2>3
  <2>5. Upto(last + 1) = Stored(stored)
    BY <1>1, <2>4 DEF Stored
  <2> QED BY <2>3, <2>5
<1>5. PICK n \in Nat : Bad(n) /\ \A m \in Nat : m < n => ~Bad(m)
  <2>1. Worst \in SUBSET Nat
    OBVIOUS
  <2>2. PICK n \in Worst : \A m \in Worst : n <= m
    <3> HIDE DEF Worst
    <3> QED BY <1>4, <2>1, HasLeast
  <2>3. n \in Nat /\ Bad(n)
    BY <2>2
  <2>4. \A m \in Nat : m < n => m \notin Worst
    BY <2>2, <2>3
  <2> QED BY <2>3, <2>4
<1>6. n # 0
  <2>0. \A r \in some : ~(r < 0)
    <3>1. \A r \in some : r \in Nat
      BY <1>1
    <3> QED BY <3>1
  <2>1. {r \in some : r < 0} = {}
    BY <2>0
  <2>2. Upto(0) = {}
    BY <2>1
  <2> QED BY <1>5, <2>2
<1> DEFINE k == n - 1
<1>7. k \in Nat /\ k < n /\ \A r \in some : r < n <=> r < k \/ r = k
  BY <1>1, <1>6
<1>8. ~Bad(k)
  BY <1>5, <1>7
<1>9. k \in some
  <2> SUFFICES ASSUME k \notin some PROVE FALSE
    OBVIOUS
  <2>1. {r \in some : r < n} = {r \in some : r < k}
    BY <1>7
  <2>2. Upto(n) = Upto(k)
    BY <2>1
  <2> QED BY <1>5, <1>8, <2>2
<1> HIDE DEF k
<1>10. Upto(n) = Upto(k) \cup stored[k]
  <2>1. {r \in some : r < n} = {r \in some : r < k} \cup {k}
    BY <1>7, <1>9
  <2> QED BY <2>1
<1> DEFINE F == Standing(Upto(k))
           N == {d \in stored[k] : edge[d].row # "stale"}
           P == round.read[k]
<1>11. Standing(Upto(n)) \subseteq F \cup N
  BY <1>1, <1>10 DEF Standing
<1>12. /\ F \in SUBSET Edges /\ N \in SUBSET Edges /\ N \subseteq P /\ F \cup P \in SUBSET Edges
  <2>1. stored[k] \in SUBSET Edges /\ P \in SUBSET Edges /\ stored[k] \subseteq P
    <3> HIDE DEF Upto
    <3> QED BY <1>1, <1>9
  <2>2. F \in SUBSET Edges
    BY <1>3
  <2> HIDE DEF F, P
  <2> QED BY <2>1, <2>2
<1>13. \A d \in N : Source(d) \notin Downstream(F \cup P, Target(d))
  BY <1>1, <1>9 DEF Cyclic
<1>14. \A d \in N : Source(d) \notin Downstream(F \cup N, Target(d))
  <2> SUFFICES ASSUME NEW d \in N PROVE Source(d) \notin Downstream(F \cup N, Target(d))
    OBVIOUS
  <2>1. Target(d) \in Tables /\ F \cup N \in SUBSET (F \cup P)
    BY <1>12, Ends
  <2>2. Downstream(F \cup N, Target(d)) \subseteq Downstream(F \cup P, Target(d))
    <3> HIDE DEF F, N, P
    <3> QED BY <1>12, <2>1, DownstreamGrows
  <2> QED BY <1>13, <2>2
<1>15. Source(e) \in Downstream(F \cup N, Target(e))
  <2>1. Source(e) \in Downstream(Standing(Upto(n)), Target(e))
    BY <1>5
  <2>2. Downstream(Standing(Upto(n)), Target(e)) \subseteq Downstream(F \cup N, Target(e))
    <3> HIDE DEF F, N, P, Upto
    <3> QED BY <1>2, <1>11, <1>12, DownstreamGrows
  <2> QED BY <2>1, <2>2
<1>16. e \in Upto(k)
  <2>1. e \notin N
    BY <1>14, <1>15
  <2>2. e \notin stored[k]
    BY <2>1
  <2> QED BY <1>5, <1>10, <2>2
<1>17. e \in F /\ Source(e) \notin Downstream(F, Target(e))
  BY <1>2, <1>8, <1>16 DEF Standing
<1> HIDE DEF F, N, P
<1> QED BY <1>12, <1>14, <1>15, <1>17, CycleThroughNew

\* The scan never writes a cycle: an edge it inserts or brings back from the
\* deleted ones is on no cycle of the edges shown then (_store_sqlglot_edges
\* with would_create_cycle_many).
THEOREM NoCycleWritten == Spec => InsertsCloseNoCycle
<1>1. Base /\ [Next]_vars =>
        \A e \in Edges : ~Present(edge[e]) /\ Present(edge'[e]) => ~OnCycle(e, edge')
  <2> SUFFICES ASSUME Base, [Next]_vars, NEW e \in Edges,
                      ~Present(edge[e]), Present(edge'[e])
               PROVE  ~OnCycle(e, edge')
    OBVIOUS
  <2>0. RoundOK /\ EdgeOK /\ edge \in [Edges -> Row]
    BY DEF Base, EdgeOK
  <2>1. \E some \in SUBSET Steps : \E stored \in Storings(some) : Upsert(Stored(stored))
    <3>1. ASSUME NEW t \in Tasks, NEW done \in Prefixes(t), ScanTask(t, done)
          PROVE  \E some \in SUBSET Steps : \E stored \in Storings(some) : Upsert(Stored(stored))
      <4> DEFINE some == (done \cap round.fresh) \ Complex
      <4>1. some \in SUBSET Steps
        BY <2>0, RoundFields
      <4>2. \E stored \in Storings(some) : Upsert(Stored(stored))
        BY <3>1 DEF ScanTask
      <4> HIDE DEF some
      <4> QED BY <4>1, <4>2
    <3>2. ASSUME NEW agreed \in SUBSET round.works, Judge(agreed)
          PROVE  \E some \in SUBSET Steps : \E stored \in Storings(some) : Upsert(Stored(stored))
      <4>1. agreed \in SUBSET Steps
        BY <2>0, RoundFields
      <4> QED BY <3>2, <4>1 DEF Judge
    <3>3. ~UNCHANGED edge
      OBVIOUS
    <3>4. ~\E d \in Edges : ConfirmStale(d) \/ RestoreStale(d)
      <4> SUFFICES ASSUME NEW d \in Edges, ConfirmStale(d) \/ RestoreStale(d) PROVE FALSE
        OBVIOUS
      <4>1. Present(edge[d]) /\ \A c \in Edges \ {d} : edge'[c] = edge[c]
        BY <2>0 DEF ConfirmStale, RestoreStale
      <4> QED BY <4>1
    <3>5. ~CloseEdges
      <4> SUFFICES ASSUME CloseEdges PROVE FALSE
        OBVIOUS
      <4>1. edge'[e] = edge[e]
        BY DEF CloseEdges, MarkSeen, MarkMissing
      <4> QED BY <4>1
    <3> QED BY <3>1, <3>2, <3>3, <3>4, <3>5
            DEF Next, Work, Edit, DropTask, TaskFails, ForceStop, Begin, DayPasses, Prefetch,
                Cut, AskVerdicts, CloseRun, Stop, JudgeFails, Abort, Crash, vars
  <2> PICK some \in SUBSET Steps : \E stored \in Storings(some) : Upsert(Stored(stored))
    BY <2>1
  <2>7. PICK stored \in Storings(some) : Upsert(Stored(stored))
    OBVIOUS
  <2>2. /\ \A d \in Edges \ Stored(stored) : edge'[d] = edge[d]
        /\ \A d \in Edges \cap Stored(stored) : edge'[d] = Upserted(edge[d])
    BY <2>7 DEF Upsert
  <2>3. e \in Stored(stored) /\ edge[e].row # "stale"
    BY <2>2 DEF Present
  <2>4. {d \in Edges : edge'[d].row = "active"} \subseteq Standing(Stored(stored))
    <3> SUFFICES ASSUME NEW d \in Edges, edge'[d].row = "active"
                 PROVE  d \in Standing(Stored(stored))
      OBVIOUS
    <3>1. CASE d \notin Stored(stored)
      BY <2>2, <3>1 DEF Standing
    <3>2. CASE d \in Stored(stored) /\ edge[d].row # "stale"
      BY <3>2 DEF Standing
    <3>3. CASE d \in Stored(stored) /\ edge[d].row = "stale"
      BY <2>2, <3>3 DEF Upserted
    <3> QED BY <3>1, <3>2, <3>3
  <2>5. Source(e) \notin Downstream(Standing(Stored(stored)), Target(e))
    BY <2>0, <2>1, <2>3, StoredClosesNoCycle
  <2>6. Standing(Stored(stored)) \in SUBSET Edges /\ Target(e) \in Tables
    BY Ends DEF Standing
  <2> QED BY <2>4, <2>5, <2>6, DownstreamGrows DEF OnCycle
<1> QED BY <1>1, Typed, PTL DEF Spec, InsertsCloseNoCycle
=============================================================================
