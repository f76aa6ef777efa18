------------------------ MODULE CircuitBreakerProofs ------------------------
(***************************************************************************)
(* Proofs about CircuitBreaker, for any number of workers, any thresholds  *)
(* and any timeouts: type correctness, that the cooling of one worker is   *)
(* respected by all, that a closed breaker opens only when it is due, and  *)
(* what it takes that one worker probes at a time.                         *)
(***************************************************************************)
EXTENDS CircuitBreaker, TLAPS

USE BreakerAssumption

\* A timer that counts down keeps its range.
LEMMA LessType ==
  ASSUME NEW m \in Nat, NEW n \in 0 .. m
  PROVE  Less(n) \in 0 .. m /\ (n = 0 => Less(n) = 0) /\ (n > 0 => Less(n) = n - 1)
BY DEF Less

LEMMA CooledType ==
  ASSUME NEW r \in Shared
  PROVE  /\ Cooled(r) \in Shared
         /\ Cooled(r).state = r.state
         /\ Cooled(r).cooling = Less(r.cooling)
BY LessType DEF Cooled, Shared

LEMMA RecordTypes == NoRecord \in Shared /\ OpenRecord \in Shared /\ ClosedRecord \in Shared
BY DEF NoRecord, OpenRecord, ClosedRecord, Shared

LEMMA Limits ==
  /\ 0 \in 0 .. Reset /\ Reset \in 0 .. Reset
  /\ 0 \in 0 .. ProbeTimeout /\ ProbeTimeout \in 0 .. ProbeTimeout
  /\ 0 \in 0 .. Threshold
OBVIOUS

\* One cell of a function is written.
LEMMA Written ==
  ASSUME NEW T, NEW f \in [Workers -> T], NEW w \in Workers, NEW x \in T
  PROVE  [f EXCEPT ![w] = x] \in [Workers -> T]
OBVIOUS

\* The window keeps its length.
LEMMA RememberedType ==
  ASSUME TypeOK, NEW w \in Workers, NEW ok \in BOOLEAN
  PROVE  Remembered(w, ok) \in Seq(BOOLEAN) /\ Len(Remembered(w, ok)) <= Window
<1> DEFINE longer == Append(outcomes[w], ok)
<1>1. outcomes[w] \in Seq(BOOLEAN) /\ Len(outcomes[w]) <= Window
  BY DEF TypeOK
<1>2. longer \in Seq(BOOLEAN) /\ Len(longer) = Len(outcomes[w]) + 1
  BY <1>1
<1>3. Tail(longer) \in Seq(BOOLEAN) /\ Len(Tail(longer)) = Len(outcomes[w])
  <2> HIDE DEF longer
  <2>1. longer # <<>>
    BY <1>1, <1>2
  <2> QED BY <1>1, <1>2, <2>1
<1> HIDE DEF longer
<1>4. CASE Len(longer) > Window
  BY <1>1, <1>3, <1>4 DEF Remembered, longer
<1>5. CASE ~(Len(longer) > Window)
  <2>1. Len(longer) <= Window
    BY <1>1, <1>2, <1>5
  <2> QED BY <1>2, <1>5, <2>1 DEF Remembered, longer
<1> QED BY <1>4, <1>5

\* What one worker does to its own view of the store.
LEMMA SaveType ==
  ASSUME TypeOK, NEW w \in Workers, NEW r \in {OpenRecord, ClosedRecord}, TrySave(w, r)
  PROVE  /\ shared' \in Shared
         /\ cache' \in [Workers -> Shared]
         /\ aged' \subseteq {v \in Workers : cache'[v].state # "NONE"}
<1>1. CASE Save(w, r)
  BY <1>1, RecordTypes DEF TypeOK, Save, OpenRecord, ClosedRecord
<1>2. CASE SaveFails(w, r)
  BY <1>2, RecordTypes DEF TypeOK, SaveFails
<1> QED BY <1>1, <1>2 DEF TrySave

LEMMA LoadType ==
  ASSUME TypeOK, NEW w \in Workers
  PROVE  Load(w) \in Shared /\ (cache[w].state # "NONE" => Load(w) = cache[w])
BY DEF Load, TypeOK

LEMMA EndType ==
  ASSUME TypeOK, NEW w \in Workers, End(w)
  PROVE  calls' \in [Workers -> 0 .. MaxCalls] /\ probes' \in [Workers -> 0 .. MaxCalls]
<1>1. calls[w] \in 0 .. MaxCalls /\ probes[w] \in 0 .. MaxCalls
  BY DEF TypeOK
<1>2. CASE calls[w] > 0 /\ calls' = [calls EXCEPT ![w] = @ - 1] /\ UNCHANGED probes
  <2>1. calls[w] - 1 \in 0 .. MaxCalls
    BY <1>1, <1>2
  <2> QED BY <1>2, <2>1, Written DEF TypeOK
<1>3. CASE probes[w] > 0 /\ probes' = [probes EXCEPT ![w] = @ - 1] /\ UNCHANGED calls
  <2>1. probes[w] - 1 \in 0 .. MaxCalls
    BY <1>1, <1>3
  <2> QED BY <1>3, <2>1, Written DEF TypeOK
<1> QED BY <1>2, <1>3 DEF End

\* One more request is within the bound.
LEMMA Raised ==
  ASSUME TypeOK, NEW w \in Workers, HasRoom(w)
  PROVE  /\ [calls EXCEPT ![w] = @ + 1] \in [Workers -> 0 .. MaxCalls]
         /\ [probes EXCEPT ![w] = @ + 1] \in [Workers -> 0 .. MaxCalls]
<1>1. calls[w] \in 0 .. MaxCalls /\ probes[w] \in 0 .. MaxCalls
  BY DEF TypeOK
<1>2. calls[w] + 1 \in 0 .. MaxCalls /\ probes[w] + 1 \in 0 .. MaxCalls
  BY <1>1 DEF HasRoom
<1> QED BY <1>2, Written DEF TypeOK

LEMMA AllowType ==
  ASSUME TypeOK, NEW w \in Workers, Allow(w)
  PROVE  TypeOK'
<1> USE DEF TypeOK
<1>1. CASE OpenOnErrorRate(w)
  <2>1. /\ open' \in [Workers -> BOOLEAN]
        /\ cooling' \in [Workers -> 0 .. Reset]
    BY <1>1, Limits DEF OpenOnErrorRate
  <2>2. TrySave(w, OpenRecord)
    BY <1>1 DEF OpenOnErrorRate
  <2>3. /\ shared' \in Shared
        /\ cache' \in [Workers -> Shared]
        /\ aged' \subseteq {v \in Workers : cache'[v].state # "NONE"}
    BY <2>2, SaveType
  <2> QED BY <1>1, <2>1, <2>3 DEF OpenOnErrorRate
<1>2. CASE Admit(w) \/ RefuseForPeer(w)
  <2>1. cache' = [cache EXCEPT ![w] = Load(w)] /\ UNCHANGED <<localVars, aged, shared, probeLock, probes>>
    BY <1>2 DEF Admit, RefuseForPeer
  <2>2. cache' \in [Workers -> Shared] /\ aged' \subseteq {v \in Workers : cache'[v].state # "NONE"}
    BY <2>1, LoadType
  <2>3. calls' \in [Workers -> 0 .. MaxCalls]
    <3>1. CASE Admit(w)
      BY <3>1, Raised DEF Admit
    <3>2. CASE RefuseForPeer(w)
      BY <3>2 DEF RefuseForPeer
    <3> QED BY <1>2, <3>1, <3>2
  <2> QED BY <2>1, <2>2, <2>3 DEF localVars
<1>3. CASE AdmitBlind(w)
  <2>1. calls' \in [Workers -> 0 .. MaxCalls]
    BY <1>3, Raised DEF AdmitBlind
  <2> QED BY <1>3, <2>1 DEF AdmitBlind, localVars
<1>4. CASE AdmitProbe(w) \/ AdmitProbeBlind(w)
  <2>1. StartProbe(w)
    BY <1>4 DEF AdmitProbe, AdmitProbeBlind
  <2>2. probes' \in [Workers -> 0 .. MaxCalls]
    BY <2>1, Raised DEF StartProbe
  <2>3. probing' \in [Workers -> BOOLEAN] /\ patience' \in [Workers -> 0 .. ProbeTimeout]
    BY <2>1, Limits DEF StartProbe
  <2>4. probeLock' \in 0 .. ProbeTimeout
    BY <1>4, Limits DEF AdmitProbe, AdmitProbeBlind
  <2> QED BY <2>1, <2>2, <2>3, <2>4 DEF StartProbe
<1>5. CASE RefuseProbe(w)
  <2>1. patience' \in [Workers -> 0 .. ProbeTimeout] /\ probing' \in [Workers -> BOOLEAN]
    BY <1>5, Limits DEF RefuseProbe
  <2> QED BY <1>5, <2>1 DEF RefuseProbe
<1> QED BY <1>1, <1>2, <1>3, <1>4, <1>5 DEF Allow

LEMMA RecordType ==
  ASSUME TypeOK, NEW w \in Workers, Record(w)
  PROVE  TypeOK'
<1>1. End(w)
  BY DEF Record, RecordFailure, RecordSuccess, LoseOutcome
<1>2. calls' \in [Workers -> 0 .. MaxCalls] /\ probes' \in [Workers -> 0 .. MaxCalls]
  BY <1>1, EndType
<1>3. ASSUME NEW ok \in BOOLEAN, outcomes' = [outcomes EXCEPT ![w] = Remembered(w, ok)]
      PROVE  /\ outcomes' \in [Workers -> Seq(BOOLEAN)]
             /\ \A v \in Workers : Len(outcomes'[v]) <= Window
  BY <1>3, RememberedType DEF TypeOK
<1>4. CASE RecordFailure(w)
  <2> DEFINE count == IF failures[w] < Threshold THEN failures[w] + 1 ELSE Threshold
  <2>1. count \in 0 .. Threshold
    BY DEF TypeOK
  <2>2. failures' \in [Workers -> 0 .. Threshold]
    BY <1>4, <2>1 DEF RecordFailure, TypeOK
  <2>3. probing' \in [Workers -> BOOLEAN] /\ patience' \in [Workers -> 0 .. ProbeTimeout]
    BY <1>4 DEF RecordFailure, ForgetProbe, TypeOK
  <2>4. CASE /\ open' = [open EXCEPT ![w] = TRUE]
             /\ cooling' = [cooling EXCEPT ![w] = Reset]
             /\ TrySave(w, OpenRecord)
    <3>1. /\ shared' \in Shared
          /\ cache' \in [Workers -> Shared]
          /\ aged' \subseteq {v \in Workers : cache'[v].state # "NONE"}
      BY <2>4, SaveType
    <3>2. open' \in [Workers -> BOOLEAN] /\ cooling' \in [Workers -> 0 .. Reset]
      BY <2>4, Limits DEF TypeOK
    <3> QED BY <1>2, <1>3, <1>4, <2>2, <2>3, <3>1, <3>2 DEF RecordFailure, TypeOK
  <2>5. CASE UNCHANGED <<open, cooling, cache, aged, shared>>
    BY <1>2, <1>3, <1>4, <2>2, <2>3, <2>5 DEF RecordFailure, TypeOK
  <2> QED BY <1>4, <2>4, <2>5 DEF RecordFailure
<1>5. CASE RecordSuccess(w)
  <2>1. probing' \in [Workers -> BOOLEAN] /\ patience' \in [Workers -> 0 .. ProbeTimeout]
    BY <1>5 DEF RecordSuccess, SucceededProbe, ForgetProbe, TypeOK
  <2>2. /\ failures' \in [Workers -> 0 .. Threshold]
        /\ open' \in [Workers -> BOOLEAN]
        /\ cooling' \in [Workers -> 0 .. Reset]
    BY <1>5 DEF RecordSuccess, TypeOK
  <2>3. CASE TrySave(w, ClosedRecord) /\ ReleaseProbeLock(w)
    <3>1. /\ shared' \in Shared
          /\ cache' \in [Workers -> Shared]
          /\ aged' \subseteq {v \in Workers : cache'[v].state # "NONE"}
      BY <2>3, SaveType
    <3> QED BY <1>2, <1>3, <1>5, <2>1, <2>2, <2>3, <3>1, Limits DEF RecordSuccess, ReleaseProbeLock, TypeOK
  <2>4. CASE UNCHANGED <<cache, aged, shared, probeLock>>
    BY <1>2, <1>3, <1>5, <2>1, <2>2, <2>4 DEF RecordSuccess, TypeOK
  <2> QED BY <1>5, <2>3, <2>4 DEF RecordSuccess
<1>6. CASE LoseOutcome(w)
  BY <1>2, <1>6 DEF LoseOutcome, localVars, TypeOK
<1> QED BY <1>4, <1>5, <1>6 DEF Record

LEMMA TickType ==
  ASSUME TypeOK, Tick
  PROVE  TypeOK'
<1>1. /\ cooling' \in [Workers -> 0 .. Reset]
      /\ patience' \in [Workers -> 0 .. ProbeTimeout]
      /\ probeLock' \in 0 .. ProbeTimeout
  BY LessType DEF Tick, TypeOK
<1>2. shared' \in Shared
  BY CooledType DEF Tick, TypeOK
<1>3. \A w \in Workers : ViewAfterTick(w) \in Shared
  BY CooledType, RecordTypes DEF ViewAfterTick, TypeOK
<1>4. cache' \in [Workers -> Shared] /\ aged' \subseteq {w \in Workers : cache'[w].state # "NONE"}
  BY <1>3 DEF Tick
<1> QED BY <1>1, <1>2, <1>4 DEF Tick, TypeOK

LEMMA RestartType ==
  ASSUME TypeOK, NEW w \in Workers, Restart(w)
  PROVE  TypeOK'
<1> USE DEF TypeOK
<1>1. open' \in [Workers -> BOOLEAN] /\ cooling' \in [Workers -> 0 .. Reset]
  BY Limits DEF Restart
<1>2. failures' \in [Workers -> 0 .. Threshold]
  BY Limits DEF Restart
<1>3. /\ outcomes' \in [Workers -> Seq(BOOLEAN)]
      /\ \A v \in Workers : Len(outcomes'[v]) <= Window
  <2>1. outcomes' = [outcomes EXCEPT ![w] = <<>>]
    BY DEF Restart
  <2>2. <<>> \in Seq(BOOLEAN) /\ Len(<<>>) = 0
    OBVIOUS
  <2>3. outcomes' \in [Workers -> Seq(BOOLEAN)]
    BY <2>1, <2>2, Written
  <2>4. \A v \in Workers : outcomes'[v] = IF v = w THEN <<>> ELSE outcomes[v]
    BY <2>1
  <2> QED BY <2>2, <2>3, <2>4
<1>4. probing' \in [Workers -> BOOLEAN] /\ patience' \in [Workers -> 0 .. ProbeTimeout]
  BY DEF Restart, ForgetProbe
<1>5. cache' \in [Workers -> Shared] /\ aged' \subseteq {v \in Workers : cache'[v].state # "NONE"}
  BY RecordTypes DEF Restart
<1>6. calls' \in [Workers -> 0 .. MaxCalls] /\ probes' \in [Workers -> 0 .. MaxCalls]
  <2>1. 0 \in 0 .. MaxCalls
    OBVIOUS
  <2> QED BY <2>1, Written DEF Restart
<1> QED BY <1>1, <1>2, <1>3, <1>4, <1>5, <1>6 DEF Restart

LEMMA TypeNext == TypeOK /\ [Next]_vars => TypeOK'
<1> SUFFICES ASSUME TypeOK, [Next]_vars PROVE TypeOK'
  OBVIOUS
<1>1. ASSUME NEW w \in Workers, Allow(w) \/ Record(w) \/ ForgetView(w) \/ Restart(w)
      PROVE  TypeOK'
  <2>1. CASE ForgetView(w)
    BY <2>1, RecordTypes DEF ForgetView, TypeOK, localVars
  <2> QED BY <1>1, <2>1, AllowType, RecordType, RestartType
<1>2. CASE UNCHANGED vars
  BY <1>2 DEF vars, TypeOK
<1> QED BY <1>1, <1>2, TickType DEF Next

\* Type correctness of the breakers, the store and the cached views.
THEOREM TypeCorrect == Spec => []TypeOK
<1>1. Init => TypeOK
  BY RecordTypes DEF Init, TypeOK
<1> QED BY <1>1, TypeNext, PTL DEF Spec

-----------------------------------------------------------------------------
(***************************************************************************)
(* Why a worker respects the cooling of another: a cached view that the    *)
(* store has outrun since is one of the last second.                       *)
(***************************************************************************)
UpToDate(w) == cache[w].state = "NONE" \/ cache[w] = shared
ViewInv ==
  shared.state = "OPEN" =>
    \A w \in Workers : \/ UpToDate(w)
                       \/ shared.cooling = Reset
                       \/ shared.cooling = Reset - 1 /\ w \in aged

LEMMA SaveView ==
  ASSUME ViewInv, NEW w \in Workers, NEW r \in {OpenRecord, ClosedRecord}, TrySave(w, r)
  PROVE  ViewInv'
<1>1. CASE shared' = r
  BY <1>1 DEF ViewInv, OpenRecord, ClosedRecord
<1>2. CASE UNCHANGED <<cache, aged, shared>>
  BY <1>2 DEF ViewInv, UpToDate
<1> QED BY <1>1, <1>2 DEF TrySave, Save, SaveFails

LEMMA TickView ==
  ASSUME TypeOK, ViewInv, Tick
  PROVE  ViewInv'
<1> SUFFICES ASSUME shared'.state = "OPEN", NEW w \in Workers
             PROVE  \/ cache'[w].state = "NONE" \/ cache'[w] = shared'
                    \/ shared'.cooling = Reset - 1 /\ w \in aged'
  BY DEF ViewInv, UpToDate
<1>1. shared \in Shared /\ shared.cooling \in 0 .. Reset
  BY DEF TypeOK, Shared
<1>2. /\ shared' = Cooled(shared) /\ shared.state = "OPEN"
      /\ shared'.cooling = Less(shared.cooling)
  BY <1>1, CooledType DEF Tick
<1>3. cache'[w] = IF w \in aged THEN NoRecord ELSE Cooled(cache[w])
  BY DEF Tick, ViewAfterTick
<1>4. CASE w \in aged
  BY <1>3, <1>4 DEF NoRecord
<1>5. CASE w \notin aged /\ UpToDate(w)
  <2>1. cache[w] \in Shared
    BY DEF TypeOK
  <2> QED BY <1>2, <1>3, <1>5, <2>1, CooledType DEF UpToDate
<1>6. CASE w \notin aged /\ shared.cooling = Reset
  <2>1. shared'.cooling = Reset - 1
    BY <1>2, <1>6 DEF Less
  <2>2. cache'[w].state = "NONE" \/ w \in aged'
    BY DEF Tick
  <2> QED BY <2>1, <2>2
<1> QED BY <1>2, <1>4, <1>5, <1>6 DEF ViewInv

LEMMA ViewNext == TypeOK /\ ViewInv /\ [Next]_vars => ViewInv'
<1> SUFFICES ASSUME TypeOK, ViewInv, [Next]_vars PROVE ViewInv'
  OBVIOUS
<1>1. ASSUME UNCHANGED <<cache, aged, shared>> PROVE ViewInv'
  BY <1>1 DEF ViewInv, UpToDate
<1>2. ASSUME NEW w \in Workers, Allow(w) PROVE ViewInv'
  <2>1. CASE OpenOnErrorRate(w)
    BY <2>1, SaveView DEF OpenOnErrorRate
  <2>2. CASE Admit(w) \/ RefuseForPeer(w)
    <3>1. cache' = [cache EXCEPT ![w] = Load(w)] /\ UNCHANGED <<aged, shared>>
      BY <2>2 DEF Admit, RefuseForPeer
    <3>2. \A v \in Workers : cache'[v] = cache[v] \/ cache'[v] = shared
      BY <3>1 DEF Load, TypeOK
    <3> QED BY <3>1, <3>2 DEF ViewInv, UpToDate
  <2>3. CASE AdmitBlind(w) \/ AdmitProbe(w) \/ AdmitProbeBlind(w) \/ RefuseProbe(w)
    BY <1>1, <2>3 DEF AdmitBlind, AdmitProbe, AdmitProbeBlind, StartProbe, RefuseProbe
  <2> QED BY <1>2, <2>1, <2>2, <2>3 DEF Allow
<1>3. ASSUME NEW w \in Workers, Record(w) PROVE ViewInv'
  BY <1>1, <1>3, SaveView DEF Record, RecordFailure, RecordSuccess, LoseOutcome
<1>4. ASSUME NEW w \in Workers, ForgetView(w) \/ Restart(w) PROVE ViewInv'
  <2>1. /\ shared' = shared
        /\ \A v \in Workers : v # w => cache'[v] = cache[v] /\ (v \in aged => v \in aged')
        /\ cache'[w].state = "NONE"
    BY <1>4 DEF ForgetView, Restart, TypeOK, NoRecord
  <2> QED BY <2>1 DEF ViewInv, UpToDate
<1>5. CASE UNCHANGED vars
  BY <1>1, <1>5 DEF vars
<1> QED BY <1>2, <1>3, <1>4, <1>5, TickView DEF Next

\* Only allow admits an ordinary call.
LEMMA OnlyAdmitAdmits ==
  ASSUME TypeOK, [Next]_vars, NEW w \in Workers, Admits(w)
  PROVE  Admit(w) \/ AdmitBlind(w)
<1>1. calls[w] \in Nat
  BY DEF TypeOK
<1>2. calls'[w] > calls[w]
  BY DEF Admits
<1>3. ASSUME NEW v \in Workers, Record(v) PROVE FALSE
  <2>1. calls' = [calls EXCEPT ![v] = @ - 1] \/ UNCHANGED calls
    BY <1>3 DEF Record, RecordFailure, RecordSuccess, LoseOutcome, End
  <2>2. calls'[w] = calls[w] \/ calls'[w] = calls[w] - 1
    BY <2>1 DEF TypeOK
  <2> QED BY <1>1, <1>2, <2>2
<1>4. ASSUME NEW v \in Workers, Allow(v), ~Admit(v), ~AdmitBlind(v) PROVE FALSE
  BY <1>1, <1>2, <1>4 DEF Allow, OpenOnErrorRate, RefuseForPeer, AdmitProbe, AdmitProbeBlind,
                          StartProbe, RefuseProbe
<1>5. ASSUME NEW v \in Workers, Admit(v) \/ AdmitBlind(v) PROVE v = w
  <2>1. calls' = [calls EXCEPT ![v] = @ + 1]
    BY <1>5 DEF Admit, AdmitBlind
  <2>2. v # w => calls'[w] = calls[w]
    BY <2>1 DEF TypeOK
  <2> QED BY <1>1, <1>2, <2>2
<1>6. ASSUME NEW v \in Workers, ForgetView(v) PROVE FALSE
  BY <1>1, <1>2, <1>6 DEF ForgetView
<1>7. ASSUME NEW v \in Workers, Restart(v) PROVE FALSE
  BY <1>1, <1>2, <1>7 DEF Restart, TypeOK
<1>8. ASSUME Tick \/ UNCHANGED vars PROVE FALSE
  BY <1>1, <1>2, <1>8 DEF Tick, vars
<1> QED BY <1>3, <1>4, <1>5, <1>6, <1>7, <1>8 DEF Next

\* While the store says that a worker is cooling down, a worker lets an
\* ordinary call pass only when it cannot read the store, but for the second
\* in which it may still use its view.
THEOREM CoolingRespected == Spec => CoolingIsShared
<1>1. Init => ViewInv
  BY DEF Init, ViewInv, NoRecord
<1>2. TypeOK /\ ViewInv /\ [Next]_vars
        => \A w \in Workers :
             shared.state = "OPEN" /\ 0 < shared.cooling /\ shared.cooling < Reset - 1 /\ Admits(w)
             => cache'[w].state = "NONE"
  <2> SUFFICES ASSUME TypeOK, ViewInv, [Next]_vars, NEW w \in Workers, Admits(w),
                      shared.state = "OPEN", 0 < shared.cooling, shared.cooling < Reset - 1
               PROVE  cache'[w].state = "NONE"
    OBVIOUS
  <2>1. shared.cooling \in 0 .. Reset
    BY DEF TypeOK, Shared
  <2>2. UpToDate(w)
    BY <2>1 DEF ViewInv
  <2>3. Load(w) = shared
    BY <2>2 DEF UpToDate, Load
  <2>4. ~Admit(w)
    BY <2>3 DEF Admit, PeerOpen
  <2>5. AdmitBlind(w)
    BY <2>4, OnlyAdmitAdmits
  <2> QED BY <2>5 DEF AdmitBlind
<1> QED BY <1>1, <1>2, ViewNext, TypeCorrect, PTL DEF Spec, CoolingIsShared

-----------------------------------------------------------------------------
(***************************************************************************)
(* A breaker that probes is open: closing it forgets the probe, so no      *)
(* failure of the closed phase is taken for that of a probe.               *)
(***************************************************************************)
ProbeInv == \A w \in Workers : probing[w] => open[w]

LEMMA ProbeNext == TypeOK /\ ProbeInv /\ [Next]_vars => ProbeInv'
<1> SUFFICES ASSUME TypeOK, ProbeInv, [Next]_vars PROVE ProbeInv'
  OBVIOUS
<1> USE DEF ProbeInv, TypeOK
<1>1. ASSUME NEW w \in Workers, Allow(w) PROVE ProbeInv'
  BY <1>1 DEF Allow, OpenOnErrorRate, Admit, AdmitBlind, RefuseForPeer, AdmitProbe,
              AdmitProbeBlind, StartProbe, RefuseProbe, HalfOpen, localVars
<1>2. ASSUME NEW w \in Workers, Record(w) PROVE ProbeInv'
  BY <1>2 DEF Record, RecordFailure, RecordSuccess, LoseOutcome, ForgetProbe,
              SucceededProbe, localVars
<1>3. ASSUME NEW w \in Workers, ForgetView(w) \/ Restart(w) PROVE ProbeInv'
  BY <1>3 DEF ForgetView, Restart, ForgetProbe, localVars
<1>4. CASE Tick \/ UNCHANGED vars
  BY <1>4 DEF Tick, vars
<1> QED BY <1>1, <1>2, <1>3, <1>4 DEF Next

\* A closed breaker opens after Threshold failures in a row or on a bad
\* window, never because a failure is attributed to a probe of the past.
THEOREM OpensOnlyWhenDue == Spec => OpensWhenDue
<1>1. Init => ProbeInv
  BY DEF Init, ProbeInv
<1>2. TypeOK /\ ProbeInv /\ [Next]_vars
        => \A w \in Workers : ~open[w] /\ open'[w] => failures'[w] = Threshold \/ RateTooHigh(w)
  <2> SUFFICES ASSUME TypeOK, ProbeInv, [Next]_vars, NEW w \in Workers, ~open[w], open'[w]
               PROVE  failures'[w] = Threshold \/ RateTooHigh(w)
    OBVIOUS
  <2>1. ASSUME NEW v \in Workers, OpenOnErrorRate(v) PROVE RateTooHigh(w)
    BY <2>1 DEF OpenOnErrorRate, TypeOK
  <2>2. ASSUME NEW v \in Workers, RecordFailure(v) PROVE failures'[w] = Threshold
    <3>1. v = w
      BY <2>2 DEF RecordFailure, TypeOK
    <3> DEFINE count == IF failures[w] < Threshold THEN failures[w] + 1 ELSE Threshold
    <3>2. probing[w] \/ count = Threshold
      BY <2>2, <3>1 DEF RecordFailure
    <3>3. failures' = [failures EXCEPT ![w] = count]
      BY <2>2, <3>1 DEF RecordFailure
    <3> HIDE DEF count
    <3> QED BY <3>2, <3>3 DEF ProbeInv, TypeOK
  <2>3. ASSUME NEW v \in Workers, RecordSuccess(v) PROVE FALSE
    BY <2>3 DEF RecordSuccess, TypeOK
  <2>4. ASSUME UNCHANGED open PROVE FALSE
    BY <2>4
  <2>5. ASSUME NEW v \in Workers, Restart(v) PROVE FALSE
    BY <2>5 DEF Restart, TypeOK
  <2> QED BY <2>1, <2>2, <2>3, <2>4, <2>5 DEF Next, Allow, Record, Admit, AdmitBlind,
             RefuseForPeer, AdmitProbe, AdmitProbeBlind, StartProbe, RefuseProbe, LoseOutcome,
             ForgetView, Tick, localVars, vars
<1> QED BY <1>1, <1>2, ProbeNext, TypeCorrect, PTL DEF Spec, OpensWhenDue

-----------------------------------------------------------------------------
(***************************************************************************)
(* What a lock of its prober would give.  OneProber fails in the code, for *)
(* a success deletes the lock of whoever has it, and a worker that cannot  *)
(* ask for the lock probes without it.  There is no other reason.          *)
(***************************************************************************)
ProbeRuns(w) == probing[w] /\ patience[w] > 0

\* The lock runs out, or its prober ends the probe.
OwnRelease ==
  probeLock > 0 /\ probeLock' = 0
  => Tick \/ \E w \in Workers : ProbeRuns(w) /\ ~probing'[w]
LocksAreOwn == [][OwnRelease]_vars

\* Who probes has been given the lock.
AskedFor == \A w \in Workers : AdmitProbeBlind(w) => AdmitProbe(w)
ProbesAreAskedFor == [][AskedFor]_vars

\* The lock lasts as long as the probe, and is that of one prober.
LockInv ==
  \A w \in Workers : ProbeRuns(w) => /\ probeLock = patience[w]
                                     /\ \A v \in Workers : ProbeRuns(v) => v = w

\* A step that starts no probe keeps what is known of the lock.
LEMMA NoProbeStarts ==
  ASSUME TypeOK, LockInv, OwnRelease, ~Tick, probeLock' = probeLock \/ probeLock' = 0,
         \A w \in Workers : ProbeRuns(w)' => ProbeRuns(w) /\ patience'[w] = patience[w]
  PROVE  LockInv'
<1> SUFFICES ASSUME NEW w \in Workers, ProbeRuns(w)'
             PROVE  /\ probeLock' = patience'[w]
                    /\ \A v \in Workers : ProbeRuns(v)' => v = w
  BY DEF LockInv
<1>1. /\ ProbeRuns(w) /\ probeLock = patience[w] /\ patience[w] > 0 /\ probing'[w]
      /\ \A v \in Workers : ProbeRuns(v) => v = w
  BY DEF LockInv, ProbeRuns
<1>2. probeLock' = probeLock
  BY <1>1 DEF OwnRelease
<1> QED BY <1>1, <1>2

LEMMA LockNext == TypeOK /\ LockInv /\ OwnRelease /\ AskedFor /\ [Next]_vars => LockInv'
<1> SUFFICES ASSUME TypeOK, LockInv, OwnRelease, AskedFor, [Next]_vars PROVE LockInv'
  OBVIOUS
<1>1. ASSUME Tick PROVE LockInv'
  <2>1. /\ probing' = probing /\ probeLock' = Less(probeLock)
        /\ \A w \in Workers : patience'[w] = Less(patience[w]) /\ patience[w] \in 0 .. ProbeTimeout
    BY <1>1 DEF Tick, TypeOK
  <2>2. \A w \in Workers : ProbeRuns(w)' => ProbeRuns(w)
    BY <2>1, LessType DEF ProbeRuns
  <2> QED BY <2>1, <2>2 DEF LockInv
<1> SUFFICES ASSUME ~Tick PROVE LockInv'
  BY <1>1
<1>2. ASSUME UNCHANGED <<probing, patience, probeLock>> PROVE LockInv'
  BY <1>2, NoProbeStarts DEF ProbeRuns
<1>3. ASSUME NEW w \in Workers, ForgetProbe(w), probeLock' = probeLock \/ probeLock' = 0
      PROVE  LockInv'
  <2>1. \A v \in Workers : ProbeRuns(v)' => ProbeRuns(v) /\ patience'[v] = patience[v]
    BY <1>3 DEF ForgetProbe, ProbeRuns, TypeOK
  <2> QED BY <1>3, <2>1, NoProbeStarts
<1>4. ASSUME NEW w \in Workers, AdmitProbe(w) PROVE LockInv'
  <2>1. /\ probeLock = 0 /\ probeLock' = ProbeTimeout /\ patience'[w] = ProbeTimeout
        /\ \A v \in Workers : v # w => probing'[v] = probing[v] /\ patience'[v] = patience[v]
    BY <1>4 DEF AdmitProbe, StartProbe, TypeOK
  <2>2. \A v \in Workers : ~ProbeRuns(v)
    BY <2>1 DEF LockInv, ProbeRuns, TypeOK
  <2>3. \A v \in Workers : ProbeRuns(v)' => v = w
    BY <2>1, <2>2 DEF ProbeRuns
  <2> QED BY <2>1, <2>3 DEF LockInv
<1>5. ASSUME NEW w \in Workers, Allow(w) PROVE LockInv'
  <2>1. CASE OpenOnErrorRate(w) \/ Admit(w) \/ AdmitBlind(w) \/ RefuseForPeer(w)
    BY <1>2, <2>1 DEF OpenOnErrorRate, Admit, AdmitBlind, RefuseForPeer, localVars
  <2>2. CASE AdmitProbe(w) \/ AdmitProbeBlind(w)
    BY <1>4, <2>2 DEF AskedFor
  <2>3. CASE RefuseProbe(w)
    BY <1>3, <2>3 DEF RefuseProbe, ForgetProbe
  <2> QED BY <1>5, <2>1, <2>2, <2>3 DEF Allow
<1>6. ASSUME NEW w \in Workers, Record(w) PROVE LockInv'
  <2>1. CASE RecordFailure(w) \/ RecordSuccess(w)
    BY <1>3, <2>1 DEF RecordFailure, RecordSuccess, SucceededProbe, ReleaseProbeLock
  <2>2. CASE LoseOutcome(w)
    BY <1>2, <2>2 DEF LoseOutcome, localVars
  <2> QED BY <1>6, <2>1, <2>2 DEF Record
<1>7. ASSUME NEW w \in Workers, ForgetView(w) \/ Restart(w) PROVE LockInv'
  BY <1>2, <1>3, <1>7 DEF ForgetView, Restart, localVars
<1>8. CASE UNCHANGED vars
  BY <1>2, <1>8 DEF vars
<1> QED BY <1>5, <1>6, <1>7, <1>8 DEF Next

\* One worker probes at a time if the lock is asked for and, until it runs
\* out, given back by its prober only: whatever is lost, restarted or late.
THEOREM ProbersNeedOwnLocks == Spec /\ LocksAreOwn /\ ProbesAreAskedFor => []OneProber
<1>1. Init => LockInv
  BY DEF Init, LockInv, ProbeRuns
<1>2. LockInv => OneProber
  BY DEF LockInv, OneProber, ProbeRuns
<1>3. TypeOK /\ LockInv /\ [Next]_vars /\ [OwnRelease]_vars /\ [AskedFor]_vars => LockInv'
  <2>1. UNCHANGED vars => UNCHANGED <<probing, patience, probeLock>>
    BY DEF vars
  <2>2. LockInv /\ UNCHANGED <<probing, patience, probeLock>> => LockInv'
    BY DEF LockInv, ProbeRuns
  <2> QED BY <2>1, <2>2, LockNext
<1> QED BY <1>1, <1>2, <1>3, TypeCorrect, PTL DEF Spec, LocksAreOwn, ProbesAreAskedFor
=============================================================================
