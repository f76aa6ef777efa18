--------------------------- MODULE CircuitBreaker ---------------------------
(***************************************************************************)
(* The circuit breakers that the worker processes of one host keep for ONE *)
(* dependency, and the Redis store through which they coordinate.  A       *)
(* breaker is local: closed, open (cooling down), or half-open, when one   *)
(* probe may pass.  The store shows the others that somebody has opened,   *)
(* and holds a lock so that one worker probes at a time.                   *)
(*                                                                         *)
(* allow, record_success and record_failure do not await, so each is one   *)
(* action; the call between them is not, and its outcome is recorded on    *)
(* whatever breaker it finds, whether it was the probe or an older call.   *)
(*                                                                         *)
(* Time is counted in ticks of the local cache's second (_STORE_CACHE_TTL):*)
(* a cached view of the store lives on into the next tick and is gone      *)
(* before or with the one after it.  All timers count down to 0.  A        *)
(* record in the store is only looked at while its cooling lasts, so its   *)
(* own, longer TTL is left out.                                            *)
(*                                                                         *)
(* Any call of the store may fail, and a write that fails may have been    *)
(* carried out.  A save writes its two keys together, and a load reads them *)
(* together.  What listeners do with a change of state is left out.        *)
(***************************************************************************)
EXTENDS Integers, Sequences, FiniteSets

CONSTANTS
  Workers,       \* processes
  Threshold,     \* failure_threshold, consecutive failures
  Window,        \* error_rate_window, 0 when error_rate_threshold is None
  MaxBad,        \* failures a full window tolerates
  Reset,         \* reset_timeout
  ProbeTimeout,  \* probe_timeout, max(reset_timeout, 10 s)
  MaxCalls,      \* bound: calls in flight per worker
  CutOff,        \* workers whose calls of the store may fail
  Restarting     \* workers that may be restarted

ASSUME BreakerAssumption ==
  /\ Threshold \in Nat \ {0}
  /\ Window \in Nat /\ MaxBad \in Nat
  /\ Reset \in Nat \ {0}
  /\ ProbeTimeout \in Nat /\ ProbeTimeout >= Reset
  /\ MaxCalls \in Nat \ {0}
ASSUME FaultsAssumption == CutOff \subseteq Workers /\ Restarting \subseteq Workers

VARIABLES
  open,       \* open[w]: _open
  cooling,    \* cooling[w]: time left of reset_timeout since _opened_at
  failures,   \* failures[w]: consecutive failures, counted up to Threshold
  outcomes,   \* outcomes[w]: _recent_outcomes, TRUE for a success
  probing,    \* probing[w]: _probing
  patience,   \* patience[w]: time left of probe_timeout since _probing_since
  cache,      \* cache[w]: what w remembers of the store
  aged,       \* workers whose cached view is of the last tick
  shared,     \* cb:<dep>:state and :opened_at
  probeLock,  \* time left of cb:<dep>:probing, 0 when there is no lock
  calls,      \* calls[w]: ordinary calls in flight
  probes      \* probes[w]: probe calls in flight

localVars == <<open, cooling, failures, outcomes, probing, patience>>
vars == <<open, cooling, failures, outcomes, probing, patience, cache, aged,
          shared, probeLock, calls, probes>>

\* a state of the store: cooling is what is left of reset_timeout
Shared == [state : {"NONE", "OPEN", "CLOSED"}, cooling : 0 .. Reset]
NoRecord == [state |-> "NONE", cooling |-> 0]
OpenRecord == [state |-> "OPEN", cooling |-> Reset]
ClosedRecord == [state |-> "CLOSED", cooling |-> 0]

Init ==
  /\ open = [w \in Workers |-> FALSE]
  /\ cooling = [w \in Workers |-> 0]
  /\ failures = [w \in Workers |-> 0]
  /\ outcomes = [w \in Workers |-> <<>>]
  /\ probing = [w \in Workers |-> FALSE]
  /\ patience = [w \in Workers |-> 0]
  /\ cache = [w \in Workers |-> NoRecord]
  /\ aged = {}
  /\ shared = NoRecord
  /\ probeLock = 0
  /\ calls = [w \in Workers |-> 0]
  /\ probes = [w \in Workers |-> 0]

-----------------------------------------------------------------------------
(* The store *)

\* _load_shared_state; a missing record is not cached
Load(w) == IF cache[w].state # "NONE" THEN cache[w] ELSE shared

\* _save_shared_state
Save(w, record) ==
  /\ shared' = record
  /\ cache' = [cache EXCEPT ![w] = record]
  /\ aged' = aged \ {w}

\* the exception is swallowed; the store may have been written all the same
SaveFails(w, record) ==
  /\ w \in CutOff
  /\ shared' \in {shared, record}
  /\ UNCHANGED <<cache, aged>>

TrySave(w, record) == Save(w, record) \/ SaveFails(w, record)

\* the worker's own second is over
ForgetView(w) ==
  /\ w \in aged
  /\ cache' = [cache EXCEPT ![w] = NoRecord]
  /\ aged' = aged \ {w}
  /\ UNCHANGED <<localVars, shared, probeLock, calls, probes>>

PeerOpen(record) == record.state = "OPEN" /\ record.cooling > 0

-----------------------------------------------------------------------------
(* allow *)

HasRoom(w) == calls[w] + probes[w] < MaxCalls

Bad(seq) == Cardinality({n \in 1 .. Len(seq) : ~seq[n]})

\* _error_rate_should_open
RateTooHigh(w) == Window > 0 /\ Len(outcomes[w]) = Window /\ Bad(outcomes[w]) > MaxBad

\* 1. the error rate opens the breaker; the call is refused
OpenOnErrorRate(w) ==
  /\ ~open[w] /\ RateTooHigh(w)
  /\ open' = [open EXCEPT ![w] = TRUE]
  /\ cooling' = [cooling EXCEPT ![w] = Reset]
  /\ TrySave(w, OpenRecord)
  /\ UNCHANGED <<failures, outcomes, probing, patience, probeLock, calls, probes>>

\* 2. locally closed: passes unless another worker has opened
Admit(w) ==
  /\ ~open[w] /\ ~RateTooHigh(w)
  /\ ~PeerOpen(Load(w))
  /\ HasRoom(w)
  /\ calls' = [calls EXCEPT ![w] = @ + 1]
  /\ cache' = [cache EXCEPT ![w] = Load(w)]
  /\ UNCHANGED <<localVars, aged, shared, probeLock, probes>>

\* a store that cannot be read stops nobody
AdmitBlind(w) ==
  /\ w \in CutOff
  /\ ~open[w] /\ ~RateTooHigh(w)
  /\ cache[w].state = "NONE"
  /\ HasRoom(w)
  /\ calls' = [calls EXCEPT ![w] = @ + 1]
  /\ UNCHANGED <<localVars, cache, aged, shared, probeLock, probes>>

RefuseForPeer(w) ==
  /\ ~open[w] /\ ~RateTooHigh(w)
  /\ PeerOpen(Load(w))
  /\ cache' = [cache EXCEPT ![w] = Load(w)]
  /\ UNCHANGED <<localVars, aged, shared, probeLock, calls, probes>>

\* 4. half-open.  A probe whose outcome was never recorded is given up after
\* probe_timeout.
ProbeNeverLost(w) == ~probing[w]
ProbeIsDue(w) == ~probing[w] \/ patience[w] = 0

HalfOpen(w) == open[w] /\ cooling[w] = 0 /\ ProbeIsDue(w)

StartProbe(w) ==
  /\ HalfOpen(w)
  /\ HasRoom(w)
  /\ probing' = [probing EXCEPT ![w] = TRUE]
  /\ patience' = [patience EXCEPT ![w] = ProbeTimeout]
  /\ probes' = [probes EXCEPT ![w] = @ + 1]
  /\ UNCHANGED <<open, cooling, failures, outcomes, cache, aged, shared, calls>>

AdmitProbe(w) ==
  /\ StartProbe(w)
  /\ probeLock = 0
  /\ probeLock' = ProbeTimeout

\* a lock that cannot be asked for stops nobody, and may be taken all the same
AdmitProbeBlind(w) ==
  /\ w \in CutOff
  /\ StartProbe(w)
  /\ \/ UNCHANGED probeLock
     \/ probeLock = 0 /\ probeLock' = ProbeTimeout

\* another worker has the lock; the lost probe is forgotten all the same
RefuseProbe(w) ==
  /\ HalfOpen(w)
  /\ probeLock > 0
  /\ probing' = [probing EXCEPT ![w] = FALSE]
  /\ patience' = [patience EXCEPT ![w] = 0]
  /\ UNCHANGED <<open, cooling, failures, outcomes, cache, aged, shared, probeLock, calls, probes>>

-----------------------------------------------------------------------------
(* Outcomes *)

\* a call in flight ends: an ordinary one, or a probe
End(w) ==
  \/ calls[w] > 0 /\ calls' = [calls EXCEPT ![w] = @ - 1] /\ UNCHANGED probes
  \/ probes[w] > 0 /\ probes' = [probes EXCEPT ![w] = @ - 1] /\ UNCHANGED calls

\* deque(maxlen = Window)
RememberedAll(w, ok) == Append(outcomes[w], ok)
Remembered(w, ok) ==
  LET longer == Append(outcomes[w], ok)
  IN IF Len(longer) > Window THEN Tail(longer) ELSE longer

ForgetProbe(w) ==
  /\ probing' = [probing EXCEPT ![w] = FALSE]
  /\ patience' = [patience EXCEPT ![w] = 0]

KeepProbe(w) == UNCHANGED <<probing, patience>>
SucceededProbe(w) == ForgetProbe(w)

\* the failure of a probe opens the breaker again at once
RecordFailure(w) ==
  LET count == IF failures[w] < Threshold THEN failures[w] + 1 ELSE Threshold
      opens == probing[w] \/ count = Threshold
  IN /\ End(w)
     /\ failures' = [failures EXCEPT ![w] = count]
     /\ outcomes' = [outcomes EXCEPT ![w] = Remembered(w, FALSE)]
     /\ ForgetProbe(w)
     /\ \/ /\ opens
           /\ open' = [open EXCEPT ![w] = TRUE]
           /\ cooling' = [cooling EXCEPT ![w] = Reset]
           /\ TrySave(w, OpenRecord)
        \/ /\ ~opens
           /\ UNCHANGED <<open, cooling, cache, aged, shared>>
     /\ UNCHANGED probeLock

\* _release_probe_lock
ReleaseProbeLock(w) == probeLock' = 0 \/ (w \in CutOff /\ UNCHANGED probeLock)

\* any success closes the breaker; the lock that is deleted may be another's
RecordSuccess(w) ==
  /\ End(w)
  /\ failures' = [failures EXCEPT ![w] = 0]
  /\ outcomes' = [outcomes EXCEPT ![w] = Remembered(w, TRUE)]
  /\ SucceededProbe(w)
  /\ open' = [open EXCEPT ![w] = FALSE]
  /\ cooling' = [cooling EXCEPT ![w] = 0]
  /\ \/ open[w] /\ TrySave(w, ClosedRecord) /\ ReleaseProbeLock(w)
     \/ ~open[w] /\ UNCHANGED <<cache, aged, shared, probeLock>>

\* the caller was cancelled, or raised something it does not record
LoseOutcome(w) ==
  /\ End(w)
  /\ UNCHANGED <<localVars, cache, aged, shared, probeLock>>

-----------------------------------------------------------------------------

Less(n) == IF n = 0 THEN 0 ELSE n - 1

Cooled(record) == [record EXCEPT !.cooling = Less(@)]

\* a cached view stays for _STORE_CACHE_TTL
KeptView(w) == Cooled(cache[w])
ViewAfterTick(w) == IF w \in aged THEN NoRecord ELSE Cooled(cache[w])

Tick ==
  /\ cooling' = [w \in Workers |-> Less(cooling[w])]
  /\ patience' = [w \in Workers |-> Less(patience[w])]
  /\ cache' = [w \in Workers |-> ViewAfterTick(w)]
  /\ aged' = {w \in Workers : ViewAfterTick(w).state # "NONE"}
  /\ shared' = Cooled(shared)
  /\ probeLock' = Less(probeLock)
  /\ UNCHANGED <<open, failures, outcomes, probing, calls, probes>>

Allow(w) ==
  \/ OpenOnErrorRate(w)
  \/ Admit(w) \/ AdmitBlind(w) \/ RefuseForPeer(w)
  \/ AdmitProbe(w) \/ AdmitProbeBlind(w) \/ RefuseProbe(w)

\* the process starts anew, closed; its calls are gone
Restart(w) ==
  /\ w \in Restarting
  /\ open' = [open EXCEPT ![w] = FALSE]
  /\ cooling' = [cooling EXCEPT ![w] = 0]
  /\ failures' = [failures EXCEPT ![w] = 0]
  /\ outcomes' = [outcomes EXCEPT ![w] = <<>>]
  /\ ForgetProbe(w)
  /\ cache' = [cache EXCEPT ![w] = NoRecord]
  /\ aged' = aged \ {w}
  /\ calls' = [calls EXCEPT ![w] = 0]
  /\ probes' = [probes EXCEPT ![w] = 0]
  /\ UNCHANGED <<shared, probeLock>>

Record(w) == RecordFailure(w) \/ RecordSuccess(w) \/ LoseOutcome(w)

Next ==
  \/ \E w \in Workers : Allow(w) \/ Record(w) \/ ForgetView(w) \/ Restart(w)
  \/ Tick

Spec == Init /\ [][Next]_vars

\* time passes; nothing is assumed of calls and their outcomes
FairSpec == Spec /\ WF_vars(Tick)

-----------------------------------------------------------------------------
(* Properties *)

TypeOK ==
  /\ open \in [Workers -> BOOLEAN]
  /\ cooling \in [Workers -> 0 .. Reset]
  /\ failures \in [Workers -> 0 .. Threshold]
  /\ outcomes \in [Workers -> Seq(BOOLEAN)]
  /\ \A w \in Workers : Len(outcomes[w]) <= Window
  /\ probing \in [Workers -> BOOLEAN]
  /\ patience \in [Workers -> 0 .. ProbeTimeout]
  /\ cache \in [Workers -> Shared]
  /\ aged \subseteq {w \in Workers : cache[w].state # "NONE"}
  /\ shared \in Shared
  /\ probeLock \in 0 .. ProbeTimeout
  /\ calls \in [Workers -> 0 .. MaxCalls]
  /\ probes \in [Workers -> 0 .. MaxCalls]

Admits(w) == calls'[w] > calls[w]

\* While the store says that somebody is cooling down, a worker lets an
\* ordinary call pass only if it cannot read the store, except in the second
\* after it was opened (the worker may have looked just before).  A second
\* spans two ticks.  A view that was read is not empty.
CoolingIsShared ==
  [][\A w \in Workers :
       shared.state = "OPEN" /\ 0 < shared.cooling /\ shared.cooling < Reset - 1 /\ Admits(w)
       => cache'[w].state = "NONE"]_vars

\* A closed breaker opens after Threshold failures in a row or on a bad
\* window, and not because an outcome of the last half-open phase is
\* attributed to a call of the new closed phase.
OpensWhenDue ==
  [][\A w \in Workers :
       ~open[w] /\ open'[w] => failures'[w] = Threshold \/ RateTooHigh(w)]_vars

\* However many outcomes are lost and whoever takes the lock, an open breaker
\* can again and again let a probe pass: nobody is shut out for good.
NeverStuck ==
  \A w \in Workers :
    \/ []<>(~open[w] \/ ~HasRoom(w) \/ ENABLED AdmitProbe(w))
    \/ []<><<AdmitProbeBlind(w)>>_vars

-----------------------------------------------------------------------------
(* What comments of the code say, and the code does not keep *)

\* Once a worker has opened, the others refuse, and what passes is a probe.
OnlyProbesPass ==
  [][\A w, v \in Workers :
       Admits(w) => ~open[v] \/ cooling[v] >= Reset - 1]_vars

\* One worker probes at a time.
OneProber ==
  \A w, v \in Workers :
    /\ probing[w] /\ patience[w] > 0 /\ probing[v] /\ patience[v] > 0
    => w = v

\* A successful probe resets the breaker: what it has just closed does not
\* open again at the next question, before any further failure.
SuccessResets ==
  [][\A w \in Workers : open[w] /\ ~open'[w] => ~RateTooHigh(w)']_vars
=============================================================================
