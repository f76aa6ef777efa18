------------------------- MODULE EventDeliveryProofs -------------------------
(***************************************************************************)
(* Proofs about EventDelivery, for any events, any number of attempts and  *)
(* any size of the queue and of a batch.  Base is the type invariant, with *)
(* the order of the letters: those that have been replayed are the oldest. *)
(* Account says where each call waits, without counting: no two letters of *)
(* one call wait together, and a letter falls out of a full queue into the *)
(* batch or is lost.  From both follow that every call that is due is in   *)
(* exactly one place, and that the bus implements CallDuties.              *)
(***************************************************************************)
EXTENDS EventDelivery, FiniteSetTheorems, TLAPS

USE SizesAssumption

-----------------------------------------------------------------------------
(***************************************************************************)
(* The inductive invariant.                                                *)
(***************************************************************************)
TasksOK ==
  /\ calls \subseteq Calls
  /\ attempt \in [Calls -> 0 .. Attempts]
  /\ \A c \in Calls : attempt[c] > 0 => c \in calls
  /\ returned \subseteq calls
  /\ lost \subseteq calls
  /\ announcing \subseteq Events
  /\ sent \in BOOLEAN

QueueOK ==
  /\ queue \in Seq(Letter)
  /\ Len(queue) <= QueueSize
  /\ \A p \in 1 .. Len(queue) : queue[p].call \in calls

\* The replayed letters are the oldest: letters are replayed in their order.
Ordered ==
  \A p, q \in 1 .. Len(queue) :
    p < q /\ queue[q].status = "RETRIED" => queue[p].status = "RETRIED"

\* A batch takes the oldest letters first.
BatchOK ==
  /\ batch \subseteq Taken
  /\ \A t \in batch : t.pos <= Len(queue) /\ t.call \in calls
  /\ \A t \in batch : \A p \in Pending : p < t.pos => \E u \in batch : u.pos = p

Base == TasksOK /\ QueueOK /\ Ordered /\ BatchOK

LEMMA Initially == Init => Base
<1> SUFFICES ASSUME Init PROVE Base
  OBVIOUS
<1>1. TasksOK
  <2>1. 0 \in 0 .. Attempts
    OBVIOUS
  <2>2. attempt \in [Calls -> 0 .. Attempts] /\ \A c \in Calls : ~(attempt[c] > 0)
    BY <2>1 DEF Init
  <2> QED BY <2>2 DEF Init, TasksOK
<1>2. queue = <<>> /\ Len(queue) = 0 /\ queue \in Seq(Letter) /\ batch = {}
  BY DEF Init
<1>3. QueueOK /\ Ordered /\ BatchOK
  BY <1>2 DEF QueueOK, Ordered, BatchOK
<1> QED BY <1>1, <1>3 DEF Base

-----------------------------------------------------------------------------
(***************************************************************************)
(* A letter is appended, and a full queue moves up by one place.           *)
(***************************************************************************)
Shift == IF Len(queue) = QueueSize THEN 1 ELSE 0

LEMMA Appended ==
  ASSUME QueueOK, NEW c \in Calls, SendToDlq(c)
  PROVE  /\ queue' \in Seq(Letter) /\ Len(queue) \in Nat /\ Shift \in {0, 1}
         /\ Len(queue') = Len(queue) - Shift + 1
         /\ Len(queue') <= QueueSize
         /\ \A p \in 1 .. Len(queue) - Shift : queue'[p] = queue[p + Shift]
         /\ queue'[Len(queue')] = [call |-> c, status |-> "PENDING"]
<1> DEFINE letter == [call |-> c, status |-> "PENDING"]
<1>1. queue \in Seq(Letter) /\ Len(queue) \in Nat /\ Len(queue) <= QueueSize
  BY DEF QueueOK
<1>2. letter \in Letter
  BY DEF Letter
<1>3. CASE Len(queue) = QueueSize
  <2>1. queue' = Append(Tail(queue), letter)
    BY <1>3 DEF SendToDlq
  <2>2. queue # <<>>
    BY <1>1, <1>3
  <2>3. /\ Tail(queue) \in Seq(Letter) /\ Len(Tail(queue)) = Len(queue) - 1
        /\ \A p \in 1 .. Len(queue) - 1 : Tail(queue)[p] = queue[p + 1]
    BY <1>1, <2>2
  <2> DEFINE rest == Tail(queue)
  <2> HIDE DEF letter, rest
  <2>4. /\ queue' \in Seq(Letter) /\ Len(queue') = Len(rest) + 1
        /\ \A p \in 1 .. Len(rest) : queue'[p] = rest[p]
        /\ queue'[Len(rest) + 1] = letter
    BY <1>2, <2>1, <2>3 DEF rest
  <2>5. Shift = 1
    BY <1>3 DEF Shift
  <2> QED BY <1>1, <2>3, <2>4, <2>5 DEF rest, letter
<1>4. CASE Len(queue) # QueueSize
  <2>1. queue' = Append(queue, letter)
    BY <1>4 DEF SendToDlq
  <2> HIDE DEF letter
  <2>2. /\ queue' \in Seq(Letter) /\ Len(queue') = Len(queue) + 1
        /\ \A p \in 1 .. Len(queue) : queue'[p] = queue[p]
        /\ queue'[Len(queue) + 1] = letter
    BY <1>1, <1>2, <2>1
  <2>3. Shift = 0
    BY <1>4 DEF Shift
  <2> QED BY <1>1, <1>4, <2>2, <2>3 DEF letter
<1> QED BY <1>3, <1>4

LEMMA BatchMoves ==
  ASSUME BatchOK, QueueOK, NEW c \in Calls, SendToDlq(c)
  PROVE  /\ batch' \subseteq Taken
         /\ \A t \in batch : \E u \in batch' : u.pos = t.pos - Shift /\ u.call = t.call
         /\ \A u \in batch' : \E t \in batch : u.pos = t.pos - Shift /\ u.call = t.call
<1>1. CASE Len(queue) = QueueSize
  <2>1. batch' = {[t EXCEPT !.pos = @ - 1] : t \in batch}
    BY <1>1 DEF SendToDlq
  <2>2. \A t \in batch : /\ [t EXCEPT !.pos = @ - 1] \in Taken
                         /\ [t EXCEPT !.pos = @ - 1].pos = t.pos - 1
                         /\ [t EXCEPT !.pos = @ - 1].call = t.call
    BY DEF BatchOK, Taken
  <2> QED BY <1>1, <2>1, <2>2 DEF Shift
<1>2. CASE Len(queue) # QueueSize
  <2>1. batch' = batch /\ Shift = 0
    BY <1>2 DEF SendToDlq, Shift
  <2>2. \A t \in batch : t.pos - 0 = t.pos
    BY DEF BatchOK, Taken
  <2> QED BY <2>1, <2>2 DEF BatchOK
<1> QED BY <1>1, <1>2

LEMMA SendStep ==
  ASSUME Base, NEW c \in Calls, SendToDlq(c), calls \subseteq calls', c \in calls'
  PROVE  QueueOK' /\ Ordered' /\ BatchOK' /\ lost' \subseteq calls'
<1> USE DEF Base
<1>0. /\ queue' \in Seq(Letter) /\ Len(queue) \in Nat /\ Shift \in {0, 1}
      /\ Len(queue') = Len(queue) - Shift + 1
      /\ \A p \in 1 .. Len(queue) - Shift : queue'[p] = queue[p + Shift]
      /\ queue'[Len(queue')] = [call |-> c, status |-> "PENDING"]
  BY Appended
<1>01. /\ batch' \subseteq Taken
       /\ \A t \in batch : \E u \in batch' : u.pos = t.pos - Shift /\ u.call = t.call
       /\ \A u \in batch' : \E t \in batch : u.pos = t.pos - Shift /\ u.call = t.call
  BY BatchMoves
<1>1. \A p \in 1 .. Len(queue') :
        \/ p + Shift \in 1 .. Len(queue) /\ queue'[p] = queue[p + Shift]
        \/ p = Len(queue') /\ queue'[p] = [call |-> c, status |-> "PENDING"]
  BY Appended
<1>2. QueueOK'
  <2>1. \A p \in 1 .. Len(queue') : queue'[p].call \in calls'
    BY <1>1 DEF QueueOK
  <2> QED BY <2>1, Appended DEF QueueOK
<1>3. Ordered'
  <2> SUFFICES ASSUME NEW p \in 1 .. Len(queue'), NEW q \in 1 .. Len(queue'),
                      p < q, queue'[q].status = "RETRIED"
               PROVE  queue'[p].status = "RETRIED"
    BY DEF Ordered
  <2>1. q + Shift \in 1 .. Len(queue) /\ queue'[q] = queue[q + Shift]
    BY <1>1
  <2>2. p + Shift \in 1 .. Len(queue) /\ queue'[p] = queue[p + Shift] /\ p + Shift < q + Shift
    BY <1>1, <2>1, Appended
  <2> QED BY <2>1, <2>2 DEF Ordered
<1>4. BatchOK'
  <2>1. \A u \in batch' : u.pos <= Len(queue') /\ u.call \in calls'
    <3> SUFFICES ASSUME NEW u \in batch' PROVE u.pos <= Len(queue') /\ u.call \in calls'
      OBVIOUS
    <3>1. PICK t \in batch : u.pos = t.pos - Shift /\ u.call = t.call
      BY <1>01
    <3>2. t.pos \in Int /\ t.pos <= Len(queue) /\ t.call \in calls
      BY DEF BatchOK, Taken
    <3> QED BY <1>0, <3>1, <3>2
  <2>2. ASSUME NEW u \in batch', NEW p \in Pending', p < u.pos
        PROVE  \E v \in batch' : v.pos = p
    <3>1. PICK t \in batch : u.pos = t.pos - Shift
      BY <1>01
    <3>2. t.pos \in Int /\ t.pos <= Len(queue) /\ p \in 1 .. Len(queue') /\ queue'[p].status = "PENDING"
      BY <2>2 DEF BatchOK, Taken, Pending
    <3>3. p + Shift \in 1 .. Len(queue) /\ p + Shift < t.pos
      <4>1. p < t.pos - Shift
        BY <2>2, <3>1
      <4>2. p \in Nat /\ p >= 1
        BY <1>0, <3>2
      <4> HIDE DEF Shift
      <4> QED BY <1>0, <3>2, <4>1, <4>2
    <3>4. queue'[p] = queue[p + Shift]
      <4>1. p \in 1 .. Len(queue) - Shift
        BY <1>0, <3>2, <3>3
      <4> QED BY <1>0, <4>1
    <3>5. p + Shift \in Pending
      BY <3>2, <3>3, <3>4 DEF Pending
    <3>6. PICK s \in batch : s.pos = p + Shift
      BY <3>3, <3>5 DEF BatchOK
    <3>7. PICK v \in batch' : v.pos = s.pos - Shift
      BY <1>01
    <3>8. v.pos = p
      <4>1. p \in Int
        BY <1>0, <3>2
      <4> QED BY <1>0, <3>6, <3>7, <4>1
    <3> QED BY <3>8
  <2> QED BY <2>1, <2>2, BatchMoves DEF BatchOK
<1>5. lost' \subseteq calls'
  <2>1. lost' = lost \cup {d \in Calls : FallsUnreplayed(d)}
    BY DEF SendToDlq
  <2>2. \A d \in Calls : FallsUnreplayed(d) => d \in calls
    BY DEF FallsUnreplayed, Pending, QueueOK
  <2> QED BY <2>1, <2>2 DEF TasksOK
<1> QED BY <1>2, <1>3, <1>4, <1>5

-----------------------------------------------------------------------------
(***************************************************************************)
(* The replay loop.                                                        *)
(***************************************************************************)
LEMMA OldestFirst ==
  ASSUME QueueOK, NEW p \in Oldest, NEW q \in Pending, q < p
  PROVE  q \in Oldest
<1> DEFINE below(x) == {r \in Pending : r < x}
<1>1. Pending \subseteq 1 .. Len(queue) /\ Len(queue) \in Nat
  BY DEF QueueOK, Pending
<1>0. p \in Int /\ q \in Int
  BY <1>1 DEF Oldest
<1>2. IsFiniteSet(below(p)) /\ IsFiniteSet(below(q))
  <2>1. IsFiniteSet(1 .. Len(queue))
    BY <1>1, FS_Interval
  <2>2. below(p) \subseteq 1 .. Len(queue) /\ below(q) \subseteq 1 .. Len(queue)
    BY <1>1
  <2> HIDE DEF below
  <2> QED BY <2>1, <2>2, FS_Subset
<1>3. below(q) \subseteq below(p)
  <2>1. \A r \in Pending : r \in Int
    BY <1>1
  <2>2. \A r \in Pending : r < q => r < p
    BY <1>0, <2>1
  <2> QED BY <2>2
<1>4. /\ Cardinality(below(q)) <= Cardinality(below(p))
      /\ Cardinality(below(q)) \in Nat /\ Cardinality(below(p)) \in Nat
  BY <1>2, <1>3, FS_Subset, FS_CardinalityType
<1>5. Cardinality(below(p)) < BatchSize
  BY DEF Oldest
<1> HIDE DEF below
<1>6. Cardinality(below(q)) < BatchSize
  BY <1>4, <1>5
<1> QED BY <1>6 DEF Oldest, below

LEMMA TakeStep ==
  ASSUME Base, Take
  PROVE  BatchOK'
<1>1. batch' = {[call |-> queue[p].call, pos |-> p] : p \in Oldest} /\ UNCHANGED <<queue, calls>>
  BY DEF Take
<1>2. \A p \in Oldest : /\ p \in Pending /\ p \in 1 .. Len(queue) /\ p \in Int
                        /\ queue[p].call \in calls /\ queue[p].call \in Calls
  BY DEF Oldest, Pending, Base, QueueOK, TasksOK
<1>3. batch' \subseteq Taken /\ \A t \in batch' : t.pos \in Oldest /\ t.call \in calls
  BY <1>1, <1>2 DEF Taken
<1>4. \A t \in batch' : t.pos <= Len(queue)
  BY <1>2, <1>3 DEF Base, QueueOK
<1>5. ASSUME NEW t \in batch', NEW p \in Pending, p < t.pos PROVE p \in Oldest
  <2>1. t.pos \in Oldest
    BY <1>3
  <2> QED BY <1>5, <2>1, OldestFirst DEF Base
<1>6. ASSUME NEW p \in Oldest PROVE \E u \in batch' : u.pos = p
  <2>1. [call |-> queue[p].call, pos |-> p] \in batch'
    BY <1>1
  <2>2. [call |-> queue[p].call, pos |-> p].pos = p
    OBVIOUS
  <2> QED BY <2>1, <2>2
<1>7. Pending' = Pending /\ Len(queue') = Len(queue) /\ calls' = calls
  BY <1>1 DEF Pending
<1> QED BY <1>3, <1>4, <1>5, <1>6, <1>7 DEF BatchOK

LEMMA ReplayedStep ==
  ASSUME Base, NEW t \in batch, Replayed(t)
  PROVE  QueueOK' /\ Ordered' /\ BatchOK'
<1> USE DEF Base
<1>1. /\ t.pos \in Int /\ t.pos <= Len(queue) /\ Len(queue) \in Nat
      /\ \A u \in batch : t.pos <= u.pos
      /\ batch' = batch \ {t} /\ calls' = calls
      /\ queue' = MarkRetried(t)
  BY DEF Replayed, IsNext, BatchOK, Taken, QueueOK
<1>2. /\ queue' \in Seq(Letter) /\ Len(queue') = Len(queue)
      /\ \A p \in 1 .. Len(queue) :
           /\ queue'[p].call = queue[p].call
           /\ queue'[p].status = IF p = t.pos THEN "RETRIED" ELSE queue[p].status
  <2>1. CASE t.pos < 1
    BY <1>1, <2>1 DEF MarkRetried, QueueOK
  <2>2. CASE ~(t.pos < 1)
    <3>1. t.pos \in 1 .. Len(queue)
      BY <1>1, <2>2
    <3> DEFINE marked == [queue[t.pos] EXCEPT !.status = "RETRIED"]
    <3>2. queue[t.pos] \in Letter
      BY <3>1 DEF QueueOK
    <3>3. marked \in Letter /\ marked.call = queue[t.pos].call /\ marked.status = "RETRIED"
      BY <3>2 DEF Letter
    <3>4. queue' = [queue EXCEPT ![t.pos] = marked]
      BY <1>1, <2>2 DEF MarkRetried
    <3> HIDE DEF marked
    <3>5. queue' \in Seq(Letter) /\ Len(queue') = Len(queue)
      BY <3>1, <3>3, <3>4 DEF QueueOK
    <3>6. \A p \in 1 .. Len(queue) : queue'[p] = IF p = t.pos THEN marked ELSE queue[p]
      BY <3>1, <3>4 DEF QueueOK
    <3> QED BY <3>3, <3>5, <3>6
  <2> QED BY <2>1, <2>2
<1>3. QueueOK'
  BY <1>1, <1>2 DEF QueueOK
<1>4. \A p \in 1 .. Len(queue) : queue[p].status \in {"PENDING", "RETRIED"}
  <2>1. \A p \in 1 .. Len(queue) : queue[p] \in Letter
    BY DEF QueueOK
  <2> QED BY <2>1 DEF Letter
<1>5. \A p \in 1 .. Len(queue) : p < t.pos => queue[p].status = "RETRIED"
  <2> SUFFICES ASSUME NEW p \in 1 .. Len(queue), p < t.pos, queue[p].status = "PENDING"
               PROVE  FALSE
    BY <1>4
  <2>1. PICK u \in batch : u.pos = p
    BY DEF BatchOK, Pending
  <2> QED BY <1>1, <2>1
<1>6. Ordered'
  <2> SUFFICES ASSUME NEW p \in 1 .. Len(queue), NEW q \in 1 .. Len(queue),
                      p < q, queue'[q].status = "RETRIED"
               PROVE  queue'[p].status = "RETRIED"
    BY <1>2 DEF Ordered
  <2>1. CASE q = t.pos
    BY <1>2, <1>5, <2>1
  <2>2. CASE q # t.pos
    BY <1>2, <2>2 DEF Ordered
  <2> QED BY <2>1, <2>2
<1>7. BatchOK'
  <2>1. Pending' \subseteq Pending \ {t.pos}
    BY <1>2 DEF Pending
  <2>2. ASSUME NEW u \in batch', NEW p \in Pending', p < u.pos
        PROVE  \E v \in batch' : v.pos = p
    BY <1>1, <2>1, <2>2 DEF BatchOK
  <2> QED BY <1>1, <1>2, <2>2 DEF BatchOK
<1> QED BY <1>3, <1>6, <1>7

-----------------------------------------------------------------------------
(***************************************************************************)
(* The steps.                                                              *)
(***************************************************************************)
LEMMA PublishedCalls ==
  ASSUME NEW e \in Events
  PROVE  <<e, "publish">> \in Calls /\ <<e, "announce">> \in Calls
BY DEF Calls

LEMMA QueueKept ==
  ASSUME Base, UNCHANGED <<queue, batch>>, calls \subseteq calls'
  PROVE  QueueOK' /\ Ordered' /\ BatchOK'
BY DEF Base, QueueOK, Ordered, BatchOK, Pending

LEMMA AttemptSet ==
  ASSUME TasksOK, NEW c \in calls', NEW n \in 0 .. Attempts,
         attempt' = [attempt EXCEPT ![c] = n], calls' \subseteq Calls, calls \subseteq calls'
  PROVE  attempt' \in [Calls -> 0 .. Attempts] /\ \A d \in Calls : attempt'[d] > 0 => d \in calls'
BY DEF TasksOK

LEMMA BusStep ==
  ASSUME Base, NEW e \in Events, Publish(e) \/ Announce(e) \/ AnnounceFails(e)
  PROVE  Base'
<1>1. CASE Publish(e)
  <2> DEFINE c == <<e, "publish">>
  <2>1. c \in calls' /\ calls' = calls \cup {c} /\ c \in Calls /\ 1 \in 0 .. Attempts
    <3>1. c \in Calls
      BY PublishedCalls
    <3>2. calls' = calls \cup {c}
      BY <1>1 DEF Publish
    <3> HIDE DEF c
    <3>3. 1 \in 0 .. Attempts
      OBVIOUS
    <3> QED BY <3>1, <3>2, <3>3
  <2>2. attempt' = [attempt EXCEPT ![c] = 1]
    BY <1>1 DEF Publish
  <2> HIDE DEF c
  <2>3. attempt' \in [Calls -> 0 .. Attempts] /\ \A d \in Calls : attempt'[d] > 0 => d \in calls'
    BY <2>1, <2>2, AttemptSet DEF Base, TasksOK
  <2>4. TasksOK'
    BY <1>1, <2>1, <2>3 DEF Publish, Base, TasksOK
  <2> QED BY <1>1, <2>1, <2>4, QueueKept DEF Publish, Base
<1>2. CASE Announce(e)
  BY <1>2, QueueKept DEF Announce, Base, TasksOK
<1>3. CASE AnnounceFails(e)
  <2> DEFINE c == <<e, "announce">>
  <2>1. c \in calls' /\ calls' = calls \cup {c} /\ c \in Calls /\ SendToDlq(c)
    BY <1>3, PublishedCalls DEF AnnounceFails
  <2> HIDE DEF c
  <2>2. QueueOK' /\ Ordered' /\ BatchOK' /\ lost' \subseteq calls'
    BY <2>1, SendStep
  <2>3. TasksOK'
    BY <1>3, <2>1, <2>2 DEF AnnounceFails, Base, TasksOK
  <2> QED BY <2>2, <2>3 DEF Base
<1> QED BY <1>1, <1>2, <1>3

LEMMA TaskStep ==
  ASSUME Base, NEW c \in Calls, Return(c) \/ Raise(c)
  PROVE  Base'
<1> USE DEF Base
<1>1. c \in calls /\ calls' = calls /\ attempt[c] \in 0 .. Attempts /\ 0 \in 0 .. Attempts
  BY DEF Return, Raise, TasksOK
<1>2. CASE Return(c)
  <2>1. attempt' \in [Calls -> 0 .. Attempts] /\ \A d \in Calls : attempt'[d] > 0 => d \in calls'
    BY <1>1, <1>2, AttemptSet DEF Return, TasksOK
  <2>2. TasksOK'
    BY <1>1, <1>2, <2>1 DEF Return, TasksOK
  <2> QED BY <1>2, <2>2, QueueKept DEF Return
<1>3. CASE Raise(c) /\ AttemptsLeft(c)
  <2>1. attempt[c] + 1 \in 0 .. Attempts
    BY <1>1, <1>3 DEF AttemptsLeft
  <2>2. attempt' = [attempt EXCEPT ![c] = attempt[c] + 1]
    BY <1>3 DEF Raise
  <2>3. attempt' \in [Calls -> 0 .. Attempts] /\ \A d \in Calls : attempt'[d] > 0 => d \in calls'
    BY <1>1, <2>1, <2>2, AttemptSet DEF TasksOK
  <2>4. UNCHANGED <<calls, returned, lost, announcing, queue, batch, sent>>
    BY <1>3 DEF Raise
  <2>5. TasksOK'
    BY <2>3, <2>4 DEF TasksOK
  <2> QED BY <2>4, <2>5, QueueKept
<1>4. CASE Raise(c) /\ ~AttemptsLeft(c)
  <2>1. attempt' = [attempt EXCEPT ![c] = 0] /\ SendToDlq(c)
    BY <1>4 DEF Raise, Exhausted
  <2>2. attempt' \in [Calls -> 0 .. Attempts] /\ \A d \in Calls : attempt'[d] > 0 => d \in calls'
    BY <1>1, <2>1, AttemptSet DEF TasksOK
  <2>3. QueueOK' /\ Ordered' /\ BatchOK' /\ lost' \subseteq calls'
    BY <1>1, <2>1, SendStep
  <2>4. TasksOK'
    BY <1>1, <1>4, <2>2, <2>3 DEF Raise, TasksOK
  <2> QED BY <2>3, <2>4
<1> QED BY <1>2, <1>3, <1>4

LEMMA ReplayStep ==
  ASSUME Base, NEW t \in batch, Replay(t) \/ Replayed(t)
  PROVE  Base'
<1> USE DEF Base
<1>1. CASE Replay(t)
  <2>1. t.call \in calls /\ calls' = calls /\ 1 \in 0 .. Attempts
    BY <1>1 DEF Replay, BatchOK
  <2>2. attempt' \in [Calls -> 0 .. Attempts] /\ \A d \in Calls : attempt'[d] > 0 => d \in calls'
    BY <1>1, <2>1, AttemptSet DEF Replay, TasksOK
  <2>3. TasksOK'
    BY <1>1, <2>2 DEF Replay, TasksOK
  <2> QED BY <1>1, <2>3, QueueKept DEF Replay
<1>2. CASE Replayed(t)
  <2>1. TasksOK'
    BY <1>2 DEF Replayed, TasksOK
  <2> QED BY <1>2, <2>1, ReplayedStep
<1> QED BY <1>1, <1>2

LEMMA BaseNext == Base /\ [Next]_vars => Base'
<1> SUFFICES ASSUME Base, [Next]_vars PROVE Base'
  OBVIOUS
<1>1. CASE Take
  <2>1. QueueOK' /\ Ordered' /\ TasksOK'
    BY <1>1 DEF Take, Base, QueueOK, Ordered, TasksOK
  <2> QED BY <1>1, <2>1, TakeStep DEF Base
<1>2. CASE Restart
  <2>1. 0 \in 0 .. Attempts
    OBVIOUS
  <2>2. attempt' \in [Calls -> 0 .. Attempts] /\ \A c \in Calls : ~(attempt'[c] > 0)
    BY <1>2, <2>1 DEF Restart
  <2>3. TasksOK'
    BY <1>2, <2>2 DEF Restart, Base, TasksOK
  <2>4. queue' = <<>> /\ Len(queue') = 0 /\ queue' \in Seq(Letter) /\ batch' = {}
    BY <1>2 DEF Restart
  <2>5. QueueOK' /\ Ordered' /\ BatchOK'
    BY <2>4 DEF QueueOK, Ordered, BatchOK
  <2> QED BY <2>3, <2>5 DEF Base
<1>3. CASE UNCHANGED vars
  BY <1>3, QueueKept DEF vars, Base, TasksOK
<1> QED BY <1>1, <1>2, <1>3, BusStep, TaskStep, ReplayStep DEF Next

LEMMA Based == Spec => []Base
BY Initially, BaseNext, PTL DEF Spec

\* The tasks, the letters and the batch are well-typed, and the queue keeps to
\* its size.
THEOREM TypeCorrect == Spec => []TypeOK
<1>1. Base => TypeOK
  BY DEF Base, TasksOK, QueueOK, BatchOK, TypeOK
<1> QED BY <1>1, Based, PTL

\* A full queue gives up a letter that nobody has replayed only when none of
\* its letters has been.
THEOREM ReplayedGoFirst == Spec => ReplayedFallFirst
<1>1. Base /\ [Next]_vars => (lost' # lost /\ queue' # <<>> =>
        \A p \in 1 .. Len(queue) : queue[p].status = "PENDING")
  <2> SUFFICES ASSUME Base, [Next]_vars, lost' # lost, queue' # <<>>, NEW p \in 1 .. Len(queue)
               PROVE  queue[p].status = "PENDING"
    OBVIOUS
  <2>1. PICK c \in Calls : SendToDlq(c)
    <3>1. ~Restart /\ ~Take /\ ~UNCHANGED vars
      BY DEF Restart, Take, vars
    <3>2. \A t \in batch : ~Replay(t) /\ ~Replayed(t)
      BY DEF Replay, Replayed
    <3>3. \A e \in Events : ~Publish(e) /\ ~Announce(e)
      BY DEF Publish, Announce
    <3>4. \A d \in Calls : ~Return(d)
      BY DEF Return
    <3> QED BY <3>1, <3>2, <3>3, <3>4, PublishedCalls DEF Next, AnnounceFails, Raise, Exhausted
  <2>2. PICK d \in Calls : FallsUnreplayed(d)
    BY <2>1 DEF SendToDlq
  <2>3. 1 \in Pending
    BY <2>2 DEF FallsUnreplayed, Falls
  <2>4. 1 \in 1 .. Len(queue) /\ queue[1].status = "PENDING" /\ queue[p] \in Letter
    BY <2>3 DEF Pending, Base, QueueOK
  <2>5. CASE p = 1
    BY <2>4, <2>5
  <2>6. CASE p # 1
    <3>1. 1 < p
      BY <2>6
    <3>2. queue[p].status # "RETRIED"
      BY <2>4, <3>1 DEF Base, Ordered
    <3> QED BY <2>4, <3>2 DEF Letter
  <2> QED BY <2>5, <2>6
<1> QED BY <1>1, Based, PTL DEF Spec, ReplayedFallFirst
-----------------------------------------------------------------------------
(***************************************************************************)
(* Where a call waits.  A letter of the batch is known by its place in the *)
(* queue, an event is announced once, and a call that is due is in one     *)
(* place: counting is needed only at the very end.                         *)
(***************************************************************************)
BatchInv ==
  /\ sent => batch # {}
  /\ \A t, u \in batch : t.pos = u.pos => t = u
  /\ \A t \in batch : t.pos >= 1 => queue[t.pos] = [call |-> t.call, status |-> "PENDING"]

AnnounceInv ==
  /\ IsFiniteSet(calls)
  /\ \A e \in Events :
       /\ <<e, "announce">> \in calls \/ e \in announcing => <<e, "publish">> \in calls
       /\ e \in announcing => <<e, "announce">> \notin calls

\* A call is in one place, and in one only while it is due.
Placed(c) ==
  /\ \A p, q \in Waiting(c) : p = q
  /\ \A t, u \in FallenOut(c) : t = u
  /\ InTask(c) => Waiting(c) = {} /\ FallenOut(c) = {}
  /\ Waiting(c) # {} => FallenOut(c) = {}
  /\ c \in Due <=> InTask(c) \/ Waiting(c) # {} \/ FallenOut(c) # {}

PlaceInv == \A c \in Calls : Placed(c)

Account == BatchInv /\ AnnounceInv /\ PlaceInv

LEMMA NextIsOne ==
  ASSUME BatchOK, BatchInv, NEW t, NEW u, IsNext(t), IsNext(u)
  PROVE  t = u
<1>1. t \in batch /\ u \in batch /\ t.pos \in Int /\ u.pos \in Int /\ t.pos <= u.pos /\ u.pos <= t.pos
  BY DEF IsNext, BatchOK, Taken
<1> QED BY <1>1 DEF BatchInv

LEMMA PlacesStay ==
  ASSUME UNCHANGED <<queue, batch, sent>>, NEW c
  PROVE  Waiting(c)' = Waiting(c) /\ FallenOut(c)' = FallenOut(c)
BY DEF Waiting, FallenOut, Pending, IsSent, IsNext

LEMMA StaysPlaced ==
  ASSUME NEW c, Placed(c), Waiting(c)' = Waiting(c), FallenOut(c)' = FallenOut(c),
         InTask(c)' <=> InTask(c), c \in Due' <=> c \in Due
  PROVE  Placed(c)'
BY DEF Placed

-----------------------------------------------------------------------------
(***************************************************************************)
(* A letter is appended: every other one keeps its call, and the one that  *)
(* falls out is lost unless the batch knows it.                            *)
(***************************************************************************)
Moved(t) == [t EXCEPT !.pos = @ - Shift]

LEMMA MovedBatch ==
  ASSUME BatchOK, QueueOK, NEW c \in Calls, SendToDlq(c)
  PROVE  /\ batch' = {Moved(t) : t \in batch}
         /\ \A t \in batch : /\ Moved(t).pos = t.pos - Shift /\ Moved(t).call = t.call
                             /\ t.pos \in Int
         /\ \A t, u \in batch : Moved(t) = Moved(u) => t = u
<1>1. \A t \in batch : t \in Taken /\ t.pos \in Int
  BY DEF BatchOK, Taken
<1>2. Shift \in {0, 1}
  BY DEF Shift
<1>3. \A t \in batch : Moved(t).pos = t.pos - Shift /\ Moved(t).call = t.call /\ Moved(t) \in Taken
  BY <1>1, <1>2 DEF Moved, Taken
<1>4. \A t, u \in batch : Moved(t) = Moved(u) => t = u
  <2> SUFFICES ASSUME NEW t \in batch, NEW u \in batch, Moved(t) = Moved(u) PROVE t = u
    OBVIOUS
  <2>1. t.pos = u.pos /\ t.call = u.call
    BY <1>1, <1>2, <1>3
  <2> QED BY <1>1, <2>1 DEF Taken
<1>5. batch' = {Moved(t) : t \in batch}
  <2>1. CASE Len(queue) = QueueSize
    BY <2>1 DEF SendToDlq, Moved, Shift
  <2>2. CASE Len(queue) # QueueSize
    <3>1. \A t \in batch : Moved(t) = t
      BY <1>1, <2>2 DEF Moved, Shift, Taken
    <3> QED BY <2>2, <3>1 DEF SendToDlq
  <2> QED BY <2>1, <2>2
<1> QED BY <1>1, <1>3, <1>4, <1>5

LEMMA NextMoves ==
  ASSUME BatchOK, QueueOK, NEW c \in Calls, SendToDlq(c), NEW t \in batch, NEW m, m = Moved(t)
  PROVE  IsNext(m)' <=> IsNext(t)
<1>1. /\ batch' = {Moved(u) : u \in batch} /\ Shift \in {0, 1}
      /\ \A u \in batch : Moved(u).pos = u.pos - Shift /\ u.pos \in Int
  BY MovedBatch DEF Shift
<1>2. m \in batch' /\ m.pos = t.pos - Shift
  BY <1>1
<1>3. (\A v \in batch' : m.pos <= v.pos) <=> \A u \in batch : m.pos <= Moved(u).pos
  BY <1>1
<1>4. \A u \in batch : m.pos <= Moved(u).pos <=> t.pos <= u.pos
  <2> HIDE DEF Moved, Shift
  <2> QED BY <1>1, <1>2
<1>5. IsNext(m)' <=> \A v \in batch' : m.pos <= v.pos
  BY <1>2 DEF IsNext
<1>6. IsNext(t) <=> \A u \in batch : t.pos <= u.pos
  BY DEF IsNext
<1> QED BY <1>3, <1>4, <1>5, <1>6

LEMMA SentMoves ==
  ASSUME BatchOK, QueueOK, NEW c \in Calls, SendToDlq(c), UNCHANGED sent, NEW p \in Int
  PROVE  IsSent(p)' <=> IsSent(p + Shift)
<1>1. /\ batch' = {Moved(u) : u \in batch} /\ Shift \in {0, 1}
      /\ \A u \in batch : Moved(u).pos = u.pos - Shift /\ u.pos \in Int
  BY MovedBatch DEF Shift
<1>2. ASSUME IsSent(p)' PROVE IsSent(p + Shift)
  <2>1. PICK m \in batch' : IsNext(m)' /\ m.pos = p
    BY <1>2 DEF IsSent
  <2>2. PICK t \in batch : m = Moved(t)
    BY <1>1
  <2>3. IsNext(t)
    BY <2>1, <2>2, NextMoves
  <2>4. t.pos = p + Shift
    BY <1>1, <2>1, <2>2
  <2> QED BY <1>2, <2>3, <2>4 DEF IsSent
<1>3. ASSUME IsSent(p + Shift) PROVE IsSent(p)'
  <2>1. PICK t \in batch : IsNext(t) /\ t.pos = p + Shift
    BY <1>3 DEF IsSent
  <2>2. PICK m \in batch' : m = Moved(t)
    BY <1>1
  <2>3. IsNext(m)'
    BY <2>1, <2>2, NextMoves
  <2>4. m.pos = p
    BY <1>1, <2>1, <2>2
  <2> QED BY <1>3, <2>2, <2>3, <2>4 DEF IsSent
<1> QED BY <1>2, <1>3

\* The letters in the queue move up, and the new one is the last.
LEMMA WaitingMoves ==
  ASSUME BatchOK, QueueOK, NEW c \in Calls, SendToDlq(c), UNCHANGED sent, NEW d \in Calls
  PROVE  /\ \A p \in Waiting(d)' : \/ p \in Int /\ p + Shift \in Waiting(d)
                                   \/ p = Len(queue') /\ d = c
         /\ \A p \in Int : p >= 1 /\ p + Shift \in Waiting(d) => p \in Waiting(d)'
         /\ Len(queue') >= 1
         /\ d = c => Len(queue') \in Waiting(d)'
<1>0. /\ Len(queue) \in Nat /\ Shift \in {0, 1}
      /\ Len(queue') = Len(queue) - Shift + 1 /\ Len(queue') \in Nat
      /\ \A p \in 1 .. Len(queue) - Shift : queue'[p] = queue[p + Shift]
      /\ queue'[Len(queue')] = [call |-> c, status |-> "PENDING"]
  BY Appended
<1>00. Len(queue') >= 1
  <2>1. Shift = 1 => Len(queue) >= 1
    BY DEF Shift
  <2> HIDE DEF Shift
  <2> QED BY <1>0, <2>1
<1> HIDE DEF Shift
<1>1. ASSUME NEW p \in Waiting(d)'
      PROVE  \/ p \in Int /\ p + Shift \in Waiting(d)
             \/ p = Len(queue') /\ d = c
  <2>1. /\ p \in 1 .. Len(queue') /\ queue'[p].status = "PENDING" /\ queue'[p].call = d
        /\ ~IsSent(p)'
    BY <1>1 DEF Waiting, Pending
  <2>2. CASE p = Len(queue')
    BY <1>0, <2>1, <2>2
  <2>3. CASE p # Len(queue')
    <3>1. p \in 1 .. Len(queue) - Shift /\ p + Shift \in 1 .. Len(queue) /\ p \in Int
      BY <1>0, <2>1, <2>3
    <3>2. queue'[p] = queue[p + Shift] /\ ~IsSent(p + Shift)
      BY <1>0, <2>1, <3>1, SentMoves
    <3> QED BY <2>1, <3>1, <3>2 DEF Waiting, Pending
  <2> QED BY <2>2, <2>3
<1>2. ASSUME NEW p \in Int, p >= 1, p + Shift \in Waiting(d) PROVE p \in Waiting(d)'
  <2>1. /\ p + Shift \in 1 .. Len(queue) /\ queue[p + Shift].status = "PENDING"
        /\ queue[p + Shift].call = d /\ ~IsSent(p + Shift)
    BY <1>2 DEF Waiting, Pending
  <2>2. p \in 1 .. Len(queue) - Shift /\ p \in 1 .. Len(queue')
    BY <1>0, <1>2, <2>1
  <2>3. queue'[p] = queue[p + Shift] /\ ~IsSent(p)'
    BY <1>0, <2>1, <2>2, SentMoves
  <2> QED BY <2>1, <2>2, <2>3 DEF Waiting, Pending
<1>3. ASSUME d = c, NEW n \in Int, n = Len(queue') PROVE n \in Waiting(d)'
  <2>1. \A t \in batch : t.pos <= Len(queue) /\ t.pos \in Int
    BY DEF BatchOK, Taken
  <2>2. ~IsSent(n + Shift)
    BY <1>0, <1>3, <2>1 DEF IsSent
  <2>3. ~IsSent(n)'
    BY <2>2, SentMoves
  <2>4. n \in Pending' /\ queue'[n].call = c
    BY <1>0, <1>00, <1>3 DEF Pending
  <2> QED BY <1>3, <2>3, <2>4 DEF Waiting
<1>4. d = c => Len(queue') \in Waiting(d)'
  BY <1>0, <1>3
<1> QED BY <1>00, <1>1, <1>2, <1>4

\* A letter that the batch has taken and that falls out is in the batch only.
LEMMA FallenOutMoves ==
  ASSUME BatchOK, QueueOK, BatchInv, NEW c \in Calls, SendToDlq(c), UNCHANGED sent,
         NEW d \in Calls, NEW t \in batch, NEW m, m = Moved(t)
  PROVE  m \in FallenOut(d)' <=> \/ t \in FallenOut(d)
                                 \/ Shift = 1 /\ t.pos = 1 /\ 1 \in Waiting(d)
<1>0. /\ m \in batch' /\ m.pos = t.pos - Shift /\ m.call = t.call /\ t.pos \in Int
      /\ Shift \in {0, 1} /\ t.pos <= Len(queue) /\ Len(queue) \in Nat
      /\ IsNext(m)' <=> IsNext(t)
  BY MovedBatch, NextMoves DEF Shift, BatchOK, QueueOK
<1> HIDE DEF Shift
<1>1. m \in FallenOut(d)' <=> t.call = d /\ t.pos - Shift < 1 /\ ~(sent /\ IsNext(t))
  BY <1>0 DEF FallenOut
<1>2. t \in FallenOut(d) <=> t.call = d /\ t.pos < 1 /\ ~(sent /\ IsNext(t))
  BY DEF FallenOut
<1>3. ASSUME t.pos = 1 PROVE 1 \in Waiting(d) <=> t.call = d /\ ~(sent /\ IsNext(t))
  <2>0. queue[t.pos] = [call |-> t.call, status |-> "PENDING"] /\ 1 \in 1 .. Len(queue)
    BY <1>0, <1>3 DEF BatchInv
  <2>1. 1 \in Pending /\ queue[1].call = t.call
    BY <1>3, <2>0 DEF Pending
  <2>2. IsSent(1) <=> sent /\ IsNext(t)
    BY <1>3 DEF IsSent, BatchInv
  <2> QED BY <2>1, <2>2 DEF Waiting
<1>4. t.pos - Shift < 1 <=> t.pos < 1 \/ (Shift = 1 /\ t.pos = 1)
  BY <1>0
<1> QED BY <1>1, <1>2, <1>3, <1>4

LEMMA LostMoves ==
  ASSUME QueueOK, NEW c \in Calls, SendToDlq(c), NEW d \in Calls
  PROVE  d \in lost' <=> d \in lost \/ (Shift = 1 /\ 1 \in Waiting(d) /\ \A t \in batch : t.pos # 1)
<1>1. d \in lost' <=> d \in lost \/ FallsUnreplayed(d)
  BY DEF SendToDlq
<1>2. FallsUnreplayed(d) <=> Shift = 1 /\ 1 \in Waiting(d) /\ \A t \in batch : t.pos # 1
  <2>1. FallsUnreplayed(d) <=>
          Shift = 1 /\ 1 \in Pending /\ queue[1].call = d /\ \A t \in batch : t.pos # 1
    BY DEF FallsUnreplayed, Falls, Shift
  <2>2. (\A t \in batch : t.pos # 1) => ~IsSent(1)
    BY DEF IsSent
  <2> QED BY <2>1, <2>2 DEF Waiting
<1> QED BY <1>1, <1>2

\* The call that gets a letter had no other place, and the others keep theirs:
\* in the queue, in the batch, or lost.
LEMMA SendPlaces ==
  ASSUME BatchOK, QueueOK, BatchInv, PlaceInv, NEW c \in Calls, SendToDlq(c), UNCHANGED sent,
         Waiting(c) = {}, FallenOut(c) = {}, c \notin lost, c \notin returned,
         calls' = calls \cup {c}, UNCHANGED returned, ~InTask(c)',
         \A d \in Calls : d # c => (InTask(d)' <=> InTask(d))
  PROVE  PlaceInv'
<1>0. /\ Shift \in {0, 1} /\ Len(queue) \in Nat
      /\ batch' = {Moved(t) : t \in batch}
      /\ \A t, u \in batch : t.pos = u.pos => t = u
  BY MovedBatch DEF Shift, QueueOK, BatchInv
<1>1. \A d \in Calls : \A q \in Waiting(d) : q \in Int /\ q >= 1
  BY DEF Waiting, Pending, QueueOK
<1> HIDE DEF Shift
<1>2. Placed(c)'
  <2>1. \A p \in Waiting(c)' : p = Len(queue')
    BY WaitingMoves
  <2>2. FallenOut(c)' = {}
    <3> SUFFICES ASSUME NEW m \in FallenOut(c)' PROVE FALSE
      OBVIOUS
    <3>1. PICK t \in batch : m = Moved(t)
      BY <1>0 DEF FallenOut
    <3> QED BY <3>1, FallenOutMoves
  <2>3. c \in Due' /\ Waiting(c)' # {}
    <3>1. c \notin lost'
      BY LostMoves
    <3> QED BY <3>1, WaitingMoves DEF Due
  <2> QED BY <2>1, <2>2, <2>3 DEF Placed
<1>3. ASSUME NEW d \in Calls, d # c PROVE Placed(d)'
  <2>0. Placed(d) /\ (InTask(d)' <=> InTask(d))
    BY <1>3 DEF PlaceInv
  <2>1. /\ \A p \in Waiting(d)' : p \in Int /\ p + Shift \in Waiting(d)
        /\ \A p \in Int : p >= 1 /\ p + Shift \in Waiting(d) => p \in Waiting(d)'
    BY <1>3, WaitingMoves
  <2>2. \A p, q \in Waiting(d)' : p = q
    <3> SUFFICES ASSUME NEW p \in Waiting(d)', NEW q \in Waiting(d)' PROVE p = q
      OBVIOUS
    <3>1. p \in Int /\ q \in Int /\ p + Shift = q + Shift
      BY <2>0, <2>1 DEF Placed
    <3> QED BY <1>0, <3>1
  <2>3. \A m \in FallenOut(d)' : \E t \in batch : /\ m = Moved(t)
                                                  /\ \/ t \in FallenOut(d)
                                                     \/ Shift = 1 /\ t.pos = 1 /\ 1 \in Waiting(d)
    <3> SUFFICES ASSUME NEW m \in FallenOut(d)'
                 PROVE  \E t \in batch : /\ m = Moved(t)
                                         /\ \/ t \in FallenOut(d)
                                            \/ Shift = 1 /\ t.pos = 1 /\ 1 \in Waiting(d)
      OBVIOUS
    <3>1. PICK t \in batch : m = Moved(t)
      BY <1>0 DEF FallenOut
    <3> QED BY <3>1, FallenOutMoves
  <2>4. \A t \in batch :
          t \in FallenOut(d) \/ (Shift = 1 /\ t.pos = 1 /\ 1 \in Waiting(d)) => FallenOut(d)' # {}
    BY FallenOutMoves
  <2>5. d \in Due' <=> /\ d \in Due
                       /\ ~(Shift = 1 /\ 1 \in Waiting(d) /\ \A t \in batch : t.pos # 1)
    BY <1>3, LostMoves DEF Due
  <2>6. CASE Shift = 1 /\ 1 \in Waiting(d)
    <3>1. Waiting(d)' = {}
      <4> SUFFICES ASSUME NEW p \in Waiting(d)' PROVE FALSE
        OBVIOUS
      <4>1. p + 1 = 1 /\ p \in Int /\ p \in 1 .. Len(queue')
        BY <2>0, <2>1, <2>6 DEF Placed, Waiting, Pending
      <4> QED BY <4>1
    <3>2. FallenOut(d) = {} /\ ~InTask(d)' /\ d \in Due
      BY <2>0, <2>6 DEF Placed
    <3>3. CASE \A t \in batch : t.pos # 1
      <4>1. FallenOut(d)' = {}
        BY <2>3, <3>2, <3>3
      <4> QED BY <2>5, <2>6, <3>1, <3>2, <3>3, <4>1 DEF Placed
    <3>4. CASE \E t \in batch : t.pos = 1
      <4>1. \A m, n \in FallenOut(d)' : m = n
        BY <1>0, <2>3, <3>2
      <4>2. FallenOut(d)' # {}
        BY <2>4, <2>6, <3>4
      <4> QED BY <2>5, <3>1, <3>2, <3>4, <4>1, <4>2 DEF Placed
    <3> QED BY <3>3, <3>4
  <2>7. CASE ~(Shift = 1 /\ 1 \in Waiting(d))
    <3>1. Waiting(d) # {} => Waiting(d)' # {}
      <4> SUFFICES ASSUME NEW q \in Waiting(d) PROVE Waiting(d)' # {}
        OBVIOUS
      <4>1. q - Shift \in Int /\ q - Shift >= 1 /\ (q - Shift) + Shift = q
        BY <1>0, <1>1, <2>7
      <4>2. q - Shift \in Waiting(d)'
        BY <2>1, <4>1
      <4> QED BY <4>2
    <3>2. Waiting(d)' # {} => Waiting(d) # {}
      BY <2>1
    <3>3. \A m, n \in FallenOut(d)' : m = n
      BY <2>0, <2>3, <2>7 DEF Placed
    <3>4. FallenOut(d)' # {} <=> FallenOut(d) # {}
      <4>1. \A t \in FallenOut(d) : t \in batch
        BY DEF FallenOut
      <4> QED BY <2>3, <2>4, <2>7, <4>1
    <3> QED BY <2>0, <2>2, <2>5, <2>7, <3>1, <3>2, <3>3, <3>4 DEF Placed
  <2> QED BY <2>6, <2>7
<1> QED BY <1>2, <1>3 DEF PlaceInv

LEMMA SendBatch ==
  ASSUME BatchOK, QueueOK, BatchInv, NEW c \in Calls, SendToDlq(c), UNCHANGED sent
  PROVE  BatchInv'
<1>0. /\ Len(queue) \in Nat /\ Shift \in {0, 1}
      /\ \A p \in 1 .. Len(queue) - Shift : queue'[p] = queue[p + Shift]
      /\ batch' = {Moved(t) : t \in batch}
      /\ \A t \in batch : /\ Moved(t).pos = t.pos - Shift /\ Moved(t).call = t.call
                          /\ t.pos \in Int /\ t.pos <= Len(queue)
      /\ \A t, u \in batch : t.pos = u.pos => t = u
  BY Appended, MovedBatch DEF BatchOK, BatchInv
<1> HIDE DEF Shift, Moved
<1>1. sent' => batch' # {}
  BY <1>0 DEF BatchInv
<1>2. ASSUME NEW m \in batch', NEW n \in batch', m.pos = n.pos PROVE m = n
  <2>1. PICK t \in batch : m = Moved(t)
    BY <1>0
  <2>2. PICK u \in batch : n = Moved(u)
    BY <1>0
  <2>3. t.pos = u.pos
    BY <1>0, <1>2, <2>1, <2>2
  <2> QED BY <1>0, <2>1, <2>2, <2>3
<1>3. ASSUME NEW m \in batch', m.pos >= 1
      PROVE  queue'[m.pos] = [call |-> m.call, status |-> "PENDING"]
  <2>1. PICK t \in batch : m = Moved(t)
    BY <1>0
  <2>2. m.pos \in 1 .. Len(queue) - Shift /\ m.pos + Shift = t.pos /\ t.pos >= 1 /\ m.call = t.call
    BY <1>0, <1>3, <2>1
  <2> QED BY <1>0, <2>2 DEF BatchInv
<1> QED BY <1>1, <1>2, <1>3 DEF BatchInv

-----------------------------------------------------------------------------
(***************************************************************************)
(* Each step keeps every call in its place or moves the one it is about.   *)
(***************************************************************************)
LEMMA NotDueNowhere ==
  ASSUME NEW c \in Calls, Placed(c), c \notin Due
  PROVE  Waiting(c) = {} /\ FallenOut(c) = {} /\ ~InTask(c)
BY DEF Placed

LEMMA BatchKept ==
  ASSUME BatchInv, UNCHANGED <<queue, batch, sent>>
  PROVE  BatchInv'
BY DEF BatchInv

LEMMA PublishPlaces ==
  ASSUME Base, Account, NEW e \in Events, Publish(e)
  PROVE  Account'
<1> DEFINE c == <<e, "publish">>
<1>1. /\ c \in Calls /\ c \notin calls /\ calls' = calls \cup {c}
      /\ attempt' = [attempt EXCEPT ![c] = 1] /\ attempt \in [Calls -> 0 .. Attempts]
      /\ UNCHANGED <<returned, lost, queue, batch, sent>>
      /\ returned \subseteq calls /\ lost \subseteq calls
  BY PublishedCalls DEF Publish, Base, TasksOK
<1>2. AnnounceInv'
  <2>1. IsFiniteSet(calls')
    BY <1>1, FS_AddElement DEF Account, AnnounceInv
  <2>2. <<e, "announce">> \notin calls /\ announcing' = announcing \cup {e}
    BY DEF Account, AnnounceInv, Publish
  <2>3. \A f \in Events : <<f, "announce">> # c /\ (<<f, "publish">> = c <=> f = e)
    OBVIOUS
  <2> HIDE DEF c
  <2>4. \A f \in Events : f # e =>
          /\ <<f, "announce">> \in calls' <=> <<f, "announce">> \in calls
          /\ <<f, "publish">> \in calls' <=> <<f, "publish">> \in calls
          /\ f \in announcing' <=> f \in announcing
    BY <1>1, <2>2, <2>3
  <2>5. <<e, "publish">> \in calls' /\ <<e, "announce">> \notin calls'
    BY <1>1, <2>2, <2>3
  <2> QED BY <2>1, <2>4, <2>5 DEF Account, AnnounceInv
<1> HIDE DEF c
<1>3. Placed(c)'
  <2>1. Waiting(c) = {} /\ FallenOut(c) = {}
    BY <1>1, NotDueNowhere DEF Account, PlaceInv, Due
  <2>2. Waiting(c)' = {} /\ FallenOut(c)' = {}
    BY <1>1, <2>1, PlacesStay
  <2>3. c \in Due' /\ InTask(c)'
    BY <1>1 DEF Due, InTask
  <2> QED BY <2>2, <2>3 DEF Placed
<1>4. ASSUME NEW d \in Calls, d # c PROVE Placed(d)'
  <2>1. (InTask(d)' <=> InTask(d)) /\ (d \in Due' <=> d \in Due)
    BY <1>1, <1>4 DEF InTask, Due
  <2> QED BY <1>1, <2>1, PlacesStay, StaysPlaced DEF Account, PlaceInv
<1> QED BY <1>1, <1>2, <1>3, <1>4, BatchKept DEF Account, PlaceInv

LEMMA AnnouncePlaces ==
  ASSUME Base, Account, NEW e \in Events, Announce(e)
  PROVE  Account'
<1>1. UNCHANGED <<calls, attempt, returned, lost, queue, batch, sent>> /\ announcing' \subseteq announcing
  BY DEF Announce
<1>2. AnnounceInv'
  BY <1>1 DEF Account, AnnounceInv
<1>3. ASSUME NEW d \in Calls PROVE Placed(d)'
  BY <1>1, PlacesStay, StaysPlaced DEF Account, PlaceInv, InTask, Due
<1> QED BY <1>1, <1>2, <1>3, BatchKept DEF Account, PlaceInv

LEMMA AnnounceFailsPlaces ==
  ASSUME Base, Account, NEW e \in Events, AnnounceFails(e)
  PROVE  Account'
<1> DEFINE c == <<e, "announce">>
<1>1. /\ c \in Calls /\ c \notin calls /\ calls' = calls \cup {c} /\ SendToDlq(c)
      /\ UNCHANGED <<attempt, returned, sent>> /\ attempt \in [Calls -> 0 .. Attempts]
      /\ returned \subseteq calls /\ lost \subseteq calls
  BY PublishedCalls DEF AnnounceFails, Base, TasksOK, Account, AnnounceInv
<1>2. AnnounceInv'
  <2>1. IsFiniteSet(calls')
    BY <1>1, FS_AddElement DEF Account, AnnounceInv
  <2>2. <<e, "publish">> \in calls /\ announcing' = announcing \ {e}
    BY DEF Account, AnnounceInv, AnnounceFails
  <2>3. \A f \in Events : <<f, "publish">> # c /\ (<<f, "announce">> = c <=> f = e)
    OBVIOUS
  <2> HIDE DEF c
  <2>4. \A f \in Events : f # e =>
          /\ <<f, "announce">> \in calls' <=> <<f, "announce">> \in calls
          /\ <<f, "publish">> \in calls' <=> <<f, "publish">> \in calls
          /\ f \in announcing' <=> f \in announcing
    BY <1>1, <2>2, <2>3
  <2>5. <<e, "publish">> \in calls' /\ e \notin announcing'
    BY <1>1, <2>2
  <2> QED BY <2>1, <2>4, <2>5 DEF Account, AnnounceInv
<1> HIDE DEF c
<1>3. Waiting(c) = {} /\ FallenOut(c) = {} /\ ~InTask(c)
  BY <1>1, NotDueNowhere DEF Account, PlaceInv, Due
<1>4. \A d \in Calls : InTask(d)' <=> InTask(d)
  BY <1>1 DEF InTask
<1>5. PlaceInv'
  BY <1>1, <1>3, <1>4, SendPlaces DEF Base, Account
<1> QED BY <1>1, <1>2, <1>5, SendBatch DEF Base, Account

LEMMA TaskPlaces ==
  ASSUME Base, Account, NEW c \in Calls, Return(c) \/ Raise(c)
  PROVE  Account'
<1>1. attempt \in [Calls -> 0 .. Attempts] /\ InTask(c) /\ Placed(c) /\ c \in calls
  BY DEF Return, Raise, InTask, Base, TasksOK, Account, PlaceInv
<1>2. Waiting(c) = {} /\ FallenOut(c) = {} /\ c \notin returned /\ c \notin lost
  BY <1>1 DEF Placed, Due
<1>3. UNCHANGED <<calls, announcing, sent>>
  BY DEF Return, Raise
<1>4. AnnounceInv'
  BY <1>3 DEF Account, AnnounceInv
<1>5. CASE Return(c)
  <2>1. /\ attempt' = [attempt EXCEPT ![c] = 0] /\ returned' = returned \cup {c}
        /\ UNCHANGED <<lost, queue, batch>>
    BY <1>5 DEF Return
  <2>2. Placed(c)'
    <3>1. Waiting(c)' = {} /\ FallenOut(c)' = {}
      BY <1>2, <1>3, <2>1, PlacesStay
    <3>2. c \notin Due' /\ ~InTask(c)'
      BY <1>1, <2>1 DEF Due, InTask
    <3> QED BY <3>1, <3>2 DEF Placed
  <2>3. ASSUME NEW d \in Calls, d # c PROVE Placed(d)'
    <3>1. (InTask(d)' <=> InTask(d)) /\ (d \in Due' <=> d \in Due)
      BY <1>1, <1>3, <2>1, <2>3 DEF InTask, Due
    <3> QED BY <1>3, <2>1, <3>1, PlacesStay, StaysPlaced DEF Account, PlaceInv
  <2> QED BY <1>3, <1>4, <2>1, <2>2, <2>3, BatchKept DEF Account, PlaceInv
<1>6. CASE Raise(c) /\ AttemptsLeft(c)
  <2>1. /\ attempt' = [attempt EXCEPT ![c] = attempt[c] + 1] /\ attempt[c] \in Nat
        /\ UNCHANGED <<returned, lost, queue, batch>>
    BY <1>1, <1>6 DEF Raise
  <2>2. ASSUME NEW d \in Calls PROVE Placed(d)'
    <3>1. InTask(d)' <=> InTask(d)
      BY <1>1, <2>1 DEF InTask
    <3> QED BY <1>3, <2>1, <3>1, PlacesStay, StaysPlaced DEF Account, PlaceInv, Due
  <2> QED BY <1>3, <1>4, <2>1, <2>2, BatchKept DEF Account, PlaceInv
<1>7. CASE Raise(c) /\ ~AttemptsLeft(c)
  <2>1. /\ attempt' = [attempt EXCEPT ![c] = 0] /\ SendToDlq(c)
        /\ UNCHANGED returned /\ calls' = calls \cup {c}
    BY <1>1, <1>3, <1>7 DEF Raise, Exhausted
  <2>2. ~InTask(c)' /\ \A d \in Calls : d # c => (InTask(d)' <=> InTask(d))
    BY <1>1, <2>1 DEF InTask
  <2>3. PlaceInv'
    BY <1>2, <1>3, <2>1, <2>2, SendPlaces DEF Base, Account
  <2> QED BY <1>3, <1>4, <2>1, <2>3, SendBatch DEF Base, Account
<1> QED BY <1>5, <1>6, <1>7

LEMMA TakePlaces ==
  ASSUME Base, Account, Take
  PROVE  Account'
<1>1. /\ batch = {} /\ batch' = {[call |-> queue[p].call, pos |-> p] : p \in Oldest}
      /\ UNCHANGED <<calls, attempt, returned, lost, announcing, queue, sent>>
      /\ ~sent /\ ~sent'
  BY DEF Take, Account, BatchInv, Base, TasksOK
<1>2. \A p \in Oldest : p \in 1 .. Len(queue) /\ queue[p].status = "PENDING" /\ queue[p] \in Letter
  BY DEF Oldest, Pending, Base, QueueOK
<1>3. \A t \in batch' : t.pos \in Oldest /\ t = [call |-> queue[t.pos].call, pos |-> t.pos]
  BY <1>1
<1>4. BatchInv'
  <2>1. ASSUME NEW t \in batch' PROVE queue'[t.pos] = [call |-> t.call, status |-> "PENDING"]
    <3>1. queue[t.pos] \in Letter /\ queue[t.pos].status = "PENDING" /\ t.call = queue[t.pos].call
      BY <1>2, <1>3
    <3> QED BY <1>1, <3>1 DEF Letter
  <2>2. \A t, u \in batch' : t.pos = u.pos => t = u
    BY <1>3
  <2> QED BY <1>1, <2>1, <2>2 DEF BatchInv
<1>5. ASSUME NEW d \in Calls PROVE Placed(d)'
  <2>1. Waiting(d)' = Waiting(d)
    BY <1>1 DEF Waiting, Pending, IsSent
  <2>2. FallenOut(d) = {}
    BY <1>1 DEF FallenOut
  <2>3. FallenOut(d)' = {}
    <3>1. \A t \in batch' : t.pos \in 1 .. Len(queue) /\ Len(queue) \in Nat
      BY <1>2, <1>3 DEF Base, QueueOK
    <3>2. \A t \in batch' : ~(t.pos < 1)
      BY <3>1
    <3> QED BY <3>2 DEF FallenOut
  <2> QED BY <1>1, <2>1, <2>2, <2>3, StaysPlaced DEF Account, PlaceInv, InTask, Due
<1> QED BY <1>1, <1>4, <1>5 DEF Account, AnnounceInv, PlaceInv

\* The letter that is published next is the only one IsSent speaks of.
LEMMA SentIsNext ==
  ASSUME BatchOK, BatchInv, NEW t \in batch, IsNext(t), sent, NEW p
  PROVE  IsSent(p) <=> p = t.pos
BY NextIsOne DEF IsSent

LEMMA ReplayPlaces ==
  ASSUME Base, Account, NEW t \in batch, Replay(t)
  PROVE  Account'
<1>1. /\ ~sent /\ IsNext(t) /\ sent' = TRUE
      /\ attempt' = [attempt EXCEPT ![t.call] = 1] /\ attempt \in [Calls -> 0 .. Attempts]
      /\ UNCHANGED <<calls, returned, lost, announcing, queue, batch>>
      /\ t.call \in Calls /\ t.pos \in Int /\ t.pos <= Len(queue) /\ Len(queue) \in Nat
  BY DEF Replay, Base, TasksOK, BatchOK, QueueOK, Taken
<1>2. BatchInv'
  BY <1>1 DEF Account, BatchInv
<1>3. \A p : IsSent(p)' <=> p = t.pos
  BY <1>1, NextIsOne DEF IsSent, IsNext, Base, Account
<1>4. \A u \in batch : IsNext(u)' <=> u = t
  BY <1>1, NextIsOne DEF IsNext, Base, Account
<1>5. \A d \in Calls : Waiting(d)' = Waiting(d) \ {t.pos}
  <2>1. \A d \in Calls : Waiting(d) = {p \in Pending : queue[p].call = d}
    BY <1>1 DEF Waiting, IsSent
  <2>2. \A d \in Calls : Waiting(d)' = {p \in Pending : queue[p].call = d /\ p # t.pos}
    BY <1>1, <1>3 DEF Waiting, Pending
  <2> QED BY <2>1, <2>2
<1>6. \A d \in Calls : FallenOut(d)' = FallenOut(d) \ {t}
  <2>1. \A d \in Calls : FallenOut(d) = {u \in batch : u.call = d /\ u.pos < 1}
    BY <1>1 DEF FallenOut
  <2>2. \A d \in Calls : FallenOut(d)' = {u \in batch : u.call = d /\ u.pos < 1 /\ u # t}
    BY <1>1, <1>4 DEF FallenOut
  <2> QED BY <2>1, <2>2
<1>7. t.pos \in Waiting(t.call) \/ t \in FallenOut(t.call)
  <2>1. CASE t.pos < 1
    BY <1>1, <2>1 DEF FallenOut
  <2>2. CASE ~(t.pos < 1)
    <3>1. t.pos \in 1 .. Len(queue) /\ queue[t.pos] = [call |-> t.call, status |-> "PENDING"]
      BY <1>1, <2>2 DEF Account, BatchInv
    <3> QED BY <1>1, <3>1 DEF Waiting, Pending, IsSent
  <2> QED BY <2>1, <2>2
<1>8. Placed(t.call)'
  <2>1. Placed(t.call)
    BY <1>1 DEF Account, PlaceInv
  <2>2. Waiting(t.call)' = {} /\ FallenOut(t.call)' = {} /\ t.call \in Due
    BY <1>1, <1>5, <1>6, <1>7, <2>1 DEF Placed
  <2>3. PICK d \in Calls : d = t.call
    BY <1>1
  <2>4. InTask(d)' /\ d \in Due' /\ Waiting(d)' = {} /\ FallenOut(d)' = {}
    BY <1>1, <1>5, <1>6, <2>2, <2>3 DEF InTask, Due
  <2> QED BY <2>3, <2>4 DEF Placed
<1>9. ASSUME NEW d \in Calls, d # t.call PROVE Placed(d)'
  <2>1. t.pos \notin Waiting(d)
    <3>0. t.pos >= 1 => queue[t.pos] = [call |-> t.call, status |-> "PENDING"]
      BY DEF Account, BatchInv
    <3>1. t.pos >= 1 => queue[t.pos].call = t.call
      BY <3>0
    <3> QED BY <1>1, <1>9, <3>1 DEF Waiting, Pending
  <2>2. t \notin FallenOut(d)
    BY <1>9 DEF FallenOut
  <2>3. InTask(d)' <=> InTask(d)
    BY <1>1, <1>9 DEF InTask
  <2> QED BY <1>1, <1>5, <1>6, <2>1, <2>2, <2>3, StaysPlaced DEF Account, PlaceInv, Due
<1> QED BY <1>1, <1>2, <1>8, <1>9 DEF Account, AnnounceInv, PlaceInv

LEMMA ReplayedPlaces ==
  ASSUME Base, Account, NEW t \in batch, Replayed(t)
  PROVE  Account'
<1>1. /\ sent /\ IsNext(t) /\ sent' = FALSE
      /\ queue' = MarkRetried(t) /\ batch' = batch \ {t}
      /\ UNCHANGED <<calls, attempt, returned, lost, announcing>>
      /\ t.pos \in Int /\ t.pos <= Len(queue) /\ Len(queue) \in Nat
      /\ \A u \in batch : u.pos \in Int /\ u.pos <= Len(queue)
  BY DEF Replayed, Base, BatchOK, QueueOK, Taken
<1>2. Len(queue') = Len(queue) /\ \A p \in 1 .. Len(queue) : p # t.pos => queue'[p] = queue[p]
  BY <1>1 DEF MarkRetried, Base, QueueOK
<1>3. t.pos \in 1 .. Len(queue) => queue'[t.pos].status = "RETRIED"
  BY <1>1 DEF MarkRetried, Base, QueueOK, Letter
<1>4. Pending' = Pending \ {t.pos} /\ t.pos \notin Pending'
  BY <1>1, <1>2, <1>3 DEF Pending
<1>5. BatchInv'
  <2>1. \A u \in batch' : u.pos # t.pos
    BY <1>1 DEF Account, BatchInv
  <2>2. \A u \in batch' : u.pos >= 1 => u.pos \in 1 .. Len(queue) /\ queue'[u.pos] = queue[u.pos]
    BY <1>1, <1>2, <2>1
  <2> QED BY <1>1, <2>2 DEF Account, BatchInv
<1>6. \A p : IsSent(p) <=> p = t.pos
  BY <1>1, SentIsNext DEF Base, Account
<1>7. ASSUME NEW d \in Calls PROVE Waiting(d)' = Waiting(d) /\ FallenOut(d)' = FallenOut(d)
  <2>1. Waiting(d) = {p \in Pending : queue[p].call = d /\ p # t.pos}
    BY <1>6 DEF Waiting
  <2>2. Waiting(d)' = {p \in Pending' : queue'[p].call = d}
    BY <1>1 DEF Waiting, IsSent
  <2>3. \A p \in Pending' : p \in Pending /\ p # t.pos /\ queue'[p] = queue[p]
    BY <1>2, <1>4 DEF Pending
  <2>4. FallenOut(d) = {u \in batch : u.call = d /\ u.pos < 1 /\ u # t}
    BY <1>1, NextIsOne DEF FallenOut, Base, Account
  <2>5. FallenOut(d)' = {u \in batch \ {t} : u.call = d /\ u.pos < 1}
    BY <1>1 DEF FallenOut
  <2> QED BY <1>4, <2>1, <2>2, <2>3, <2>4, <2>5
<1>8. ASSUME NEW d \in Calls PROVE Placed(d)'
  BY <1>1, <1>7, StaysPlaced DEF Account, PlaceInv, InTask, Due
<1> QED BY <1>1, <1>5, <1>8 DEF Account, AnnounceInv, PlaceInv

LEMMA RestartPlaces ==
  ASSUME Base, Account, Restart
  PROVE  Account'
<1>1. /\ queue' = <<>> /\ batch' = {} /\ sent' = FALSE /\ announcing' = {} /\ calls' = calls
      /\ returned' = returned /\ lost' = lost \cup (calls \ returned) /\ attempt' = [c \in Calls |-> 0]
  BY DEF Restart
<1>2. ASSUME NEW d \in Calls PROVE Placed(d)'
  <2>1. ~InTask(d)' /\ d \notin Due'
    BY <1>1 DEF InTask, Due
  <2>2. Waiting(d)' = {} /\ FallenOut(d)' = {}
    BY <1>1 DEF Waiting, FallenOut, Pending
  <2> QED BY <2>1, <2>2 DEF Placed
<1> QED BY <1>1, <1>2 DEF Account, BatchInv, AnnounceInv, PlaceInv

LEMMA AccountNext == Base /\ Account /\ [Next]_vars => Account'
<1> SUFFICES ASSUME Base, Account, [Next]_vars PROVE Account'
  OBVIOUS
<1>1. CASE UNCHANGED vars
  <2>1. UNCHANGED <<calls, attempt, returned, lost, announcing, queue, batch, sent>>
    BY <1>1 DEF vars
  <2>2. ASSUME NEW d \in Calls PROVE Placed(d)'
    BY <2>1, PlacesStay, StaysPlaced DEF Account, PlaceInv, InTask, Due
  <2> QED BY <2>1, <2>2, BatchKept DEF Account, AnnounceInv, PlaceInv
<1> QED BY <1>1, PublishPlaces, AnnouncePlaces, AnnounceFailsPlaces, TaskPlaces, TakePlaces,
           ReplayPlaces, ReplayedPlaces, RestartPlaces DEF Next

LEMMA Accounted == Spec => [](Base /\ Account)
<1>1. Init => Account
  <2> SUFFICES ASSUME Init PROVE Account
    OBVIOUS
  <2>1. BatchInv /\ AnnounceInv
    BY FS_EmptySet DEF Init, BatchInv, AnnounceInv
  <2>2. ASSUME NEW d \in Calls PROVE Placed(d)
    BY DEF Init, Placed, Waiting, FallenOut, Pending, InTask, Due
  <2> QED BY <2>1, <2>2 DEF Account, PlaceInv
<1> QED BY <1>1, AccountNext, Initially, BaseNext, PTL DEF Spec

\* A call that is due is with one task, or is one letter that was not replayed
\* yet, or is in the batch after its letter fell out, and a call that is not
\* due is nowhere: no retry, replay or full queue forgets a call or doubles it.
THEOREM CallsAccounted == Spec => []EveryCallIsAccounted
<1>1. Base /\ Account => EveryCallIsAccounted
  <2> SUFFICES ASSUME Account, NEW c \in Calls
               PROVE  (IF InTask(c) THEN 1 ELSE 0) + Cardinality(Waiting(c)) + Cardinality(FallenOut(c))
                        = IF c \in Due THEN 1 ELSE 0
    BY DEF EveryCallIsAccounted
  <2>1. Placed(c)
    BY DEF Account, PlaceInv
  <2>2. \A S : (\A x, y \in S : x = y) => Cardinality(S) = IF S = {} THEN 0 ELSE 1
    <3> SUFFICES ASSUME NEW S, \A x, y \in S : x = y
                 PROVE  Cardinality(S) = IF S = {} THEN 0 ELSE 1
      OBVIOUS
    <3>1. CASE S = {}
      BY <3>1, FS_EmptySet
    <3>2. CASE S # {}
      <4>1. PICK x \in S : S = {x}
        BY <3>2
      <4> QED BY <3>2, <4>1, FS_Singleton
    <3> QED BY <3>1, <3>2
  <2>3. /\ Cardinality(Waiting(c)) = IF Waiting(c) = {} THEN 0 ELSE 1
        /\ Cardinality(FallenOut(c)) = IF FallenOut(c) = {} THEN 0 ELSE 1
    BY <2>1, <2>2 DEF Placed
  <2> QED BY <2>1, <2>3 DEF Placed
<1> QED BY <1>1, Accounted, PTL

-----------------------------------------------------------------------------
(***************************************************************************)
(* The bus implements CallDuties.                                          *)
(***************************************************************************)

\* Every letter of a full queue that gives one up is the only one of a call
\* still to be made; the call whose letter comes in is not among them.
LEMMA Overload ==
  ASSUME Base, Account, NEW c \in Calls, Waiting(c) = {}, NEW d \in Calls, FallsUnreplayed(d)
  PROVE  d \in Due \ {c} /\ Cardinality(Due \cup {c}) > QueueSize
<1>1. /\ Len(queue) = QueueSize /\ queue \in Seq(Letter) /\ 1 \in 1 .. Len(queue)
      /\ queue[1].status = "PENDING" /\ queue[1].call = d /\ 1 \in Pending
      /\ \A t \in batch : t.pos # 1
  BY DEF FallsUnreplayed, Falls, Pending, Base, QueueOK
<1>2. \A p \in 1 .. QueueSize : p \in Pending
  <2> SUFFICES ASSUME NEW p \in 1 .. QueueSize PROVE queue[p].status = "PENDING"
    BY <1>1 DEF Pending
  <2>1. queue[p] \in Letter /\ p \in 1 .. Len(queue)
    BY <1>1
  <2>2. p # 1 => queue[p].status # "RETRIED"
    BY <1>1, <2>1 DEF Base, Ordered
  <2> QED BY <1>1, <2>1, <2>2 DEF Letter
<1>3. \A p \in 1 .. QueueSize : ~IsSent(p)
  <2>1. \A t \in batch : t.pos \in Int /\ ~(1 < t.pos)
    BY <1>1 DEF Base, BatchOK, Taken
  <2> QED BY <1>1, <2>1 DEF IsSent
<1>4. \A p \in 1 .. QueueSize : p \in Waiting(queue[p].call) /\ queue[p].call \in Calls
  <2>1. \A p \in 1 .. QueueSize : queue[p] \in Letter
    BY <1>1
  <2> QED BY <1>2, <1>3, <2>1 DEF Waiting, Letter
<1> DEFINE S == Due \cup {c}
<1>5. \A p \in 1 .. QueueSize : queue[p].call \in Due /\ queue[p].call # c
  BY <1>4 DEF Account, PlaceInv, Placed
<1>6. \A p, q \in 1 .. QueueSize : queue[p].call = queue[q].call => p = q
  BY <1>4 DEF Account, PlaceInv, Placed
<1> DEFINE f == [p \in 0 .. QueueSize |-> IF p = 0 THEN c ELSE queue[p].call]
<1>7. f \in Injection(0 .. QueueSize, S)
  <2>1. f \in [0 .. QueueSize -> S]
    BY <1>5
  <2>2. \A p, q \in 0 .. QueueSize : f[p] = f[q] => p = q
    BY <1>5, <1>6
  <2> HIDE DEF f, S
  <2> QED BY <2>1, <2>2 DEF Injection, IsInjective
<1>8. IsFiniteSet(S)
  <2>1. IsFiniteSet(calls) /\ Due \subseteq calls
    BY DEF Account, AnnounceInv, Due
  <2>2. IsFiniteSet(Due)
    BY <2>1, FS_Subset
  <2> QED BY <2>2, FS_AddElement
<1>9. Cardinality(0 .. QueueSize) = QueueSize + 1
  BY FS_Interval
<1>10. Cardinality(S) > QueueSize
  <2> HIDE DEF f, S
  <2>1. Cardinality(0 .. QueueSize) <= Cardinality(S) /\ Cardinality(S) \in Nat
    BY <1>7, <1>8, FS_Injection, FS_CardinalityType
  <2> QED BY <1>9, <2>1
<1> QED BY <1>1, <1>5, <1>10

\* What a dead letter of a call that waits nowhere else does to the duties.
LEMMA SendDuty ==
  ASSUME Base, Account, NEW c \in Calls, SendToDlq(c), Waiting(c) = {}, UNCHANGED returned,
         c \in Due \/ c \notin calls, calls' = calls \cup {c}
  PROVE  \/ lost' = lost /\ Due' = Due \cup {c}
         \/ \E d \in Calls : Duties!Yield(c, d)
<1>0. returned \subseteq calls /\ lost \subseteq calls /\ Due = calls \ (returned \cup lost)
  BY DEF Base, TasksOK, Due
<1>1. CASE lost' = lost
  BY <1>0, <1>1 DEF Due
<1>2. CASE lost' # lost
  <2>1. PICK d \in Calls : FallsUnreplayed(d)
    BY <1>2 DEF SendToDlq
  <2>2. \A e : FallsUnreplayed(e) => e = d
    BY <2>1 DEF FallsUnreplayed, Falls
  <2>3. lost' = lost \cup {d}
    BY <2>1, <2>2 DEF SendToDlq
  <2>4. d \in Due \ {c} /\ Cardinality(Due \cup {c}) > QueueSize
    BY <2>1, Overload
  <2>5. Due' = (Due \cup {c}) \ {d}
    BY <1>0, <2>3, <2>4 DEF Due
  <2>6. c \in Due \/ c \notin Duties!Known
    BY <1>0 DEF Duties!Known
  <2>7. Duties!Cardinality(Due \cup {c}) = Cardinality(Due \cup {c})
    BY DEF Duties!Cardinality, Cardinality
  <2> QED BY <2>3, <2>4, <2>5, <2>6, <2>7 DEF Duties!Yield
<1> QED BY <1>1, <1>2

\* Whatever fails, a call is due until its subscriber has returned, which it
\* does once; a full queue gives one up only when more calls are due than it has
\* places, and a restart gives up all: every step of the bus, the retries and the
\* replay loop is a step of CallDuties or leaves the duties alone.
THEOREM Implementation == Spec => ImplementsDuties
<1>1. Init => Duties!Init
  BY DEF Init, Duties!Init, Due
<1>2. Base /\ Account /\ [Next]_vars => [Duties!Next]_(Duties!vars)
  <2> SUFFICES ASSUME Base, Account, [Next]_vars
               PROVE  Duties!Next \/ UNCHANGED <<calls, returned, lost>>
    BY DEF Duties!vars, Due
  <2>0. /\ returned \subseteq calls /\ lost \subseteq calls /\ Duties!Known = calls
        /\ \A e \in Events : <<e, "publish">> \in Calls /\ <<e, "announce">> \in Calls
    BY PublishedCalls DEF Base, TasksOK, Due, Duties!Known
  <2>1. ASSUME NEW e \in Events, Publish(e) PROVE Duties!Next
    <3> DEFINE c == <<e, "publish">>
    <3>1. c \in Calls /\ c \notin calls /\ calls' = calls \cup {c} /\ UNCHANGED <<returned, lost>>
      BY <2>0, <2>1 DEF Publish
    <3> HIDE DEF c
    <3>2. Due' = Due \cup {c}
      BY <2>0, <3>1 DEF Due
    <3> QED BY <2>0, <3>1, <3>2 DEF Duties!Next, Duties!Owe
  <2>2. ASSUME NEW e \in Events, AnnounceFails(e) PROVE Duties!Next
    <3> DEFINE c == <<e, "announce">>
    <3>1. /\ c \in Calls /\ c \notin calls /\ calls' = calls \cup {c} /\ SendToDlq(c)
          /\ UNCHANGED returned
      BY <2>0, <2>2 DEF AnnounceFails, Account, AnnounceInv
    <3> HIDE DEF c
    <3>2. Waiting(c) = {}
      BY <3>1, NotDueNowhere DEF Account, PlaceInv, Due
    <3>3. CASE lost' = lost /\ Due' = Due \cup {c}
      BY <2>0, <3>1, <3>3 DEF Duties!Next, Duties!Owe
    <3>4. CASE \E d \in Calls : Duties!Yield(c, d)
      BY <3>1, <3>4 DEF Duties!Next
    <3> QED BY <3>1, <3>2, <3>3, <3>4, SendDuty
  <2>3. ASSUME NEW c \in Calls, Return(c) PROVE Duties!Next
    <3>1. c \in Due
      BY <2>3 DEF Return, Account, PlaceInv, Placed, InTask
    <3>2. Due' = Due \ {c} /\ returned' = returned \cup {c} /\ UNCHANGED lost
      BY <2>3 DEF Return, Due
    <3> QED BY <3>1, <3>2 DEF Duties!Next, Duties!Return
  <2>4. ASSUME NEW c \in Calls, Raise(c)
        PROVE  Duties!Next \/ UNCHANGED <<calls, returned, lost>>
    <3>1. c \in Due /\ Waiting(c) = {} /\ UNCHANGED <<calls, returned>>
      BY <2>4 DEF Raise, Account, PlaceInv, Placed, InTask
    <3>2. CASE AttemptsLeft(c)
      BY <2>4, <3>2 DEF Raise
    <3>3. CASE ~AttemptsLeft(c)
      <4>1. SendToDlq(c) /\ calls' = calls \cup {c}
        BY <2>4, <3>1, <3>3 DEF Raise, Exhausted, Due
      <4>2. (lost' = lost) \/ \E d \in Calls : Duties!Yield(c, d)
        BY <3>1, <4>1, SendDuty
      <4> QED BY <3>1, <4>2 DEF Duties!Next
    <3> QED BY <3>2, <3>3
  <2>5. ASSUME Restart PROVE Duties!Next
    <3>1. lost' = lost \cup Due /\ Due' = {} /\ UNCHANGED returned
      BY <2>5 DEF Restart, Due
    <3> QED BY <2>5, <3>1 DEF Restart, Duties!Next, Duties!Restart
  <2>6. ASSUME \/ \E e \in Events : Announce(e)
               \/ Take
               \/ \E t \in batch : Replay(t) \/ Replayed(t)
               \/ UNCHANGED vars
        PROVE  UNCHANGED <<calls, returned, lost>>
    BY <2>6 DEF Announce, Take, Replay, Replayed, vars
  <2> QED BY <2>1, <2>2, <2>3, <2>4, <2>5, <2>6 DEF Next
<1> QED BY <1>1, <1>2, Accounted, PTL DEF Spec, ImplementsDuties, Duties!Spec
=============================================================================
