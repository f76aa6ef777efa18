---------------------------- MODULE EventDelivery ----------------------------
(***************************************************************************)
(* The event bus of one API process (core/eventbus.py) and its dead letter *)
(* queue (core/dlq.py).  publish starts a background task that calls the   *)
(* subscriber, with retries, and announces the event on Redis; when either *)
(* fails the event becomes a dead letter, and the replay loop publishes    *)
(* the oldest letters again every five minutes.                            *)
(*                                                                         *)
(* What is followed is a call: the duty to call the subscriber once for an *)
(* event.  Publishing makes one, and so does a failed announcement, whose  *)
(* letter calls the subscriber when it is replayed.  A letter does not     *)
(* carry that name in the code; here it tells letters of one event apart.  *)
(*                                                                         *)
(* Abstractions.  Every event type has the one subscriber that             *)
(* register_notify_event_consumers gives it.  It returns whether or not    *)
(* the notification was stored (handle_business_event logs and returns),   *)
(* and raises when its session fails.  Nobody listens on Redis, and        *)
(* nothing reads the copy of the letters that send_to_dlq leaves there.    *)
(* The five minutes only separate one batch from the next.                 *)
(***************************************************************************)
EXTENDS Integers, FiniteSets, Sequences

CONSTANTS
  Events,     \* events, each published once
  Attempts,   \* length of _RETRY_DELAYS
  QueueSize,  \* _DLQ_MAX_SIZE
  BatchSize,  \* _REPLAY_BATCH_SIZE
  Faults      \* "raise" (the subscriber raises), "redis" (announcements
              \* fail), "crash" (the process restarts)

ASSUME SizesAssumption == /\ Attempts \in Nat \ {0}
                          /\ QueueSize \in Nat \ {0}
                          /\ BatchSize \in Nat \ {0}
ASSUME FaultsAssumption == Faults \subseteq {"raise", "redis", "crash"}

VARIABLES
  calls,       \* calls that have been made a duty
  attempt,     \* attempt[c]: attempt the task of call c is at, 0: no task
  returned,    \* calls whose subscriber has returned
  lost,        \* calls that went with the process or fell out of the queue
  announcing,  \* events whose publish waits for Redis
  queue,       \* the deque of dead letters, oldest first
  batch,       \* letters retry_dlq has taken and not finished, by position
  sent         \* the oldest letter of batch is published, not yet marked

vars == <<calls, attempt, returned, lost, announcing, queue, batch, sent>>

Calls == Events \X {"publish", "announce"}
Letter == [call : Calls, status : {"PENDING", "RETRIED"}]
\* pos < 1: the letter has fallen out of the queue since it was taken
Taken == [call : Calls, pos : Int]

Init ==
  /\ calls = {}
  /\ attempt = [c \in Calls |-> 0]
  /\ returned = {}
  /\ lost = {}
  /\ announcing = {}
  /\ queue = <<>>
  /\ batch = {}
  /\ sent = FALSE

-----------------------------------------------------------------------------
(* The dead letter queue *)

Pending == {p \in 1 .. Len(queue) : queue[p].status = "PENDING"}

\* a full deque drops its oldest letter, which is lost unless it is in batch
Falls(p) == Len(queue) = QueueSize /\ p = 1
FallsUnreplayed(c) ==
  \E p \in Pending : Falls(p) /\ queue[p].call = c /\ \A t \in batch : t.pos # p

\* send_to_dlq
SendToDlq(c) ==
  LET letter == [call |-> c, status |-> "PENDING"]
      full == Len(queue) = QueueSize
  IN /\ queue' = Append(IF full THEN Tail(queue) ELSE queue, letter)
     /\ batch' = IF full THEN {[t EXCEPT !.pos = @ - 1] : t \in batch} ELSE batch
     /\ lost' = lost \cup {d \in Calls : FallsUnreplayed(d)}

-----------------------------------------------------------------------------
(* The bus *)

\* publish: the task is started before Redis is asked
Publish(e) ==
  /\ <<e, "publish">> \notin calls
  /\ calls' = calls \cup {<<e, "publish">>}
  /\ attempt' = [attempt EXCEPT ![<<e, "publish">>] = 1]
  /\ announcing' = announcing \cup {e}
  /\ UNCHANGED <<returned, lost, queue, batch, sent>>

Announce(e) ==
  /\ e \in announcing
  /\ announcing' = announcing \ {e}
  /\ UNCHANGED <<calls, attempt, returned, lost, queue, batch, sent>>

AnnounceFails(e) ==
  /\ "redis" \in Faults
  /\ e \in announcing
  /\ announcing' = announcing \ {e}
  /\ calls' = calls \cup {<<e, "announce">>}
  /\ SendToDlq(<<e, "announce">>)
  /\ UNCHANGED <<attempt, returned, sent>>

\* _invoke_with_retry: the subscriber returns
Return(c) ==
  /\ attempt[c] > 0
  /\ attempt' = [attempt EXCEPT ![c] = 0]
  /\ returned' = returned \cup {c}
  /\ UNCHANGED <<calls, lost, announcing, queue, batch, sent>>

\* mutant of Exhausted: the letters of replayed calls are left out, as the
\* comment on _skip_dlq has it
ExhaustedOnce(c) ==
  IF sent \/ \E p \in 1 .. Len(queue) : queue[p].call = c
    THEN UNCHANGED <<queue, batch, lost>> ELSE SendToDlq(c)
\* after the last attempt the event is a dead letter, replayed or not
Exhausted(c) == SendToDlq(c)

\* mutant of AttemptsLeft: one attempt more than there are delays
AttemptsLeftToo(c) == attempt[c] <= Attempts
AttemptsLeft(c) == attempt[c] < Attempts

Raise(c) ==
  /\ "raise" \in Faults
  /\ attempt[c] > 0
  /\ IF AttemptsLeft(c)
       THEN /\ attempt' = [attempt EXCEPT ![c] = @ + 1]
            /\ UNCHANGED <<queue, batch, lost>>
       ELSE /\ attempt' = [attempt EXCEPT ![c] = 0]
            /\ Exhausted(c)
  /\ UNCHANGED <<calls, returned, announcing, sent>>

-----------------------------------------------------------------------------
(* The replay loop *)

\* mutant of Oldest: the newest letters come first
Newest == {p \in Pending : Cardinality({q \in Pending : q > p}) < BatchSize}
\* get_pending
Oldest == {p \in Pending : Cardinality({q \in Pending : q < p}) < BatchSize}

\* retry_dlq takes its letters
Take ==
  /\ batch = {}
  /\ Pending # {}
  /\ batch' = {[call |-> queue[p].call, pos |-> p] : p \in Oldest}
  /\ UNCHANGED <<calls, attempt, returned, lost, announcing, queue, sent>>

IsNext(t) == t \in batch /\ \A u \in batch : t.pos <= u.pos

\* publish starts the task ..
Replay(t) ==
  /\ ~sent
  /\ IsNext(t)
  /\ attempt' = [attempt EXCEPT ![t.call] = 1]
  /\ sent' = TRUE
  /\ UNCHANGED <<calls, returned, lost, announcing, queue, batch>>

\* mutant of MarkRetried: no letter is marked
MarkForgotten(t) == queue
MarkRetried(t) == IF t.pos < 1 THEN queue ELSE [queue EXCEPT ![t.pos].status = "RETRIED"]

\* .. and comes back from Redis, whose failure it ignores: mark_retried
Replayed(t) ==
  /\ sent
  /\ IsNext(t)
  /\ queue' = MarkRetried(t)
  /\ batch' = batch \ {t}
  /\ sent' = FALSE
  /\ UNCHANGED <<calls, attempt, returned, lost, announcing>>

-----------------------------------------------------------------------------
(* Restart: drain is not called, and nothing is restored *)

Restart ==
  /\ "crash" \in Faults
  /\ lost' = lost \cup (calls \ returned)
  /\ attempt' = [c \in Calls |-> 0]
  /\ announcing' = {}
  /\ queue' = <<>>
  /\ batch' = {}
  /\ sent' = FALSE
  /\ UNCHANGED <<calls, returned>>

-----------------------------------------------------------------------------

Next ==
  \/ \E e \in Events : Publish(e) \/ Announce(e) \/ AnnounceFails(e)
  \/ \E c \in Calls : Return(c) \/ Raise(c)
  \/ Take
  \/ \E t \in batch : Replay(t) \/ Replayed(t)
  \/ Restart

Spec == Init /\ [][Next]_vars

\* Tasks and the replay loop go on, and a subscriber that is called again and
\* again returns at last.
FairSpec ==
  /\ Spec
  /\ WF_vars(Take)
  /\ WF_vars(\E t \in batch : Replay(t) \/ Replayed(t))
  /\ \A c \in Calls : WF_vars(Return(c) \/ Raise(c)) /\ SF_vars(Return(c))

-----------------------------------------------------------------------------
(* Properties *)

\* Type invariant of the bus, the tasks and the queue.
TypeOK ==
  /\ calls \subseteq Calls
  /\ attempt \in [Calls -> 0 .. Attempts]
  /\ returned \subseteq calls
  /\ lost \subseteq calls
  /\ announcing \subseteq Events
  /\ queue \in Seq(Letter)
  /\ Len(queue) <= QueueSize
  /\ batch \subseteq Taken
  /\ sent \in BOOLEAN

\* where a call may wait
InTask(c) == attempt[c] > 0
IsSent(p) == sent /\ \E t \in batch : IsNext(t) /\ t.pos = p
Waiting(c) == {p \in Pending : queue[p].call = c /\ ~IsSent(p)}
FallenOut(c) == {t \in batch : t.call = c /\ t.pos < 1 /\ ~(sent /\ IsNext(t))}

\* calls still to be made
Due == calls \ (returned \cup lost)

\* A call that is due is in exactly one place: with a task, as one letter
\* not replayed yet, or in the batch after its letter has fallen out; and a call
\* that has returned is in none, so neither retries, exhausted replays
\* nor a full queue forget or double it.
EveryCallIsAccounted ==
  \A c \in Calls :
    LET places == (IF InTask(c) THEN 1 ELSE 0)
                    + Cardinality(Waiting(c)) + Cardinality(FallenOut(c))
    IN places = IF c \in Due THEN 1 ELSE 0

\* A full queue gives up a letter that nobody has replayed only when none of
\* its letters has been: replayed letters are the first to fall out.
ReplayedFallFirst ==
  [][lost' # lost /\ queue' # <<>>
       => \A p \in 1 .. Len(queue) : queue[p].status = "PENDING"]_vars

\* The bus keeps its duties: whatever fails, a call is due until its subscriber
\* has returned, which it does once, and a full queue gives one up only when
\* more calls are due than it has places: neither letters that have been replayed
\* nor second letters of one call take the place of one that waits.
Duties == INSTANCE CallDuties WITH
            due <- Due, Room <- QueueSize, Restarts <- "crash" \in Faults
ImplementsDuties == Duties!Spec

\* Every call is made in the end, however often it fails and whatever else is
\* in the queue, unless a restart or a full queue takes it.
EveryCallReturns == \A c \in Calls : c \in calls ~> c \in returned \cup lost

-----------------------------------------------------------------------------
(* What comments say, and the code does not keep *)

\* Only a full queue loses events: dead letters survive a restart.
LettersSurviveRestart ==
  [][\A p \in Pending : queue' # <<>> \/ queue[p].call \notin lost']_vars
=============================================================================
