----------------------------- MODULE CallDuties -----------------------------
(***************************************************************************)
(* What the event bus promises about the calls it owes its subscriber: a   *)
(* call once owed is owed until the subscriber has returned, which happens *)
(* once, and is given up for one of two reasons only: more calls are owed  *)
(* than there is room for dead letters, or the process restarts.           *)
(***************************************************************************)
EXTENDS Integers, FiniteSets

CONSTANTS
  Calls,     \* calls that may become due
  Room,      \* how many of them can wait
  Restarts   \* whether the process restarts

VARIABLES due, returned, lost

vars == <<due, returned, lost>>

Known == due \cup returned \cup lost

Init == due = {} /\ returned = {} /\ lost = {}

Owe(c) ==
  /\ c \notin Known
  /\ due' = due \cup {c}
  /\ UNCHANGED <<returned, lost>>

Return(c) ==
  /\ c \in due
  /\ due' = due \ {c}
  /\ returned' = returned \cup {c}
  /\ UNCHANGED lost

\* call d has to make room for c, which is new or has failed
Yield(c, d) ==
  /\ c \in due \/ c \notin Known
  /\ d \in due \ {c}
  /\ Cardinality(due \cup {c}) > Room
  /\ due' = (due \cup {c}) \ {d}
  /\ lost' = lost \cup {d}
  /\ UNCHANGED returned

Restart ==
  /\ Restarts
  /\ lost' = lost \cup due
  /\ due' = {}
  /\ UNCHANGED returned

Next ==
  \/ \E c \in Calls : Owe(c) \/ Return(c)
  \/ \E c, d \in Calls : Yield(c, d)
  \/ Restart

Spec == Init /\ [][Next]_vars
=============================================================================
