---------------------------- MODULE SourceMutex ----------------------------
(***************************************************************************)
(* What the collection lock promises about one data source: its            *)
(* collections run one after the other.  A collection enters when nobody   *)
(* is inside, and stays alone until it leaves.                             *)
(***************************************************************************)
CONSTANT Jobs

VARIABLE inside   \* the jobs that are collecting

Init == inside = {}

Enter(j) == inside = {} /\ inside' = {j}
Leave(j) == inside = {j} /\ inside' = {}

Next == \E j \in Jobs : Enter(j) \/ Leave(j)

Spec == Init /\ [][Next]_inside
=============================================================================
