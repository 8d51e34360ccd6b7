--------------------------- MODULE OrderedAccess ---------------------------
(***************************************************************************)
(* What the sequencer promises the tracker back-end, without lists, chains *)
(* and notifications: operations arrive one after another and begin as     *)
(* soon as they may, queries side by side, but no query before an update   *)
(* that arrived earlier has ended, nor an update before such a query.      *)
(* Those of one sort begin in the order of their arrival, and a query on   *)
(* the direct connection begins when no other is left before it; one that  *)
(* is aborted is over at once, though its result is still being deleted.   *)
(*                                                                         *)
(* The chains of sequencingDependencies ask for this (tracker_p.cpp,       *)
(* trackeraccessqsparql.cpp).  Sequencer implements it.                    *)
(***************************************************************************)
EXTENDS Naturals

CONSTANTS
  Op,       \* operations, numbered in the order of their arrival
  Access    \* what they do: "read", "direct" or "write"

VARIABLES
  arrived,  \* how many have arrived
  access,   \* what each does
  status    \* "absent", "waiting", "running" or "over"

vars == <<arrived, access, status>>

Update(k) == k = "write"

Init ==
  /\ arrived = 0
  /\ access \in [Op -> Access]
  /\ status = [o \in Op |-> "absent"]

\* An operation o that does k may begin.
MayBegin(o, k) ==
  \A p \in Op : p < o =>
    /\ status[p] \in {"running", "over"}
    /\ Update(access[p]) # Update(k) \/ k = "direct" => status[p] = "over"

\* One arrives, and waits or, when it may, begins at once.
Arrive(k) ==
  LET o == arrived + 1 IN
  /\ o \in Op
  /\ arrived' = o
  /\ access' = [access EXCEPT ![o] = k]
  /\ \/ status' = [status EXCEPT ![o] = "waiting"]
     \/ MayBegin(o, k) /\ status' = [status EXCEPT ![o] = "running"]

Begin(o) ==
  /\ status[o] = "waiting" /\ MayBegin(o, access[o])
  /\ status' = [status EXCEPT ![o] = "running"]
  /\ UNCHANGED <<arrived, access>>

Finish(o) ==
  /\ status[o] = "running"
  /\ status' = [status EXCEPT ![o] = "over"]
  /\ UNCHANGED <<arrived, access>>

\* A query that waits is given up; an update never is.
GiveUp(o) ==
  /\ status[o] = "waiting" /\ ~Update(access[o])
  /\ status' = [status EXCEPT ![o] = "over"]
  /\ UNCHANGED <<arrived, access>>

Next ==
  \/ \E k \in Access : Arrive(k)
  \/ \E o \in Op : Begin(o) \/ Finish(o) \/ GiveUp(o)

Spec == Init /\ [][Next]_vars

=============================================================================
