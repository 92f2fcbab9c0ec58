--------------------------- MODULE WorkerLifetime ---------------------------
(***************************************************************************)
(* What the futures of a statement promise about the tasks that work on it *)
(* behind the application's back: a task is forked only while the handle   *)
(* is in use, and the handle's memory goes away only when the last task    *)
(* that refers to it has ended.                                            *)
(***************************************************************************)
CONSTANT Worker

VARIABLES
  phase,   \* "live", "closing" (the destructor runs) or "freed"
  alive    \* the workers that refer to the handle

vars == <<phase, alive>>

Init == phase = "live" /\ alive = {}

Fork(w) ==
  /\ phase = "live"
  /\ w \notin alive
  /\ alive' = alive \cup {w}
  /\ UNCHANGED phase

Finish(w) ==
  /\ w \in alive
  /\ alive' = alive \ {w}
  /\ UNCHANGED phase

Close ==
  /\ phase = "live"
  /\ phase' = "closing"
  /\ UNCHANGED alive

Free ==
  /\ phase = "closing"
  /\ alive = {}
  /\ phase' = "freed"
  /\ UNCHANGED alive

\* The application allocates a new statement.
Reuse ==
  /\ phase = "freed"
  /\ phase' = "live"
  /\ UNCHANGED alive

Next ==
  \/ \E w \in Worker : Fork(w) \/ Finish(w)
  \/ Close
  \/ Free
  \/ Reuse

Spec == Init /\ [][Next]_vars
=============================================================================
