---------------------------- MODULE CaseLifecycle ----------------------------
(***************************************************************************)
(* What the engine promises about the execution state of its cases,        *)
(* whatever the scheduler does inside a tick: a case is created once, moves *)
(* between Running and Waiting, and ends in Finished; one case changes at a *)
(* time; a case held by its lifecycle_state is left alone.                  *)
(***************************************************************************)
CONSTANT Cases                  \* case keys

VARIABLES exec,                 \* case.execution_state, "Absent" outside the dict
          paused                \* cases whose lifecycle_state is "pause" or "stop"

vars == <<exec, paused>>

ExecutionStates == {"Running", "Waiting", "Finished"}

Move(c, from, to) ==
  /\ c \notin paused
  /\ exec[c] \in from
  /\ exec' = [exec EXCEPT ![c] = to]
  /\ UNCHANGED paused

McRun(c)    == Move(c, {"Waiting"}, "Running")
McWait(c)   == Move(c, {"Running"}, "Waiting")
McFinish(c) == Move(c, {"Running", "Waiting"}, "Finished")

\* A new case enters the environment: Case::new starts it Running.
Create(c) ==
  /\ exec[c] = "Absent"
  /\ exec' = [exec EXCEPT ![c] = "Running"]
  /\ UNCHANGED paused

\* The owner of the case pauses or resumes it, at any moment.
SetLifecycle == paused' \in SUBSET Cases /\ UNCHANGED exec

Init == exec \in [Cases -> ExecutionStates \cup {"Absent"}] /\ paused \in SUBSET Cases

Next ==
  \/ \E c \in Cases : McRun(c) \/ McWait(c) \/ McFinish(c) \/ Create(c)
  \/ SetLifecycle

Spec == Init /\ [][Next]_vars
=============================================================================
