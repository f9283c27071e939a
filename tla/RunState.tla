------------------------------ MODULE RunState ------------------------------
(***************************************************************************)
(* The run status machine of core/run_state.py.  "none" stands for a run   *)
(* identifier that has no row in the runs table.                           *)
(***************************************************************************)

TerminalRunStates == {"succeeded", "failed", "cancelled", "partial_success"}

RunStates == {"none", "running", "paused", "retrying"} \cup TerminalRunStates

\* Mutant of AllowedTransitions: a paused run can only be resumed or fail.
AllowedTransitionsOfPaused ==
  [s \in RunStates |->
     CASE s = "running" -> TerminalRunStates \cup {"paused", "retrying"}
       [] s \in {"paused", "retrying"} -> {"running", "failed"}
       [] s = "failed" -> {"retrying"}
       [] OTHER -> {}]

AllowedTransitions ==
  [s \in RunStates |->
     CASE s = "running" -> TerminalRunStates \cup {"paused", "retrying"}
       [] s \in {"paused", "retrying"} -> {"running", "failed", "cancelled"}
       [] s = "failed" -> {"retrying"}
       [] OTHER -> {}]

\* require_transition: a transition to the current state is accepted.
MayTransition(current, target) ==
  current = target \/ target \in AllowedTransitions[current]
=============================================================================
