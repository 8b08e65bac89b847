------------------------------- MODULE DagRun -------------------------------
(***************************************************************************)
(* What the workflow engine promises for a run nobody re-executes: steps   *)
(* are done in dependency order and stay done, and the run ends once, as   *)
(* completed only when everything is done.                                 *)
(***************************************************************************)
CONSTANTS Steps, Deps

VARIABLES
  done,    \* steps whose result is final
  outcome  \* "open", "completed", "failed" or "cancelled"

vars == <<done, outcome>>

Init == done = {} /\ outcome = "open"

\* A step is done; the last one may complete a run that is still open.
Complete(s) ==
  /\ s \notin done /\ Deps[s] \subseteq done
  /\ done' = done \cup {s}
  /\ \/ UNCHANGED outcome
     \/ outcome = "open" /\ done' = Steps /\ outcome' = "completed"

\* The run ends, once.
End ==
  /\ outcome = "open"
  /\ outcome' \in {"failed", "cancelled"} \cup IF done = Steps THEN {"completed"} ELSE {}
  /\ UNCHANGED done

Next == (\E s \in Steps : Complete(s)) \/ End

Spec == Init /\ [][Next]_vars
=============================================================================
