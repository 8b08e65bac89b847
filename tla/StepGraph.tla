------------------------------ MODULE StepGraph ------------------------------
(* The dependency graph of a workflow spec: deps[s] are the steps that step *)
(* s names in depends_on.                                                   *)
EXTENDS Integers, FiniteSets, FiniteSetsExt

\* No set of steps in which every step depends on another of the set.
Acyclic(steps, deps) ==
  \A S \in SUBSET steps \ {{}} : \E s \in S : deps[s] \cap S = {}

\* A step runs one group after the latest step it depends on.
Levels(steps, deps) ==
  LET level[s \in steps] ==
        IF deps[s] = {} THEN 1 ELSE 1 + Max({level[d] : d \in deps[s]})
  IN  level

\* _downstream_steps: everything that depends on a step, however indirectly.
DownstreamSteps(steps, deps) ==
  LET below[s \in steps] ==
        LET direct == {r \in steps : s \in deps[r]}
        IN  direct \cup UNION {below[r] : r \in direct}
  IN  below
=============================================================================
