---------------------------- MODULE ExecutionPlan ----------------------------
(***************************************************************************)
(* _execution_plan of services/workflows/spec.py: Kahn's algorithm over    *)
(* depends_on, one action per turn of its loop.  _validate calls it to     *)
(* reject cyclic specs, the engine to run the groups one after the other.  *)
(***************************************************************************)
EXTENDS StepGraph, Sequences

CONSTANT Steps

ASSUME PlanConstants == IsFiniteSet(Steps) /\ Steps # {}

VARIABLES
  deps,      \* the spec being planned
  in_degree, \* dependencies of each step that are in no group yet
  ready,     \* the next group
  groups,    \* the plan so far
  visited,   \* number of steps in the plan so far
  outcome    \* "planning", "planned", or "cyclic" (ValueError)

vars == <<deps, in_degree, ready, groups, visited, outcome>>

TypeOK ==
  /\ deps \in [Steps -> SUBSET Steps]
  /\ in_degree \in [Steps -> Nat]
  /\ ready \in SUBSET Steps
  /\ groups \in Seq(SUBSET Steps)
  /\ visited \in Nat
  /\ outcome \in {"planning", "planned", "cyclic"}

Planned == UNION {groups[i] : i \in DOMAIN groups}

-----------------------------------------------------------------------------

Init ==
  /\ deps \in [Steps -> SUBSET Steps]
  /\ in_degree = [s \in Steps |-> Cardinality(deps[s])]
  /\ ready = {s \in Steps : in_degree[s] = 0}
  /\ groups = <<>>
  /\ visited = 0
  /\ outcome = "planning"

\* Mutant: a step is ready as soon as one of its dependencies is planned.
TakeEagerGroup ==
  /\ outcome = "planning" /\ ready # {}
  /\ groups' = Append(groups, ready)
  /\ visited' = visited + Cardinality(ready)
  /\ in_degree' = [s \in Steps |-> in_degree[s] - Cardinality(deps[s] \cap ready)]
  /\ ready' = {s \in Steps \ Planned' : deps[s] \cap ready # {}}
  /\ UNCHANGED <<deps, outcome>>

\* Mutant: earlier groups are counted again.
TakeGroupRecounting ==
  /\ outcome = "planning" /\ ready # {}
  /\ groups' = Append(groups, ready)
  /\ visited' = visited + Cardinality(ready)
  /\ in_degree' = [s \in Steps |-> in_degree[s] - Cardinality(deps[s] \cap Planned')]
  /\ ready' = {s \in Steps : deps[s] \cap ready # {} /\ in_degree'[s] = 0}
  /\ UNCHANGED <<deps, outcome>>

\* Mutant: the groups are collected back to front.
TakeGroupInFront ==
  /\ outcome = "planning" /\ ready # {}
  /\ groups' = <<ready>> \o groups
  /\ visited' = visited + Cardinality(ready)
  /\ in_degree' = [s \in Steps |-> in_degree[s] - Cardinality(deps[s] \cap ready)]
  /\ ready' = {s \in Steps : deps[s] \cap ready # {} /\ in_degree'[s] = 0}
  /\ UNCHANGED <<deps, outcome>>

\* Mutant: a group is a single step.
TakeOneStep ==
  /\ outcome = "planning" /\ ready # {}
  /\ \E s \in ready :
       /\ groups' = Append(groups, {s})
       /\ in_degree' = [r \in Steps |-> in_degree[r] - Cardinality(deps[r] \cap {s})]
       /\ ready' = (ready \ {s}) \cup {r \in Steps : s \in deps[r] /\ in_degree'[r] = 0}
  /\ visited' = visited + 1
  /\ UNCHANGED <<deps, outcome>>

\* One turn of the loop: children whose last dependency is in the group are next.
TakeGroup ==
  /\ outcome = "planning" /\ ready # {}
  /\ groups' = Append(groups, ready)
  /\ visited' = visited + Cardinality(ready)
  /\ in_degree' = [s \in Steps |-> in_degree[s] - Cardinality(deps[s] \cap ready)]
  /\ ready' = {s \in Steps : deps[s] \cap ready # {} /\ in_degree'[s] = 0}
  /\ UNCHANGED <<deps, outcome>>

\* Mutant: a cycle below some root is not noticed.
FinishUnchecked ==
  /\ outcome = "planning" /\ ready = {}
  /\ outcome' = IF visited = 0 THEN "cyclic" ELSE "planned"
  /\ UNCHANGED <<deps, in_degree, ready, groups, visited>>

Finish ==
  /\ outcome = "planning" /\ ready = {}
  /\ outcome' = IF visited = Cardinality(Steps) THEN "planned" ELSE "cyclic"
  /\ UNCHANGED <<deps, in_degree, ready, groups, visited>>

Next == TakeGroup \/ Finish

Spec == Init /\ [][Next]_vars

-----------------------------------------------------------------------------
(* Properties.                                                             *)

\* When a group runs, everything its steps depend on is in an earlier group.
GroupsRespectDeps ==
  \A i \in DOMAIN groups : \A s \in groups[i] : \A d \in deps[s] :
    \E j \in 1..(i - 1) : d \in groups[j]

\* No step is in the plan twice.
NoStepTwice ==
  \A i, j \in DOMAIN groups : i # j => groups[i] \cap groups[j] = {}

\* A spec is planned completely, or it has a cycle.
PlannedOrCyclic ==
  /\ outcome = "planned" => Planned = Steps
  /\ outcome = "cyclic" =>
       \E S \in SUBSET Steps : S # {} /\ \A s \in S : deps[s] \cap S # {}

\* No step waits for a group it does not need: the plan is the one of Levels.
AsParallelAsPossible ==
  outcome = "planned" =>
    \A i \in DOMAIN groups : \A s \in groups[i] : Levels(Steps, deps)[s] = i

\* rerun_from invalidates the steps downstream and runs the groups from the
\* step's own on: everything it invalidates is in a later group.
RerunReachesDownstream ==
  outcome = "planned" =>
    \A i \in DOMAIN groups : \A s \in groups[i] :
      DownstreamSteps(Steps, deps)[s] \subseteq UNION {groups[j] : j \in (i + 1)..Len(groups)}
=============================================================================
