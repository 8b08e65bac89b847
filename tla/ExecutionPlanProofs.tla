------------------------- MODULE ExecutionPlanProofs -------------------------
(* What _execution_plan guarantees for every spec, of whatever size.        *)
EXTENDS ExecutionPlan, FiniteSetTheorems, WellFoundedInduction, TLAPS

\* in_degree counts the dependencies that are not planned yet.
Balance == \A s \in Steps : in_degree[s] = Cardinality(deps[s] \ Planned)

\* The next group are the unplanned steps with nothing left to wait for.
ReadyIsNext ==
  /\ ready \cap Planned = {}
  /\ \A s \in Steps \ Planned : s \in ready <=> in_degree[s] = 0

Counted == visited = Cardinality(Planned)

\* What is planned is planned with everything it depends on.
PlannedClosed == \A s \in Planned : deps[s] \subseteq Planned

IInv ==
  /\ TypeOK
  /\ Balance
  /\ ReadyIsNext
  /\ Counted
  /\ PlannedClosed
  /\ GroupsRespectDeps
  /\ NoStepTwice
  /\ PlannedOrCyclic

-----------------------------------------------------------------------------
(* Lemmas.                                                                 *)

\* Steps are planned once they are in some group.
LEMMA PlannedType ==
  ASSUME TypeOK
  PROVE  Planned \in SUBSET Steps /\ IsFiniteSet(Planned)
<1>1. \A i \in DOMAIN groups : groups[i] \in SUBSET Steps
  BY DEF TypeOK
<1>2. Planned \in SUBSET Steps
  BY <1>1 DEF Planned
<1> QED BY <1>2, FS_Subset, PlanConstants

\* A step without unplanned dependencies can be recognized by its counter.
LEMMA ZeroMeansPlanned ==
  ASSUME TypeOK, Balance, NEW s \in Steps
  PROVE  /\ IsFiniteSet(deps[s])
         /\ in_degree[s] = 0 <=> deps[s] \subseteq Planned
<1>1. IsFiniteSet(deps[s])
  BY FS_Subset, PlanConstants DEF TypeOK
<1>2. IsFiniteSet(deps[s] \ Planned)
  BY <1>1, FS_Difference
<1>3. in_degree[s] = 0 <=> deps[s] \ Planned = {}
  BY <1>2, FS_EmptySet DEF Balance
<1> QED BY <1>1, <1>3

\* The loop appends the group to what is planned.
LEMMA PlannedGrows ==
  ASSUME TypeOK, TakeGroup
  PROVE  /\ Planned' = Planned \cup ready
         /\ DOMAIN groups' = 1..(Len(groups) + 1)
         /\ DOMAIN groups = 1..Len(groups)
         /\ Len(groups) \in Nat
         /\ groups'[Len(groups) + 1] = ready
         /\ \A i \in 1..Len(groups) : groups'[i] = groups[i]
<1>1. groups \in Seq(SUBSET Steps) /\ ready \in SUBSET Steps /\ groups' = Append(groups, ready)
  BY DEF TypeOK, TakeGroup
<1>2. /\ DOMAIN groups' = 1..(Len(groups) + 1)
      /\ DOMAIN groups = 1..Len(groups)
      /\ Len(groups) \in Nat
      /\ groups'[Len(groups) + 1] = ready
      /\ \A i \in 1..Len(groups) : groups'[i] = groups[i]
  BY <1>1
<1>3. DOMAIN groups' = DOMAIN groups \cup {Len(groups) + 1}
  BY <1>2
<1>4. ASSUME NEW s \in Planned' PROVE s \in Planned \cup ready
  <2>1. PICK i \in DOMAIN groups' : s \in groups'[i]
    BY <1>4 DEF Planned
  <2>2. CASE i = Len(groups) + 1
    BY <1>2, <2>1, <2>2
  <2>3. CASE i \in DOMAIN groups
    BY <1>2, <2>1, <2>3 DEF Planned
  <2> QED BY <1>3, <2>1, <2>2, <2>3
<1>5. ASSUME NEW s \in Planned \cup ready PROVE s \in Planned'
  <2>1. CASE s \in ready
    <3>1. Len(groups) + 1 \in DOMAIN groups' /\ s \in groups'[Len(groups) + 1]
      BY <1>2, <1>3, <2>1
    <3> QED BY <3>1 DEF Planned
  <2>2. CASE s \in Planned
    <3>1. PICK i \in DOMAIN groups : s \in groups[i]
      BY <2>2 DEF Planned
    <3>2. i \in DOMAIN groups' /\ s \in groups'[i]
      BY <1>2, <1>3, <3>1
    <3> QED BY <3>2 DEF Planned
  <2> QED BY <1>5, <2>1, <2>2
<1> QED BY <1>2, <1>4, <1>5

-----------------------------------------------------------------------------
(* The invariant holds initially.                                          *)

LEMMA InitIInv == Init => IInv
<1> SUFFICES ASSUME Init PROVE IInv
  OBVIOUS
<1>1. Planned = {}
  BY DEF Init, Planned
<1>2. TypeOK
  <2>1. \A s \in Steps : IsFiniteSet(deps[s])
    BY FS_Subset, PlanConstants DEF Init
  <2>2. \A s \in Steps : Cardinality(deps[s]) \in Nat
    BY <2>1, FS_CardinalityType
  <2> QED BY <2>2 DEF Init, TypeOK
<1>3. Balance
  <2>1. \A s \in Steps : deps[s] \ Planned = deps[s]
    BY <1>1
  <2> QED BY <2>1 DEF Init, Balance
<1>4. ReadyIsNext
  BY <1>1 DEF Init, ReadyIsNext
<1>5. Counted
  BY <1>1, FS_EmptySet DEF Init, Counted
<1>6. PlannedClosed /\ GroupsRespectDeps /\ NoStepTwice /\ PlannedOrCyclic
  BY <1>1 DEF Init, PlannedClosed, GroupsRespectDeps, NoStepTwice, PlannedOrCyclic
<1> QED BY <1>2, <1>3, <1>4, <1>5, <1>6 DEF IInv

-----------------------------------------------------------------------------
(* A turn of the loop preserves it.                                        *)

LEMMA TakeGroupIInv == IInv /\ TakeGroup => IInv'
<1> SUFFICES ASSUME IInv, TakeGroup PROVE IInv'
  OBVIOUS
<1> USE DEF IInv
<1>1. /\ Planned' = Planned \cup ready
      /\ DOMAIN groups' = 1..(Len(groups) + 1)
      /\ DOMAIN groups = 1..Len(groups)
      /\ Len(groups) \in Nat
      /\ groups'[Len(groups) + 1] = ready
      /\ \A i \in 1..Len(groups) : groups'[i] = groups[i]
  BY PlannedGrows
<1>2. Planned \in SUBSET Steps /\ IsFiniteSet(Planned)
  BY PlannedType
<1>3. ready \in SUBSET Steps /\ IsFiniteSet(ready) /\ Cardinality(ready) \in Nat
  BY FS_Subset, FS_CardinalityType, PlanConstants DEF TypeOK
<1>4. \A s \in ready : deps[s] \subseteq Planned
  BY <1>2, <1>3, ZeroMeansPlanned DEF ReadyIsNext
<1>5. deps' = deps /\ outcome' = outcome /\ outcome = "planning"
  BY DEF TakeGroup
<1>6. \A s \in Steps :
        /\ IsFiniteSet(deps[s] \ Planned')
        /\ Cardinality(deps[s] \cap ready) \in Nat
        /\ in_degree[s] = Cardinality(deps[s] \ Planned') + Cardinality(deps[s] \cap ready)
        /\ in_degree'[s] = Cardinality(deps[s] \ Planned')
        /\ in_degree'[s] \in Nat
  <2>1. TAKE s \in Steps
  <2>2. IsFiniteSet(deps[s]) /\ IsFiniteSet(deps[s] \ Planned)
    BY ZeroMeansPlanned, FS_Difference
  <2>3. (deps[s] \ Planned) \cap ready = deps[s] \cap ready
    BY DEF ReadyIsNext
  <2>4. (deps[s] \ Planned) \ ready = deps[s] \ Planned'
    BY <1>1
  <2>5. /\ IsFiniteSet(deps[s] \ Planned')
        /\ Cardinality(deps[s] \ Planned')
             = Cardinality(deps[s] \ Planned) - Cardinality(deps[s] \cap ready)
    BY <2>2, <2>3, <2>4, FS_Difference
  <2>6. /\ Cardinality(deps[s] \cap ready) \in Nat
        /\ Cardinality(deps[s] \ Planned') \in Nat
        /\ Cardinality(deps[s] \ Planned) \in Nat
    BY <2>2, <2>5, FS_Intersection, FS_CardinalityType
  <2>7. in_degree[s] = Cardinality(deps[s] \ Planned)
    BY DEF Balance
  <2>8. in_degree'[s] = in_degree[s] - Cardinality(deps[s] \cap ready)
    BY DEF TakeGroup, TypeOK
  <2> QED BY <2>5, <2>6, <2>7, <2>8
<1>7. TypeOK'
  <2>1. in_degree' = [s \in Steps |-> in_degree[s] - Cardinality(deps[s] \cap ready)]
    BY DEF TakeGroup
  <2>2. in_degree' \in [Steps -> Nat]
    BY <2>1, <1>6
  <2>3. visited' \in Nat
    BY <1>3 DEF TakeGroup, TypeOK
  <2>4. groups' \in Seq(SUBSET Steps)
    BY <1>3 DEF TakeGroup, TypeOK
  <2>5. ready' \in SUBSET Steps
    BY DEF TakeGroup
  <2> QED BY <1>5, <2>2, <2>3, <2>4, <2>5 DEF TypeOK
<1>8. Balance'
  BY <1>5, <1>6 DEF Balance
<1>9. PlannedClosed'
  BY <1>1, <1>4, <1>5 DEF PlannedClosed
<1>10. ReadyIsNext'
  <2>1. ready' = {s \in Steps : deps[s] \cap ready # {} /\ in_degree'[s] = 0}
    BY DEF TakeGroup
  <2>2. ready' \cap Planned' = {}
    <3>1. SUFFICES ASSUME NEW s \in ready', s \in Planned' PROVE FALSE
      OBVIOUS
    <3>2. deps[s] \subseteq Planned
      BY <1>1, <1>4, <3>1 DEF PlannedClosed
    <3>3. deps[s] \cap ready # {}
      BY <2>1, <3>1
    <3> QED BY <3>2, <3>3 DEF ReadyIsNext
  <2>3. ASSUME NEW s \in Steps \ Planned', in_degree'[s] = 0
        PROVE  s \in ready'
    <3>1. s \in Steps \ Planned /\ s \notin ready
      BY <1>1, <2>3
    <3>2. in_degree[s] # 0
      BY <3>1 DEF ReadyIsNext
    <3>3. Cardinality(deps[s] \cap ready) # 0
      <4>1. s \in Steps /\ in_degree'[s] = 0
        BY <2>3
      <4>2. /\ in_degree[s] = Cardinality(deps[s] \ Planned') + Cardinality(deps[s] \cap ready)
            /\ in_degree'[s] = Cardinality(deps[s] \ Planned')
            /\ Cardinality(deps[s] \cap ready) \in Nat
        BY <1>6, <4>1
      <4> QED BY <3>2, <4>1, <4>2
    <3>4. deps[s] \cap ready # {}
      BY <3>3, FS_EmptySet
    <3> QED BY <2>1, <2>3, <3>4
  <2> QED BY <2>1, <2>2, <2>3 DEF ReadyIsNext
<1>11. Counted'
  <2>1. Planned \cap ready = {}
    BY DEF ReadyIsNext
  <2>2. Cardinality(Planned \cup ready) = Cardinality(Planned) + Cardinality(ready)
    <3>1. Cardinality(Planned \cup ready)
            = Cardinality(Planned) + Cardinality(ready) - Cardinality(Planned \cap ready)
      BY <1>2, <1>3, FS_Union
    <3>2. Cardinality(Planned \cap ready) = 0
      BY <2>1, FS_EmptySet
    <3>3. Cardinality(Planned) \in Nat
      BY <1>2, FS_CardinalityType
    <3> QED BY <1>3, <3>1, <3>2, <3>3
  <2> QED BY <1>1, <2>2 DEF Counted, TakeGroup
<1>12. GroupsRespectDeps'
  <2>1. ASSUME NEW i \in 1..(Len(groups) + 1), NEW s \in groups'[i], NEW d \in deps[s]
        PROVE  \E j \in 1..(i - 1) : d \in groups'[j]
    <3>1. CASE i \in 1..Len(groups)
      <4>1. \E j \in 1..(i - 1) : d \in groups[j]
        BY <1>1, <2>1, <3>1 DEF GroupsRespectDeps
      <4> QED BY <1>1, <3>1, <4>1
    <3>2. CASE i = Len(groups) + 1
      <4>1. d \in Planned
        BY <1>1, <1>4, <2>1, <3>2
      <4>2. \E j \in 1..Len(groups) : d \in groups[j]
        BY <1>1, <4>1 DEF Planned
      <4> QED BY <1>1, <3>2, <4>2
    <3> QED BY <1>1, <2>1, <3>1, <3>2
  <2> QED BY <1>1, <1>5, <2>1 DEF GroupsRespectDeps
<1>13. NoStepTwice'
  <2>1. \A i \in 1..Len(groups) : groups[i] \cap ready = {}
    BY <1>1 DEF ReadyIsNext, Planned
  <2>2. ASSUME NEW i \in 1..(Len(groups) + 1), NEW j \in 1..(Len(groups) + 1), i # j
        PROVE  groups'[i] \cap groups'[j] = {}
    <3>1. CASE i \in 1..Len(groups) /\ j \in 1..Len(groups)
      BY <1>1, <2>2, <3>1 DEF NoStepTwice
    <3>2. CASE i = Len(groups) + 1 /\ j \in 1..Len(groups)
      BY <1>1, <2>1, <3>2
    <3>3. CASE j = Len(groups) + 1 /\ i \in 1..Len(groups)
      BY <1>1, <2>1, <3>3
    <3> QED BY <1>1, <2>2, <3>1, <3>2, <3>3
  <2> QED BY <1>1, <2>2 DEF NoStepTwice
<1>14. PlannedOrCyclic'
  BY <1>5 DEF PlannedOrCyclic
<1> QED BY <1>7, <1>8, <1>9, <1>10, <1>11, <1>12, <1>13, <1>14

-----------------------------------------------------------------------------
(* The end of the loop decides between a plan and a cycle.                 *)

LEMMA FinishIInv == IInv /\ Finish => IInv'
<1> SUFFICES ASSUME IInv, Finish PROVE IInv'
  OBVIOUS
<1> USE DEF IInv
<1>1. Planned' = Planned
  BY DEF Finish, Planned
<1>2. Planned \in SUBSET Steps /\ IsFiniteSet(Planned)
  BY PlannedType
<1>3. outcome' = "planned" => Planned = Steps
  BY <1>2, FS_Subset, PlanConstants DEF Finish, Counted
<1>4. ASSUME outcome' = "cyclic"
      PROVE  \E S \in SUBSET Steps : S # {} /\ \A s \in S : deps[s] \cap S # {}
  <2>1. visited # Cardinality(Steps)
    BY <1>4 DEF Finish
  <2>2. Steps \ Planned # {}
    BY <1>2, <2>1 DEF Counted
  <2>3. \A s \in Steps \ Planned : deps[s] \cap (Steps \ Planned) # {}
    <3>1. TAKE s \in Steps \ Planned
    <3>2. in_degree[s] # 0
      BY DEF Finish, ReadyIsNext
    <3>3. ~(deps[s] \subseteq Planned)
      BY <3>2, ZeroMeansPlanned
    <3>4. deps[s] \subseteq Steps
      BY DEF TypeOK
    <3> QED BY <3>3, <3>4
  <2> WITNESS Steps \ Planned \in SUBSET Steps
  <2> QED BY <2>2, <2>3
<1>5. PlannedOrCyclic'
  BY <1>1, <1>3, <1>4 DEF PlannedOrCyclic, Finish
<1>6. TypeOK'
  BY DEF TypeOK, Finish
<1>7. Balance' /\ ReadyIsNext' /\ Counted' /\ PlannedClosed' /\ GroupsRespectDeps' /\ NoStepTwice'
  BY <1>1 DEF Finish, Balance, ReadyIsNext, Counted, PlannedClosed, GroupsRespectDeps,
              NoStepTwice
<1> QED BY <1>5, <1>6, <1>7

LEMMA StutterIInv == IInv /\ UNCHANGED vars => IInv'
<1> SUFFICES ASSUME IInv, UNCHANGED vars PROVE IInv'
  OBVIOUS
<1>1. /\ deps' = deps /\ in_degree' = in_degree /\ ready' = ready
      /\ groups' = groups /\ visited' = visited /\ outcome' = outcome
  BY DEF vars
<1>2. Planned' = Planned
  BY <1>1 DEF Planned
<1>3. TypeOK' /\ Balance' /\ ReadyIsNext' /\ Counted' /\ PlannedClosed'
  BY <1>1, <1>2 DEF IInv, TypeOK, Balance, ReadyIsNext, Counted, PlannedClosed
<1>4. GroupsRespectDeps' /\ NoStepTwice' /\ PlannedOrCyclic'
  BY <1>1, <1>2 DEF IInv, GroupsRespectDeps, NoStepTwice, PlannedOrCyclic
<1> QED BY <1>3, <1>4 DEF IInv

LEMMA InductiveInvariant == Spec => []IInv
<1>1. IInv /\ [Next]_vars => IInv'
  BY TakeGroupIInv, FinishIInv, StutterIInv DEF Next
<1> QED BY InitIInv, <1>1, PTL DEF Spec

-----------------------------------------------------------------------------

\* Variables keep their types, and in_degree never becomes negative.
THEOREM PlanTypeCorrect == Spec => []TypeOK
<1>1. IInv => TypeOK
  BY DEF IInv
<1> QED BY <1>1, InductiveInvariant, PTL

\* Whatever the spec, a step's dependencies are all in earlier groups: running
\* the groups one after the other respects depends_on.
THEOREM GroupsRespectDepsHolds == Spec => []GroupsRespectDeps
<1>1. IInv => GroupsRespectDeps
  BY DEF IInv
<1> QED BY <1>1, InductiveInvariant, PTL

\* Whatever the spec, no step is planned twice.
THEOREM NoStepTwiceHolds == Spec => []NoStepTwice
<1>1. IInv => NoStepTwice
  BY DEF IInv
<1> QED BY <1>1, InductiveInvariant, PTL

\* A spec is rejected only if it has a cycle, and planned completely otherwise.
THEOREM PlannedOrCyclicHolds == Spec => []PlannedOrCyclic
<1>1. IInv => PlannedOrCyclic
  BY DEF IInv
<1> QED BY <1>1, InductiveInvariant, PTL

-----------------------------------------------------------------------------
(* The plan against the graph: Levels and DownstreamSteps.                 *)

\* A step waits for the group before its own, or for nothing.
Tight ==
  /\ groups = <<>> => \A s \in ready : deps[s] = {}
  /\ groups # <<>> => \A s \in ready : deps[s] \cap groups[Len(groups)] # {}
  /\ \A i \in DOMAIN groups : \A s \in groups[i] :
       IF i = 1 THEN deps[s] = {} ELSE deps[s] \cap groups[i - 1] # {}

LEMMA TightInit == Init => Tight
<1> SUFFICES ASSUME Init PROVE Tight
  OBVIOUS
<1>1. \A s \in ready : deps[s] = {}
  <2> TAKE s \in ready
  <2>1. s \in Steps /\ Cardinality(deps[s]) = 0 /\ IsFiniteSet(deps[s])
    BY FS_Subset, PlanConstants DEF Init
  <2> QED BY <2>1, FS_EmptySet
<1> QED BY <1>1 DEF Init, Tight

LEMMA TightNext == IInv /\ Tight /\ [Next]_vars => Tight'
<1> SUFFICES ASSUME IInv, Tight, [Next]_vars PROVE Tight'
  OBVIOUS
<1>1. CASE TakeGroup
  <2>1. /\ DOMAIN groups' = 1..(Len(groups) + 1)
        /\ DOMAIN groups = 1..Len(groups)
        /\ Len(groups) \in Nat
        /\ groups'[Len(groups) + 1] = ready
        /\ \A i \in 1..Len(groups) : groups'[i] = groups[i]
    BY <1>1, PlannedGrows DEF IInv
  <2>2. deps' = deps /\ groups' # <<>> /\ Len(groups') = Len(groups) + 1
    BY <1>1 DEF TakeGroup, IInv, TypeOK
  <2>3. \A s \in ready' : deps'[s] \cap groups'[Len(groups')] # {}
    BY <1>1, <2>1, <2>2 DEF TakeGroup
  <2>4. ASSUME NEW i \in DOMAIN groups', NEW s \in groups'[i]
        PROVE  IF i = 1 THEN deps'[s] = {} ELSE deps'[s] \cap groups'[i - 1] # {}
    <3>1. CASE i \in 1..Len(groups)
      <4>1. i # 1 => i - 1 \in 1..Len(groups)
        BY <2>1, <3>1
      <4> QED BY <2>1, <2>2, <2>4, <3>1, <4>1 DEF Tight
    <3>2. CASE i = Len(groups) + 1
      <4>1. s \in ready
        BY <2>1, <2>4, <3>2
      <4>2. CASE groups = <<>>
        BY <2>1, <2>2, <3>2, <4>1, <4>2 DEF Tight
      <4>3. CASE groups # <<>>
        <5>1. Len(groups) \in 1..Len(groups)
          BY <2>1, <4>3 DEF IInv, TypeOK
        <5> QED BY <2>1, <2>2, <3>2, <4>1, <4>3, <5>1 DEF Tight
      <4> QED BY <4>2, <4>3
    <3> QED BY <2>1, <2>4, <3>1, <3>2
  <2> QED BY <2>2, <2>3, <2>4 DEF Tight
<1>2. CASE Finish
  BY <1>2 DEF Finish, Tight
<1>3. CASE UNCHANGED vars
  BY <1>3 DEF vars, Tight
<1> QED BY <1>1, <1>2, <1>3 DEF Next

LEMMA TightAlways == Spec => [](IInv /\ Tight)
BY TightInit, TightNext, InductiveInvariant, PTL DEF Spec

\* Among the steps of a set, one has the least number.
LEMMA LeastStep ==
  ASSUME NEW f \in [Steps -> Nat], NEW S \in SUBSET Steps, S # {}
  PROVE  \E s \in S : \A r \in S : f[s] <= f[r]
<1> DEFINE R == OpToRel(<, Nat)
           N == {f[s] : s \in S}
<1>1. PICK n \in N : \A m \in N : <<m, n>> \notin R
  <2>1. N \in SUBSET Nat /\ N # {}
    OBVIOUS
  <2>2. IsWellFoundedOn(R, Nat)
    BY NatLessThanWellFounded
  <2> HIDE DEF R, N
  <2> QED BY <2>1, <2>2, WFMin
<1>2. PICK s \in S : n = f[s]
  OBVIOUS
<1>3. ASSUME NEW r \in S PROVE f[s] <= f[r]
  <2>1. <<f[r], f[s]>> \notin R
    BY <1>1, <1>2
  <2> QED BY <2>1 DEF OpToRel
<1> QED BY <1>3

\* Whatever numbers the steps as Levels does is Levels, when dependencies have
\* lower numbers.
LEMMA LevelsAre ==
  ASSUME NEW D \in [Steps -> SUBSET Steps], NEW f \in [Steps -> Nat],
         \A s \in Steps : \A d \in D[s] : f[d] < f[s],
         \A s \in Steps : f[s] = IF D[s] = {} THEN 1 ELSE 1 + Max({f[d] : d \in D[s]})
  PROVE  \A s \in Steps : Levels(Steps, D)[s] = f[s]
<1> DEFINE L == Levels(Steps, D)
<1>1. f = [s \in Steps |-> IF D[s] = {} THEN 1 ELSE 1 + Max({f[d] : d \in D[s]})]
  OBVIOUS
<1>2. L = [s \in Steps |-> IF D[s] = {} THEN 1 ELSE 1 + Max({L[d] : d \in D[s]})]
  BY <1>1 DEF Levels
<1> HIDE DEF L
<1> DEFINE B == {s \in Steps : L[s] # f[s]}
<1> SUFFICES ASSUME B # {} PROVE FALSE
  BY DEF L
<1>3. PICK s \in B : \A r \in B : f[s] <= f[r]
  BY LeastStep
<1>4. \A d \in D[s] : d \in Steps /\ L[d] = f[d]
  BY <1>3
<1>5. {L[d] : d \in D[s]} = {f[d] : d \in D[s]}
  BY <1>4
<1>6. L[s] = f[s]
  BY <1>2, <1>3, <1>5
<1> QED BY <1>3, <1>6

\* The number of the group each step is in.
GroupOf == [s \in Steps |-> CHOOSE i \in DOMAIN groups : s \in groups[i]]

LEMMA GroupOfFacts ==
  ASSUME IInv, outcome = "planned"
  PROVE  /\ GroupOf \in [Steps -> Nat]
         /\ \A s \in Steps : GroupOf[s] \in 1..Len(groups) /\ s \in groups[GroupOf[s]]
         /\ \A i \in DOMAIN groups : \A s \in groups[i] : s \in Steps /\ GroupOf[s] = i
         /\ \A s \in Steps : \A d \in deps[s] : GroupOf[d] < GroupOf[s]
<1>1. DOMAIN groups = 1..Len(groups) /\ Len(groups) \in Nat
  BY DEF IInv, TypeOK
<1>2. \A s \in Steps : GroupOf[s] \in 1..Len(groups) /\ s \in groups[GroupOf[s]]
  <2> TAKE s \in Steps
  <2>1. \E i \in DOMAIN groups : s \in groups[i]
    BY DEF IInv, PlannedOrCyclic, Planned
  <2> QED BY <1>1, <2>1 DEF GroupOf
<1>3. GroupOf \in [Steps -> Nat]
  BY <1>1, <1>2 DEF GroupOf
<1>4. ASSUME NEW i \in DOMAIN groups, NEW s \in groups[i]
      PROVE  s \in Steps /\ GroupOf[s] = i
  <2>1. groups[i] \in SUBSET Steps
    BY DEF IInv, TypeOK
  <2> QED BY <1>1, <1>2, <2>1 DEF IInv, NoStepTwice
<1>5. ASSUME NEW s \in Steps, NEW d \in deps[s] PROVE GroupOf[d] < GroupOf[s]
  <2>1. PICK j \in 1..(GroupOf[s] - 1) : d \in groups[j]
    BY <1>1, <1>2 DEF IInv, GroupsRespectDeps
  <2>2. j \in DOMAIN groups /\ GroupOf[s] \in Nat /\ j \in Nat /\ j < GroupOf[s]
    BY <1>1, <1>2, <2>1
  <2>3. GroupOf[d] = j
    BY <1>4, <2>1, <2>2
  <2> QED BY <2>2, <2>3
<1> QED BY <1>2, <1>3, <1>4, <1>5

\* Every step is planned in the earliest group its dependencies allow: the plan
\* is the layering of the graph, whatever the graph.
THEOREM AsParallelAsPossibleHolds == Spec => []AsParallelAsPossible
<1>1. ASSUME IInv, Tight PROVE AsParallelAsPossible
  <2> SUFFICES ASSUME outcome = "planned"
               PROVE  \A i \in DOMAIN groups : \A s \in groups[i] : Levels(Steps, deps)[s] = i
    BY DEF AsParallelAsPossible
  <2>1. deps \in [Steps -> SUBSET Steps] /\ DOMAIN groups = 1..Len(groups) /\ Len(groups) \in Nat
    BY <1>1 DEF IInv, TypeOK
  <2> DEFINE f == GroupOf
  <2>2. /\ f \in [Steps -> Nat]
        /\ \A s \in Steps : f[s] \in 1..Len(groups) /\ s \in groups[f[s]]
        /\ \A i \in DOMAIN groups : \A s \in groups[i] : s \in Steps /\ f[s] = i
        /\ \A s \in Steps : \A d \in deps[s] : f[d] < f[s]
    BY <1>1, GroupOfFacts
  <2> HIDE DEF f
  <2>3. ASSUME NEW s \in Steps
        PROVE  f[s] = IF deps[s] = {} THEN 1 ELSE 1 + Max({f[d] : d \in deps[s]})
    <3>1. IF f[s] = 1 THEN deps[s] = {} ELSE deps[s] \cap groups[f[s] - 1] # {}
      BY <1>1, <2>1, <2>2 DEF Tight
    <3>2. CASE f[s] = 1
      BY <3>1, <3>2
    <3>3. CASE f[s] # 1
      <4> DEFINE M == {f[d] : d \in deps[s]}
      <4>1. PICK d \in deps[s] : d \in groups[f[s] - 1]
        BY <3>1, <3>3
      <4>2. f[s] - 1 \in DOMAIN groups /\ f[s] \in Nat
        BY <2>1, <2>2, <3>3
      <4>3. f[s] - 1 \in M
        BY <2>2, <4>1, <4>2
      <4>4. \A m \in M : m \in Nat /\ f[s] - 1 >= m
        BY <2>1, <2>2, <4>2
      <4> HIDE DEF M
      <4>5. \A m \in M : (\A n \in M : m >= n) => m = f[s] - 1
        BY <4>2, <4>3, <4>4
      <4>6. Max(M) = f[s] - 1
        BY <4>3, <4>4, <4>5 DEF Max
      <4>7. deps[s] # {}
        BY <4>1
      <4> QED BY <4>2, <4>6, <4>7 DEF M
    <3> QED BY <3>2, <3>3
  <2>4. \A s \in Steps : Levels(Steps, deps)[s] = f[s]
    <3>1. \A s \in Steps : f[s] = IF deps[s] = {} THEN 1 ELSE 1 + Max({f[d] : d \in deps[s]})
      BY <2>3
    <3>2. f \in [Steps -> Nat] /\ \A s \in Steps : \A d \in deps[s] : f[d] < f[s]
      BY <2>2
    <3> QED BY <2>1, <3>1, <3>2, LevelsAre, Zenon
  <2> QED BY <2>2, <2>4
<1> QED BY <1>1, TightAlways, PTL

\* The steps that are in every set that holds the dependants of s and, with a
\* step, its dependants.
Below(D, s) ==
  {r \in Steps : \A S \in SUBSET Steps :
     /\ \A c \in Steps : s \in D[c] => c \in S
     /\ \A b \in S : \A c \in Steps : b \in D[c] => c \in S
     => r \in S}

\* DownstreamSteps satisfies its equation, cycles or not.
LEMMA DownstreamEquation ==
  ASSUME NEW D \in [Steps -> SUBSET Steps]
  PROVE  \A s \in Steps :
           LET direct == {r \in Steps : s \in D[r]} IN
           DownstreamSteps(Steps, D)[s]
             = direct \cup UNION {DownstreamSteps(Steps, D)[r] : r \in direct}
<1> DEFINE direct(s) == {r \in Steps : s \in D[r]}
           b == [s \in Steps |-> Below(D, s)]
<1>1. ASSUME NEW s \in Steps
      PROVE  Below(D, s) = direct(s) \cup UNION {Below(D, r) : r \in direct(s)}
  <2> DEFINE X == direct(s) \cup UNION {Below(D, r) : r \in direct(s)}
  <2>1. ASSUME NEW r \in X PROVE r \in Below(D, s)
    <3>1. r \in Steps
      BY DEF Below
    <3>2. SUFFICES ASSUME NEW S \in SUBSET Steps,
                          \A c \in Steps : s \in D[c] => c \in S,
                          \A e \in S : \A c \in Steps : e \in D[c] => c \in S
                   PROVE  r \in S
      BY <3>1 DEF Below
    <3>3. CASE r \in direct(s)
      BY <3>2, <3>3
    <3>4. ASSUME NEW q \in direct(s), r \in Below(D, q) PROVE r \in S
      <4>1. q \in S
        BY <3>2
      <4> QED BY <3>2, <3>4, <4>1 DEF Below
    <3> QED BY <2>1, <3>3, <3>4
  <2>2. ASSUME NEW e \in X, NEW c \in Steps, e \in D[c] PROVE c \in X
    <3>1. CASE e \in direct(s)
      <4>1. c \in Below(D, e)
        BY <2>2 DEF Below
      <4> QED BY <3>1, <4>1
    <3>2. ASSUME NEW q \in direct(s), e \in Below(D, q) PROVE c \in X
      <4>1. c \in Below(D, q)
        BY <2>2, <3>2 DEF Below
      <4> QED BY <4>1
    <3> QED BY <2>2, <3>1, <3>2
  <2>3. X \in SUBSET Steps
    BY DEF Below
  <2>4. \A c \in Steps : s \in D[c] => c \in X
    OBVIOUS
  <2> HIDE DEF X
  <2>5. Below(D, s) \subseteq X
    BY <2>2, <2>3, <2>4 DEF Below
  <2> QED BY <2>1, <2>5 DEF X
<1>2. b = [s \in Steps |-> direct(s) \cup UNION {b[r] : r \in direct(s)}]
  <2>1. ASSUME NEW s \in Steps
        PROVE  b[s] = direct(s) \cup UNION {b[r] : r \in direct(s)}
    <3>1. {b[r] : r \in direct(s)} = {Below(D, r) : r \in direct(s)}
      OBVIOUS
    <3> HIDE DEF direct
    <3> QED BY <1>1, <3>1
  <2> HIDE DEF direct
  <2> QED BY <2>1
<1>3. DownstreamSteps(Steps, D)
        = [s \in Steps |-> direct(s) \cup UNION {DownstreamSteps(Steps, D)[r] : r \in direct(s)}]
  <2> HIDE DEF b
  <2> QED BY <1>2 DEF DownstreamSteps
<1> QED BY <1>3

\* When a run is rerun from a step, everything that is invalidated is in a group
\* after the step's own, so that the rerun executes it.
THEOREM RerunReachesDownstreamHolds == Spec => []RerunReachesDownstream
<1>1. ASSUME IInv PROVE RerunReachesDownstream
  <2> SUFFICES ASSUME outcome = "planned"
               PROVE  \A i \in DOMAIN groups : \A s \in groups[i] :
                        DownstreamSteps(Steps, deps)[s]
                          \subseteq UNION {groups[j] : j \in (i + 1)..Len(groups)}
    BY DEF RerunReachesDownstream
  <2> DEFINE f == GroupOf
             g == DownstreamSteps(Steps, deps)
             later(i) == UNION {groups[j] : j \in (i + 1)..Len(groups)}
             B == {s \in Steps : ~(g[s] \subseteq later(f[s]))}
  <2>1. deps \in [Steps -> SUBSET Steps] /\ DOMAIN groups = 1..Len(groups) /\ Len(groups) \in Nat
    BY <1>1 DEF IInv, TypeOK
  <2>2. /\ f \in [Steps -> Nat]
        /\ \A s \in Steps : f[s] \in 1..Len(groups) /\ s \in groups[f[s]]
        /\ \A i \in DOMAIN groups : \A s \in groups[i] : s \in Steps /\ f[s] = i
        /\ \A s \in Steps : \A d \in deps[s] : f[d] < f[s]
    BY <1>1, GroupOfFacts
  <2>3. \A s \in Steps : g[s] = {r \in Steps : s \in deps[r]}
                                  \cup UNION {g[r] : r \in {r \in Steps : s \in deps[r]}}
    BY <2>1, DownstreamEquation
  <2> HIDE DEF f, g
  <2>4. B = {}
    <3> SUFFICES ASSUME B # {} PROVE FALSE
      OBVIOUS
    <3> DEFINE h == [s \in Steps |-> Len(groups) - f[s]]
    <3>1. h \in [Steps -> Nat]
      BY <2>1, <2>2
    <3>2. PICK s \in B : \A r \in B : h[s] <= h[r]
      <4> HIDE DEF h
      <4> QED BY <3>1, LeastStep
    <3>3. ASSUME NEW r \in Steps, s \in deps[r]
          PROVE  r \in later(f[s]) /\ g[r] \subseteq later(f[s])
      <4>1. f[s] < f[r] /\ f[s] \in Nat /\ f[r] \in 1..Len(groups)
        BY <2>2, <3>3
      <4>2. r \in later(f[s])
        BY <2>1, <2>2, <4>1
      <4>3. r \notin B
        BY <2>1, <3>2, <4>1
      <4>4. later(f[r]) \subseteq later(f[s])
        BY <2>1, <4>1
      <4> QED BY <4>2, <4>3, <4>4
    <3>4. g[s] \subseteq later(f[s])
      <4> HIDE DEF later
      <4> QED BY <2>3, <3>3
    <3> QED BY <3>2, <3>4
  <2>5. ASSUME NEW i \in DOMAIN groups, NEW s \in groups[i] PROVE g[s] \subseteq later(i)
    <3>1. s \in Steps /\ f[s] = i
      BY <2>2
    <3> QED BY <2>4, <3>1
  <2> QED BY <2>5 DEF g
<1> QED BY <1>1, InductiveInvariant, PTL
=============================================================================
