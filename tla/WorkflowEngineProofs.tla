------------------------ MODULE WorkflowEngineProofs ------------------------
(***************************************************************************)
(* What holds of a workflow run, for every spec, any choice of interactive *)
(* steps and any number of task slots:                                     *)
(*   - the types, whatever clients do;                                     *)
(*   - when they are Orderly: who works on a run (Apart);                  *)
(*   - when they are Regular: what the steps are at (Progress), and that   *)
(*     the run is looked after (LookedAfter);                              *)
(*   - when they only start, approve and cancel it (OneRun): a step of the *)
(*     engine is a step of DagRun (DagMoves).                              *)
(***************************************************************************)
EXTENDS WorkflowEngine, FiniteSetTheorems, WellFoundedInduction, TLAPS

-----------------------------------------------------------------------------
(* Helpers.                                                                *)

LEMMA ConstantTypes ==
  /\ IsFiniteSet(Steps) /\ Cardinality(Steps) \in Nat
  /\ NoTask \notin Tasks
BY EngineConstants, FS_CardinalityType

\* The least of a set of natural numbers.
LEMMA MinOfNaturals ==
  ASSUME NEW S \in SUBSET Nat, S # {}
  PROVE  Min(S) \in S /\ \A m \in S : Min(S) <= m
<1>1. \E n \in S : \A m \in S : n <= m
  <2> DEFINE R == OpToRel(<, Nat)
  <2>1. PICK n \in S : \A m \in S : <<m, n>> \notin R
    BY NatLessThanWellFounded, WFMin
  <2>2. \A m \in Nat : m < n => <<m, n>> \in R
    BY <2>1 DEF OpToRel
  <2> HIDE DEF R
  <2>3. \A m \in S : ~(m < n)
    BY <2>1, <2>2
  <2> QED BY <2>1, <2>3
<1> QED BY <1>1 DEF Min

\* The greatest of a bounded set of natural numbers.
LEMMA MaxOfNaturals ==
  ASSUME NEW n \in Nat, NEW S \in SUBSET (1..n), S # {}
  PROVE  Max(S) \in S /\ \A m \in S : m <= Max(S)
<1> DEFINE below == {k \in 0..n : n - k \in S}
<1>1. below \in SUBSET Nat /\ below # {}
  <2>1. PICK m \in S : TRUE
    OBVIOUS
  <2>2. m \in 1..n
    BY <2>1
  <2>3. n - m \in 0..n /\ n - (n - m) = m
    BY <2>2
  <2>4. n - m \in below
    BY <2>1, <2>3
  <2>5. below \in SUBSET Nat
    OBVIOUS
  <2> HIDE DEF below
  <2> QED BY <2>4, <2>5
<1>2. Min(below) \in below /\ \A k \in below : Min(below) <= k
  BY <1>1, MinOfNaturals
<1>3. PICK k \in 0..n : n - k \in S /\ \A j \in below : k <= j
  BY <1>2
<1>4. \A m \in S : m <= n - k
  <2>1. TAKE m \in S
  <2>2. m \in 1..n /\ n - m \in 0..n /\ n - (n - m) = m
    OBVIOUS
  <2>3. k <= n - m
    BY <1>3, <2>2
  <2> QED BY <2>2, <2>3
<1>5. \E x \in S : \A y \in S : x >= y
  BY <1>3, <1>4
<1>6. Max(S) \in S /\ \A y \in S : Max(S) >= y
  BY <1>5 DEF Max
<1> QED BY <1>6

\* f gives the steps of T, which hold what they depend on, the levels of Levels.
Layering(T, f) ==
  \A s \in T : /\ Deps[s] \subseteq T
               /\ f[s] = IF Deps[s] = {} THEN 1 ELSE 1 + Max({f[d] : d \in Deps[s]})

\* One more step, all of whose dependencies have their level, gets its own.
LEMMA LayeringGrows ==
  ASSUME NEW T \in SUBSET Steps, NEW f \in [T -> 1..Cardinality(T)], Layering(T, f),
         NEW s \in Steps \ T, Deps[s] \subseteq T
  PROVE  LET U == T \cup {s} IN
         Cardinality(U) = Cardinality(T) + 1 /\ \E g \in [U -> 1..Cardinality(U)] : Layering(U, g)
<1> DEFINE U == T \cup {s}
           top == IF Deps[s] = {} THEN 1 ELSE 1 + Max({f[d] : d \in Deps[s]})
           g == [r \in U |-> IF r = s THEN top ELSE f[r]]
<1>1. Cardinality(T) \in Nat /\ Cardinality(U) = Cardinality(T) + 1
  <2>1. IsFiniteSet(T)
    BY EngineConstants, FS_Subset
  <2> QED BY <2>1, FS_AddElement, FS_CardinalityType
<1>2. top \in 1..Cardinality(U)
  <2>1. CASE Deps[s] = {}
    BY <1>1, <2>1
  <2>2. CASE Deps[s] # {}
    <3> DEFINE M == {f[d] : d \in Deps[s]}
    <3>1. M \in SUBSET (1..Cardinality(T)) /\ M # {}
      BY <2>2
    <3>2. Max(M) \in M
      BY <1>1, <3>1, MaxOfNaturals
    <3>3. Max(M) \in 1..Cardinality(T)
      BY <3>1, <3>2
    <3>4. top = 1 + Max(M)
      BY <2>2
    <3> HIDE DEF M, top
    <3> QED BY <1>1, <3>3, <3>4
  <2> QED BY <2>1, <2>2
<1>3. g \in [U -> 1..Cardinality(U)]
  <2> HIDE DEF top
  <2> QED BY <1>1, <1>2
<1>4. Layering(U, g)
  <2> SUFFICES ASSUME NEW r \in U
               PROVE  /\ Deps[r] \subseteq U
                      /\ g[r] = IF Deps[r] = {} THEN 1 ELSE 1 + Max({g[d] : d \in Deps[r]})
    BY DEF Layering
  <2>1. Deps[r] \subseteq T
    BY DEF Layering
  <2>2. \A d \in Deps[r] : g[d] = f[d]
    BY <2>1
  <2>3. {g[d] : d \in Deps[r]} = {f[d] : d \in Deps[r]}
    BY <2>2
  <2>4. g[r] = IF Deps[r] = {} THEN 1 ELSE 1 + Max({f[d] : d \in Deps[r]})
    BY DEF Layering
  <2> HIDE DEF g
  <2> QED BY <2>1, <2>3, <2>4
<1> HIDE DEF g
<1> QED BY <1>1, <1>3, <1>4

\* Every acyclic graph has a layering ...
LEMMA LayeringExists == \E f \in [Steps -> 1..Cardinality(Steps)] : Layering(Steps, f)
<1> DEFINE N == Cardinality(Steps)
           Layered(T) == \E f \in [T -> 1..Cardinality(T)] : Layering(T, f)
           missing == {n \in 0..N : \E T \in SUBSET Steps : n = N - Cardinality(T) /\ Layered(T)}
<1>1. N \in Nat /\ \A T \in SUBSET Steps :
        Cardinality(T) \in 0..N /\ (Cardinality(T) = N => T = Steps)
  BY EngineConstants, FS_Subset, FS_CardinalityType
<1>2. N \in missing
  <2>1. {} \in SUBSET Steps /\ Cardinality({}) = 0
    BY FS_EmptySet
  <2>2. Layered({})
    <3>1. Layering({}, [r \in {} |-> 1])
      BY DEF Layering
    <3>2. [r \in {} |-> 1] \in [{} -> 1..Cardinality({})]
      OBVIOUS
    <3> QED BY <3>1, <3>2
  <2> HIDE DEF Layered
  <2> QED BY <1>1, <2>1, <2>2
<1>3. PICK n \in missing : \A m \in missing : n <= m
  <2>1. missing \in SUBSET Nat /\ missing # {}
    BY <1>1, <1>2
  <2> HIDE DEF missing
  <2> QED BY <2>1, MinOfNaturals
<1>4. PICK T \in SUBSET Steps : n = N - Cardinality(T) /\ Layered(T)
  BY <1>3
<1>5. T = Steps
  <2> SUFFICES ASSUME T # Steps PROVE FALSE
    OBVIOUS
  <2>1. PICK s \in Steps \ T : Deps[s] \cap (Steps \ T) = {}
    BY EngineConstants DEF Acyclic
  <2>2. Deps[s] \subseteq T
    BY <2>1, EngineConstants
  <2>3. Cardinality(T \cup {s}) = Cardinality(T) + 1 /\ Layered(T \cup {s})
    BY <1>4, <2>1, <2>2, LayeringGrows
  <2>4. N - Cardinality(T \cup {s}) \in missing
    <3>1. T \cup {s} \in SUBSET Steps
      OBVIOUS
    <3>2. N - Cardinality(T \cup {s}) \in 0..N
      BY <1>1, <3>1
    <3> HIDE DEF Layered
    <3> QED BY <2>3, <3>1, <3>2
  <2> HIDE DEF missing
  <2> QED BY <1>1, <1>3, <1>4, <2>3, <2>4
<1> QED BY <1>4, <1>5

\* ... and only one.
LEMMA LayeringUnique ==
  ASSUME NEW f, NEW g, Layering(Steps, f), Layering(Steps, g)
  PROVE  \A s \in Steps : f[s] = g[s]
<1> DEFINE D == {s \in Steps : f[s] # g[s]}
<1> SUFFICES ASSUME D # {} PROVE FALSE
  OBVIOUS
<1>1. PICK s \in D : Deps[s] \cap D = {}
  BY EngineConstants DEF Acyclic
<1>2. \A d \in Deps[s] : f[d] = g[d]
  BY <1>1, EngineConstants
<1>3. {f[d] : d \in Deps[s]} = {g[d] : d \in Deps[s]}
  BY <1>2
<1>4. f[s] = g[s]
  BY <1>1, <1>3 DEF Layering
<1> QED BY <1>1, <1>4

\* The groups are numbered from 1, and a step's dependencies are in earlier ones.
LEMMA LevelFacts ==
  \A s \in Steps : /\ Level[s] \in 1..Cardinality(Steps)
                   /\ \A d \in Deps[s] : Level[d] < Level[s]
<1>1. PICK f \in [Steps -> 1..Cardinality(Steps)] : Layering(Steps, f)
  BY LayeringExists
<1>2. f = [s \in Steps |-> IF Deps[s] = {} THEN 1 ELSE 1 + Max({f[d] : d \in Deps[s]})]
  BY <1>1 DEF Layering
<1>3. Level = [s \in Steps |-> IF Deps[s] = {} THEN 1 ELSE 1 + Max({Level[d] : d \in Deps[s]})]
  BY <1>2 DEF Level, Levels
<1>4. \A s \in Steps : Deps[s] \subseteq Steps
  BY EngineConstants
<1>5. Layering(Steps, Level)
  BY <1>3, <1>4 DEF Layering
<1>6. \A s \in Steps : Level[s] = f[s]
  BY <1>1, <1>5, LayeringUnique
<1> TAKE s \in Steps
<1>7. Level[s] \in 1..Cardinality(Steps)
  BY <1>6
<1>8. ASSUME NEW d \in Deps[s] PROVE Level[d] < Level[s]
  <2> DEFINE M == {f[r] : r \in Deps[s]}
  <2>1. M \in SUBSET (1..Cardinality(Steps)) /\ f[d] \in M
    BY <1>4, <1>8
  <2>2. Cardinality(Steps) \in Nat
    BY EngineConstants, FS_CardinalityType
  <2>3. f[d] <= Max(M) /\ Max(M) \in 1..Cardinality(Steps)
    BY <2>1, <2>2, MaxOfNaturals
  <2>4. f[s] = 1 + Max(M)
    BY <1>1, <1>8 DEF Layering
  <2>5. f[d] \in Nat
    BY <2>1, <2>2
  <2> HIDE DEF M
  <2>6. f[d] < f[s]
    BY <2>2, <2>3, <2>4, <2>5
  <2> QED BY <1>4, <1>6, <1>8, <2>6
<1> QED BY <1>7, <1>8
-----------------------------------------------------------------------------
(* Type correctness.                                                       *)

StepStatuses == {"pending", "running", "waiting_input", "completed", "failed"}
ExecStates == {"none"} \cup Active \cup Over

\* TypeOK but for the count of restarts, in the names used here.
Typed ==
  /\ status \in RunStatuses
  /\ step \in [Steps -> StepStatuses]
  /\ running \in Tasks \cup {NoTask}
  /\ waits \in [Steps -> Tasks \cup {NoTask}]
  /\ skip \in BOOLEAN
  /\ task \in [Tasks -> TaskStates]
  /\ exec \in [Tasks -> [Steps -> ExecStates]]

LEMMA TypeOKIsTyped == TypeOK <=> Typed /\ restarts \in 0..MaxRestarts
BY DEF TypeOK, Typed, StepStatuses, ExecStates

\* _execute_step starts.
LEMMA BegunTypes ==
  ASSUME NEW s \in Steps
  PROVE  /\ Begun(s) \in {"waiting_input", "running"} /\ At(s) \in {"waiting", "executing"}
         /\ Begun(s) = "waiting_input" <=> At(s) = "waiting"
         /\ At(s) \in ExecStates /\ Begun(s) \in StepStatuses
BY DEF Begun, At, ExecStates, Active, StepStatuses

LEMMA RegisteredTypes ==
  ASSUME NEW w \in [Steps -> Tasks \cup {NoTask}], NEW t \in Tasks, NEW s \in Steps
  PROVE  /\ Registered(w, t, s) \in [Steps -> Tasks \cup {NoTask}]
         /\ At(s) = "waiting" => Registered(w, t, s)[s] = t
         /\ \A r \in Steps \ {s} : Registered(w, t, s)[r] = w[r]
BY DEF Registered, At

LEMMA TaskFacts ==
  /\ NotATask \in TaskStates /\ NotATask.st = "none"
  /\ ~NotATask.single /\ ~NotATask.cancelled
  /\ \A b \in BOOLEAN, i \in Nat :
       LET k == NewTask(b, i)
           e == [k EXCEPT !.st = "running"]
       IN  /\ k \in TaskStates /\ k.st = "created" /\ k.single = b /\ ~k.cancelled /\ k.group = i
           /\ e \in TaskStates /\ e.st = "running" /\ e.single = b /\ ~e.cancelled
BY DEF NotATask, NewTask, TaskStates

\* The "finally" of _run_workflow leaves no trace of the run in memory.
LEMMA EndedFacts ==
  ASSUME Typed, NEW t \in Tasks, Ended(t)
  PROVE  /\ task' \in [Tasks -> TaskStates] /\ exec' \in [Tasks -> [Steps -> ExecStates]]
         /\ running' = NoTask /\ skip' = FALSE
         /\ waits' \in [Steps -> Tasks \cup {NoTask}]
         /\ task'[t] = NotATask /\ \A s \in Steps : exec'[t][s] = "none"
         /\ \A u \in Tasks \ {t} : task'[u] = task[u] /\ exec'[u] = exec[u]
BY TaskFacts DEF Ended, Typed, ExecStates

\* From group i on there is nothing left to do.
NothingLeft(t, k, i, now) ==
  /\ Ended(t) /\ step' = now
  /\ \A j \in i..Cardinality(Steps) : Pending(k, j) = {}
  /\ status' \in {status, "running", "completed"}
  /\ IF \A s \in Steps : now[s] = "completed" THEN status' = "completed"
     ELSE status' = IF task[t].st = "created" THEN "running" ELSE status

\* Group g is the first from group i on that has something left to do; a step
\* that is alone in it begins at once.
GroupNext(t, k, i, g, now) ==
  /\ Pending(k, g) # {}
  /\ \A j \in i..Cardinality(Steps) : j < g => Pending(k, j) = {}
  /\ status' = IF task[t].st = "created" THEN "running" ELSE status
  /\ task' = [task EXCEPT ![t] = [k EXCEPT !.st = "running", !.group = g]]
  /\ UNCHANGED <<running, skip>>
  /\ \/ \E s \in Steps :
          /\ Pending(k, g) = {s}
          /\ step' = [now EXCEPT ![s] = Begun(s)]
          /\ waits' = Registered(waits, t, s)
          /\ exec' = [exec EXCEPT ![t] = [r \in Steps |->
                        IF r = s THEN At(s) ELSE "none"]]
     \/ /\ step' = now
        /\ exec' = [exec EXCEPT ![t] = [r \in Steps |->
                      IF r \in Pending(k, g) THEN "created" ELSE "none"]]
        /\ UNCHANGED waits

\* Where _run_workflow goes from group i on.
LEMMA ProceedFacts ==
  ASSUME NEW t \in Tasks, NEW k \in TaskStates, NEW i \in Nat,
         NEW now \in [Steps -> StepStatuses], Proceed(t, k, i, now)
  PROVE  \/ NothingLeft(t, k, i, now)
         \/ \E g \in i..Cardinality(Steps) : GroupNext(t, k, i, g, now)
<1> DEFINE later == {j \in i..Cardinality(Steps) : Pending(k, j) # {}}
           g == Min(later)
<1>1. later \in SUBSET Nat
  BY ConstantTypes
<1>2. CASE later = {}
  BY <1>2 DEF Proceed, NothingLeft
<1>3. CASE later # {}
  <2>1. g \in later /\ \A j \in later : g <= j
    BY <1>1, <1>3, MinOfNaturals
  <2>2. \A j \in i..Cardinality(Steps) : j < g => Pending(k, j) = {}
    BY <1>1, <2>1
  <2>3. /\ status' = IF task[t].st = "created" THEN "running" ELSE status
        /\ task' = [task EXCEPT ![t] = [k EXCEPT !.st = "running", !.group = g]]
        /\ UNCHANGED <<running, skip>>
    BY <1>3 DEF Proceed
  <2>4. CASE Cardinality(Pending(k, g)) = 1
    <3>1. PICK s \in Steps : Pending(k, g) = {s}
      <4>1. Pending(k, g) \subseteq Steps /\ IsFiniteSet(Pending(k, g))
        BY ConstantTypes, FS_Subset DEF Pending, Group
      <4> QED BY <2>4, <4>1, FS_Singleton
    <3> DEFINE c == CHOOSE r \in Pending(k, g) : TRUE
    <3>2. c = s
      BY <3>1
    <3>3. /\ step' = [now EXCEPT ![c] = Begun(c)]
          /\ waits' = Registered(waits, t, c)
          /\ exec' = [exec EXCEPT ![t] = [r \in Steps |-> IF r = c THEN At(c) ELSE "none"]]
      BY <1>3, <2>4 DEF Proceed
    <3>4. /\ step' = [now EXCEPT ![s] = Begun(s)]
          /\ waits' = Registered(waits, t, s)
          /\ exec' = [exec EXCEPT ![t] = [r \in Steps |-> IF r = s THEN At(s) ELSE "none"]]
      <4> HIDE DEF c, g
      <4> QED BY <3>2, <3>3
    <3> HIDE DEF g
    <3> QED BY <2>1, <2>2, <2>3, <3>1, <3>4 DEF GroupNext
  <2>5. CASE Cardinality(Pending(k, g)) # 1
    <3>1. /\ step' = now
          /\ exec' = [exec EXCEPT ![t] = [r \in Steps |->
                        IF r \in Pending(k, g) THEN "created" ELSE "none"]]
          /\ UNCHANGED waits
      BY <1>3, <2>5 DEF Proceed
    <3> HIDE DEF g
    <3> QED BY <2>1, <2>2, <2>3, <3>1 DEF GroupNext
  <2> QED BY <2>4, <2>5
<1> QED BY <1>2, <1>3

\* What t begins with group g, whatever the steps are at.
GroupBegun(t, k, g, now) ==
  /\ task'[t].st = "running" /\ task'[t].group = g /\ task'[t].snap = k.snap
  /\ task'[t].single = k.single /\ task'[t].cancelled = k.cancelled
  /\ \A u \in Tasks \ {t} : task'[u] = task[u] /\ exec'[u] = exec[u]
  /\ \A s \in Steps : s \notin Pending(k, g) =>
       step'[s] = now[s] /\ exec'[t][s] = "none" /\ waits'[s] = waits[s]
  /\ \A s \in Pending(k, g) :
       \/ step'[s] = now[s] /\ exec'[t][s] = "created" /\ waits'[s] = waits[s]
       \/ step'[s] = "running" /\ exec'[t][s] = "executing"
       \/ step'[s] = "waiting_input" /\ exec'[t][s] = "waiting" /\ waits'[s] = t
  /\ status' = IF task[t].st = "created" THEN "running" ELSE status
  /\ UNCHANGED <<running, skip>>

LEMMA GroupNextFacts ==
  ASSUME Typed, NEW t \in Tasks, NEW k \in TaskStates, NEW i \in Nat, NEW g \in Nat,
         NEW now \in [Steps -> StepStatuses], GroupNext(t, k, i, g, now)
  PROVE  Typed' /\ GroupBegun(t, k, g, now)
<1>1. /\ task' \in [Tasks -> TaskStates]
      /\ task'[t].st = "running" /\ task'[t].group = g /\ task'[t].snap = k.snap
      /\ task'[t].single = k.single /\ task'[t].cancelled = k.cancelled
      /\ \A u \in Tasks \ {t} : task'[u] = task[u]
  BY DEF GroupNext, Typed, TaskStates
<1>2. /\ status' = IF task[t].st = "created" THEN "running" ELSE status
      /\ UNCHANGED <<running, skip>> /\ status' \in RunStatuses
  BY DEF GroupNext, Typed, RunStatuses
<1>3. CASE \E s \in Steps :
                /\ Pending(k, g) = {s}
                /\ step' = [now EXCEPT ![s] = Begun(s)]
                /\ waits' = Registered(waits, t, s)
                /\ exec' = [exec EXCEPT ![t] = [r \in Steps |->
                              IF r = s THEN At(s) ELSE "none"]]
  <2>1. PICK s \in Steps :
                /\ Pending(k, g) = {s}
                /\ step' = [now EXCEPT ![s] = Begun(s)]
                /\ waits' = Registered(waits, t, s)
                /\ exec' = [exec EXCEPT ![t] = [r \in Steps |->
                              IF r = s THEN At(s) ELSE "none"]]
    BY <1>3
  <2>2. /\ step' \in [Steps -> StepStatuses] /\ step'[s] = Begun(s)
        /\ \A r \in Steps \ {s} : step'[r] = now[r]
    BY <2>1, BegunTypes
  <2>3. waits \in [Steps -> Tasks \cup {NoTask}] /\ waits' = Registered(waits, t, s)
    BY <2>1 DEF Typed
  <2>4. /\ waits' \in [Steps -> Tasks \cup {NoTask}]
        /\ At(s) = "waiting" => waits'[s] = t
        /\ \A r \in Steps \ {s} : waits'[r] = waits[r]
    BY <2>3, RegisteredTypes
  <2>5. /\ exec' \in [Tasks -> [Steps -> ExecStates]] /\ exec'[t][s] = At(s)
        /\ \A r \in Steps \ {s} : exec'[t][r] = "none"
        /\ \A u \in Tasks \ {t} : exec'[u] = exec[u]
    BY <2>1, BegunTypes DEF Typed, ExecStates
  <2>6. Typed'
    BY <1>1, <1>2, <2>2, <2>4, <2>5 DEF Typed
  <2>7. \/ step'[s] = "running" /\ exec'[t][s] = "executing"
        \/ step'[s] = "waiting_input" /\ exec'[t][s] = "waiting" /\ waits'[s] = t
    BY <2>2, <2>4, <2>5, BegunTypes
  <2> QED BY <1>1, <1>2, <2>1, <2>2, <2>4, <2>5, <2>6, <2>7 DEF GroupBegun
<1>4. CASE /\ step' = now
           /\ exec' = [exec EXCEPT ![t] = [r \in Steps |->
                            IF r \in Pending(k, g) THEN "created" ELSE "none"]]
           /\ UNCHANGED waits
  <2>1. /\ exec' \in [Tasks -> [Steps -> ExecStates]]
        /\ \A r \in Steps : exec'[t][r] = IF r \in Pending(k, g) THEN "created" ELSE "none"
        /\ \A u \in Tasks \ {t} : exec'[u] = exec[u]
    BY <1>4 DEF Typed, ExecStates, Active
  <2>2. Typed'
    BY <1>1, <1>2, <1>4, <2>1 DEF Typed
  <2>3. Pending(k, g) \subseteq Steps
    BY DEF Pending, Group
  <2> QED BY <1>1, <1>2, <1>4, <2>1, <2>2, <2>3 DEF GroupBegun
<1> QED BY <1>3, <1>4 DEF GroupNext

LEMMA NothingLeftTypes ==
  ASSUME Typed, NEW t \in Tasks, NEW k, NEW i, NEW now \in [Steps -> StepStatuses],
         NothingLeft(t, k, i, now)
  PROVE  Typed'
<1>1. status' \in RunStatuses /\ step' \in [Steps -> StepStatuses]
  BY DEF NothingLeft, Typed, RunStatuses
<1>2. Ended(t)
  BY DEF NothingLeft
<1> QED BY <1>1, <1>2, EndedFacts DEF Typed

LEMMA ProceedTypes ==
  ASSUME Typed, NEW t \in Tasks, NEW k \in TaskStates, NEW i \in Nat,
         NEW now \in [Steps -> StepStatuses], Proceed(t, k, i, now)
  PROVE  Typed'
<1>1. \A g \in i..Cardinality(Steps) : g \in Nat
  BY ConstantTypes
<1> QED BY <1>1, ProceedFacts, GroupNextFacts, NothingLeftTypes

\* A coroutine's progress with one step changes.
LEMMA ExecAt ==
  ASSUME Typed, NEW t \in Tasks, NEW s \in Steps, NEW e \in ExecStates,
         exec' = [exec EXCEPT ![t][s] = e]
  PROVE  /\ exec' \in [Tasks -> [Steps -> ExecStates]] /\ exec'[t][s] = e
         /\ \A r \in Steps \ {s} : exec'[t][r] = exec[t][r]
         /\ \A u \in Tasks \ {t} : exec'[u] = exec[u]
BY DEF Typed, ExecStates

\* An execute_single_step is over.
LEMMA SingleOver ==
  ASSUME Typed, NEW t \in Tasks, task' = [task EXCEPT ![t] = NotATask],
         exec' = [exec EXCEPT ![t] = [s \in Steps |-> "none"]]
  PROVE  /\ task' \in [Tasks -> TaskStates] /\ exec' \in [Tasks -> [Steps -> ExecStates]]
         /\ task'[t] = NotATask /\ \A s \in Steps : exec'[t][s] = "none"
         /\ \A u \in Tasks \ {t} : task'[u] = task[u] /\ exec'[u] = exec[u]
BY TaskFacts DEF Typed, ExecStates

LEMMA StepEndsTypes ==
  ASSUME Typed, NEW t \in Tasks, NEW s \in Steps, NEW now \in [Steps -> StepStatuses],
         StepEnds(t, s, now)
  PROVE  Typed'
<1>1. CASE SingleEnds(t, now)
  <2>1. /\ status' \in RunStatuses /\ step' = now /\ UNCHANGED <<running, waits, skip>>
        /\ task' = [task EXCEPT ![t] = NotATask]
        /\ exec' = [exec EXCEPT ![t] = [r \in Steps |-> "none"]]
    BY <1>1 DEF SingleEnds, memVars, RunStatuses, Typed
  <2> QED BY <2>1, SingleOver DEF Typed
<1>2. CASE Proceed(t, task[t], task[t].group + 1, now)
  <2>1. task[t] \in TaskStates /\ task[t].group + 1 \in Nat
    BY DEF Typed, TaskStates
  <2> QED BY <1>2, <2>1, ProceedTypes
<1>3. CASE step' = now /\ exec' = [exec EXCEPT ![t][s] = "ok"] /\ UNCHANGED <<status, memVars, task>>
  <2>1. "ok" \in ExecStates
    BY DEF ExecStates, Over
  <2> QED BY <1>3, <2>1, ExecAt DEF Typed, memVars
<1> QED BY <1>1, <1>2, <1>3 DEF StepEnds

LEMMA NewTaskTypes ==
  ASSUME Typed, NEW t \in Tasks, NEW k \in TaskStates, task' = [task EXCEPT ![t] = k]
  PROVE  /\ task' \in [Tasks -> TaskStates] /\ task'[t] = k
         /\ \A u \in Tasks \ {t} : task'[u] = task[u]
BY DEF Typed

LEMMA LevelIsNat == \A s \in Steps : Level[s] \in Nat /\ Level[s] >= 1
BY ConstantTypes, LevelFacts

\* _execute_step starts a step in coroutine t.
StepStarted(t, s) ==
  /\ step' = [step EXCEPT ![s] = Begun(s)] /\ waits' = Registered(waits, t, s)
  /\ exec' = [exec EXCEPT ![t][s] = At(s)]

LEMMA StepBegins ==
  ASSUME Typed, NEW t \in Tasks, NEW s \in Steps, StepStarted(t, s)
  PROVE  /\ step' \in [Steps -> StepStatuses] /\ step'[s] = Begun(s)
         /\ \A r \in Steps \ {s} : step'[r] = step[r]
         /\ waits' \in [Steps -> Tasks \cup {NoTask}]
         /\ At(s) = "waiting" => waits'[s] = t
         /\ \A r \in Steps \ {s} : waits'[r] = waits[r]
         /\ exec' \in [Tasks -> [Steps -> ExecStates]] /\ exec'[t][s] = At(s)
         /\ \A r \in Steps \ {s} : exec'[t][r] = exec[t][r]
         /\ \A u \in Tasks \ {t} : exec'[u] = exec[u]
<1>1. waits \in [Steps -> Tasks \cup {NoTask}] /\ step \in [Steps -> StepStatuses]
  BY DEF Typed
<1>2. At(s) \in ExecStates /\ Begun(s) \in StepStatuses
  BY BegunTypes
<1>3. /\ step' \in [Steps -> StepStatuses] /\ step'[s] = Begun(s)
      /\ \A r \in Steps \ {s} : step'[r] = step[r]
  BY <1>1, <1>2 DEF StepStarted
<1>4. /\ waits' \in [Steps -> Tasks \cup {NoTask}]
      /\ At(s) = "waiting" => waits'[s] = t
      /\ \A r \in Steps \ {s} : waits'[r] = waits[r]
  BY <1>1, RegisteredTypes DEF StepStarted
<1> DEFINE e == At(s)
<1>5. /\ exec' \in [Tasks -> [Steps -> ExecStates]] /\ exec'[t][s] = e
      /\ \A r \in Steps \ {s} : exec'[t][r] = exec[t][r]
      /\ \A u \in Tasks \ {t} : exec'[u] = exec[u]
  <2>1. e \in ExecStates /\ exec' = [exec EXCEPT ![t][s] = e]
    BY <1>2 DEF StepStarted
  <2> HIDE DEF e
  <2> QED BY <2>1, ExecAt
<1> QED BY <1>3, <1>4, <1>5

\* The coroutine that waits for step s, if any, is woken.
LEMMA ApproveFacts ==
  ASSUME Typed, NEW s \in Steps, ApproveStep(s)
  PROVE  /\ step' \in [Steps -> StepStatuses] /\ step'[s] = "completed"
         /\ \A r \in Steps \ {s} : step'[r] = step[r]
         /\ exec' \in [Tasks -> [Steps -> ExecStates]]
         /\ \A u \in Tasks, r \in Steps : r # s => exec'[u][r] = exec[u][r]
         /\ \A u \in Tasks : \/ exec'[u][s] = exec[u][s]
                             \/ exec[u][s] = "waiting" /\ exec'[u][s] = "woken"
                             \/ exec[u][s] = "reviewing" /\ exec'[u][s] = "reviewed"
<1>1. /\ step' \in [Steps -> StepStatuses] /\ step'[s] = "completed"
      /\ \A r \in Steps \ {s} : step'[r] = step[r]
  BY DEF ApproveStep, Typed, StepStatuses
<1>2. CASE waits[s] = NoTask
  BY <1>1, <1>2 DEF ApproveStep, Typed, ExecStates
<1>3. CASE waits[s] # NoTask
  <2> DEFINE t == waits[s]
             e == IF exec[t][s] = "waiting" THEN "woken"
                  ELSE IF exec[t][s] = "reviewing" THEN "reviewed" ELSE exec[t][s]
  <2>1. t \in Tasks
    BY <1>3 DEF Typed
  <2>2. exec' = [exec EXCEPT ![t][s] = e]
    BY <1>3 DEF ApproveStep
  <2>3. e \in ExecStates
    BY <2>1 DEF Typed, ExecStates, Active
  <2>4. /\ exec' \in [Tasks -> [Steps -> ExecStates]] /\ exec'[t][s] = e
        /\ \A r \in Steps \ {s} : exec'[t][r] = exec[t][r]
        /\ \A u \in Tasks \ {t} : exec'[u] = exec[u]
    <3> HIDE DEF t, e
    <3> QED BY <2>1, <2>2, <2>3, ExecAt
  <2>5. \/ e = exec[t][s]
        \/ exec[t][s] = "waiting" /\ e = "woken"
        \/ exec[t][s] = "reviewing" /\ e = "reviewed"
    OBVIOUS
  <2> HIDE DEF t, e
  <2> QED BY <1>1, <2>4, <2>5
<1> QED BY <1>2, <1>3

LEMMA ClientTypes ==
  ASSUME Typed, ClientStep
  PROVE  Typed'
<1>1. CASE StartRun
  <2>1. /\ status' \in RunStatuses /\ skip' \in BOOLEAN /\ UNCHANGED <<step, waits, exec>>
        /\ \/ \E t \in Tasks : task' = [task EXCEPT ![t] = NewTask(FALSE, 1)] /\ running' = t
           \/ UNCHANGED <<task, running>>
    BY <1>1, EngineConstants DEF StartRun, Slot, RunStatuses
  <2>2. NewTask(FALSE, 1) \in TaskStates
    BY TaskFacts
  <2> QED BY <2>1, <2>2, NewTaskTypes DEF Typed
<1>2. CASE CancelRun
  <2>1. /\ status' \in RunStatuses /\ UNCHANGED <<step, running, waits, skip, exec>>
        /\ running \in Tasks /\ task' = [task EXCEPT ![running].cancelled = TRUE]
    BY <1>2 DEF CancelRun, memVars, RunStatuses, Live, Typed
  <2>2. task' \in [Tasks -> TaskStates]
    BY <2>1 DEF Typed, TaskStates
  <2> QED BY <2>1, <2>2 DEF Typed
<1>3. ASSUME NEW s \in Steps, ApproveStep(s) PROVE Typed'
  BY <1>3, ApproveFacts DEF ApproveStep, memVars, Typed
<1>4. ASSUME NEW s \in Steps, RerunFrom(s) PROVE Typed'
  <2>1. /\ status' \in RunStatuses /\ UNCHANGED <<waits, skip, exec>>
        /\ step' \in [Steps -> StepStatuses]
        /\ \E t \in Tasks : task' = [task EXCEPT ![t] = NewTask(FALSE, Level[s])] /\ running' = t
    BY <1>4 DEF RerunFrom, RunStatuses, Slot, Typed, StepStatuses
  <2>2. NewTask(FALSE, Level[s]) \in TaskStates
    BY TaskFacts, LevelIsNat
  <2> QED BY <2>1, <2>2, NewTaskTypes DEF Typed
<1>5. ASSUME NEW s \in Steps, ExecuteSingleStep(s) PROVE Typed'
  <2> DEFINE k == [NewTask(TRUE, 0) EXCEPT !.st = "running"]
  <2>1. PICK t \in Tasks : /\ task' = [task EXCEPT ![t] = k]
                           /\ exec' = [exec EXCEPT ![t][s] = At(s)]
                           /\ waits' = Registered(waits, t, s)
    BY <1>5 DEF ExecuteSingleStep, Slot
  <2>2. step' = [step EXCEPT ![s] = Begun(s)] /\ UNCHANGED <<status, running, skip>>
    BY <1>5 DEF ExecuteSingleStep
  <2>3. k \in TaskStates
    BY TaskFacts
  <2> HIDE DEF k
  <2>4. task' \in [Tasks -> TaskStates]
    BY <2>1, <2>3, NewTaskTypes
  <2>5. StepStarted(t, s)
    BY <2>1, <2>2 DEF StepStarted
  <2> QED BY <2>2, <2>4, <2>5, StepBegins DEF Typed
<1> QED BY <1>1, <1>2, <1>3, <1>4, <1>5 DEF ClientStep

LEMMA EngineTypes ==
  ASSUME Typed, NEW t \in Tasks, EngineStep(t)
  PROVE  Typed'
<1>1. CASE RunWorkflow(t)
  <2> DEFINE k == [task[t] EXCEPT !.snap = [s \in Steps |-> step[s] = "completed"]]
  <2>1. k \in TaskStates /\ k.group \in Nat
    BY DEF Typed, TaskStates
  <2>2. Proceed(t, k, k.group, step)
    BY <1>1 DEF RunWorkflow
  <2>3. step \in [Steps -> StepStatuses]
    BY DEF Typed
  <2> HIDE DEF k
  <2> QED BY <2>1, <2>2, <2>3, ProceedTypes
<1>2. CASE GroupJoins(t)
  <2>1. CASE status' = "failed" /\ Ended(t) /\ UNCHANGED step
    BY <2>1, EndedFacts DEF Typed, RunStatuses
  <2>2. CASE Proceed(t, task[t], task[t].group + 1, step)
    <3>1. task[t] \in TaskStates /\ task[t].group + 1 \in Nat /\ step \in [Steps -> StepStatuses]
      BY DEF Typed, TaskStates
    <3> QED BY <2>2, <3>1, ProceedTypes
  <2> QED BY <1>2, <2>1, <2>2 DEF GroupJoins
<1>3. CASE RunCancelled(t)
  <2>1. CASE Ended(t)
    BY <1>3, <2>1, EndedFacts DEF RunCancelled, diskVars, Typed
  <2>2. CASE /\ task' = [task EXCEPT ![t] = NotATask]
             /\ exec' = [exec EXCEPT ![t] = [s \in Steps |-> "none"]]
             /\ running' = IF running = t THEN NoTask ELSE running
             /\ UNCHANGED <<waits, skip>>
    BY <1>3, <2>2, SingleOver DEF RunCancelled, diskVars, Typed
  <2> QED BY <1>3, <2>1, <2>2 DEF RunCancelled
<1>4. ASSUME NEW s \in Steps, ChildStarts(t, s) PROVE Typed'
  <2>1. StepStarted(t, s) /\ UNCHANGED <<status, running, skip, task>>
    BY <1>4 DEF ChildStarts, StepStarted
  <2> QED BY <2>1, StepBegins DEF Typed
<1>5. ASSUME NEW s \in Steps, StepResumes(t, s) PROVE Typed'
  <2> DEFINE now == IF exec[t][s] = "reviewed" THEN [step EXCEPT ![s] = "completed"] ELSE step
  <2>1. now \in [Steps -> StepStatuses] /\ StepEnds(t, s, now)
    BY <1>5 DEF StepResumes, Typed, StepStatuses
  <2> HIDE DEF now
  <2> QED BY <2>1, StepEndsTypes
<1>6. ASSUME NEW s \in Steps, StepCancelled(t, s) PROVE Typed'
  <2>1. "cancelled" \in ExecStates
    BY DEF ExecStates, Over
  <2> QED BY <1>6, <2>1, ExecAt DEF StepCancelled, diskVars, memVars, Typed
<1> QED BY <1>1, <1>2, <1>3, <1>4, <1>5, <1>6 DEF EngineStep

LEMMA ExecutorTypes ==
  ASSUME Typed, NEW t \in Tasks, NEW s \in Steps, ExecutorStep(t, s)
  PROVE  Typed'
<1>0. {"reviewing", "error", "none"} \subseteq ExecStates
  BY DEF ExecStates, Active, Over
<1>1. CASE StepEnds(t, s, [step EXCEPT ![s] = "completed"])
  <2>1. [step EXCEPT ![s] = "completed"] \in [Steps -> StepStatuses]
    BY DEF Typed, StepStatuses
  <2> QED BY <1>1, <2>1, StepEndsTypes
<1>2. CASE /\ step' = [step EXCEPT ![s] = "waiting_input"]
           /\ waits' = [waits EXCEPT ![s] = t]
           /\ exec' = [exec EXCEPT ![t][s] = "reviewing"]
           /\ UNCHANGED <<status, running, skip, task>>
  <2>1. step' \in [Steps -> StepStatuses] /\ waits' \in [Steps -> Tasks \cup {NoTask}]
    BY <1>2 DEF Typed, StepStatuses
  <2> QED BY <1>0, <1>2, <2>1, ExecAt DEF Typed
<1>3. CASE ExecutorRaises(t, s)
  <2>1. step' \in [Steps -> StepStatuses]
    BY <1>3 DEF ExecutorRaises, Typed, StepStatuses
  <2>2. CASE /\ task' = [task EXCEPT ![t] = NotATask]
             /\ exec' = [exec EXCEPT ![t][s] = "none"]
             /\ UNCHANGED <<status, memVars>>
    BY <1>0, <2>1, <2>2, TaskFacts, NewTaskTypes, ExecAt DEF memVars, Typed
  <2>3. CASE status' = "failed" /\ Ended(t)
    BY <2>1, <2>3, EndedFacts DEF Typed, RunStatuses
  <2>4. CASE exec' = [exec EXCEPT ![t][s] = "error"] /\ UNCHANGED <<status, memVars, task>>
    BY <1>0, <2>1, <2>4, ExecAt DEF memVars, Typed
  <2> QED BY <1>3, <2>2, <2>3, <2>4 DEF ExecutorRaises
<1> QED BY <1>1, <1>2, <1>3 DEF ExecutorStep, ExecutorReturns

LEMMA TypeInit == Init => TypeOK
<1> SUFFICES ASSUME Init PROVE TypeOK
  OBVIOUS
<1>1. status \in RunStatuses /\ restarts \in 0..MaxRestarts
  BY EngineConstants DEF Init, RunStatuses
<1>2. task \in [Tasks -> TaskStates]
  BY TaskFacts DEF Init
<1>3. /\ step \in [Steps -> StepStatuses] /\ waits \in [Steps -> Tasks \cup {NoTask}]
      /\ exec \in [Tasks -> [Steps -> ExecStates]]
      /\ running \in Tasks \cup {NoTask} /\ skip \in BOOLEAN
  BY DEF Init, StepStatuses, ExecStates
<1> QED BY <1>1, <1>2, <1>3, TypeOKIsTyped DEF Typed

LEMMA TypeNext == TypeOK /\ [Next]_vars => TypeOK'
<1> SUFFICES ASSUME TypeOK, [Next]_vars PROVE TypeOK'
  OBVIOUS
<1>0. Typed /\ restarts \in 0..MaxRestarts /\ MaxRestarts \in Nat
  BY TypeOKIsTyped, EngineConstants
<1>1. TypeOK' <=> Typed' /\ restarts' \in 0..MaxRestarts
  BY DEF TypeOK, Typed, StepStatuses, ExecStates
<1>2. ASSUME ClientStep PROVE Typed' /\ restarts' = restarts
  BY <1>0, <1>2, ClientTypes
     DEF ClientStep, StartRun, CancelRun, ApproveStep, RerunFrom, ExecuteSingleStep
<1>3. ASSUME NEW t \in Tasks, EngineStep(t) PROVE Typed' /\ restarts' = restarts
  BY <1>0, <1>3, EngineTypes
     DEF EngineStep, RunWorkflow, GroupJoins, RunCancelled, ChildStarts, StepResumes, StepCancelled
<1>4. ASSUME NEW t \in Tasks, NEW s \in Steps, ExecutorStep(t, s)
      PROVE  Typed' /\ restarts' = restarts
  BY <1>0, <1>4, ExecutorTypes DEF ExecutorStep, ExecutorReturns, ExecutorRaises
<1>5. CASE Restart
  <2>1. /\ task' \in [Tasks -> TaskStates] /\ exec' \in [Tasks -> [Steps -> ExecStates]]
        /\ running' = NoTask /\ waits' \in [Steps -> Tasks \cup {NoTask}] /\ skip' = FALSE
        /\ UNCHANGED <<status, step>> /\ restarts' \in 0..MaxRestarts
    BY <1>0, <1>5, TaskFacts DEF Restart, diskVars, ExecStates
  <2> QED BY <1>0, <1>1, <2>1 DEF Typed
<1>6. CASE UNCHANGED vars
  <2>1. UNCHANGED <<status, step, running, waits, skip, task, exec, restarts>>
    BY <1>6 DEF vars, diskVars, memVars
  <2> QED BY <1>0, <1>1, <2>1 DEF Typed
<1> QED BY <1>0, <1>1, <1>2, <1>3, <1>4, <1>5, <1>6 DEF Next

\* What the engine keeps of a run in state.json and in memory is well typed,
\* whatever clients call and when (services/workflows/engine.py and state.py).
THEOREM TypeCorrect == Spec => []TypeOK
BY TypeInit, TypeNext, PTL DEF Spec

-----------------------------------------------------------------------------
(* Who works on the run.                                                   *)

\* Runs are executed again only when they have ended, and single steps only
\* while no coroutine runs the workflow.
Orderly ==
  /\ RerunIn \subseteq {"completed", "failed"}
  /\ ExecuteIn \subseteq {"pending", "completed", "failed"}
  /\ ExecuteIn # {} => ~Impatient
  /\ "pending" \in ExecuteIn => "start" \notin Commands

\* Coroutines of _run_workflow and of execute_single_step.
Runner(t) == task[t].st # "none" /\ ~task[t].single
Single(t) == task[t].st # "none" /\ task[t].single

Gone(t) ==
  /\ task[t].st = "none" /\ ~task[t].single /\ ~task[t].cancelled
  /\ \A s \in Steps : exec[t][s] = "none"

AtOneStep(t) ==
  /\ \A s \in Steps : exec[t][s] \in {"none", "executing", "waiting", "woken"}
  /\ \A r, s \in Steps : exec[t][r] # "none" /\ exec[t][s] # "none" => r = s

\* At most one coroutine runs the workflow, none does once the run has ended,
\* and none does beside an execute_single_step.
Apart ==
  /\ \A t \in Tasks : task[t].st = "none" => Gone(t)
  /\ \A t, u \in Tasks : Runner(t) /\ Runner(u) => t = u
  /\ \A t \in Tasks : Runner(t) =>
       /\ status \in {"pending", "running", "cancelled"} \ ExecuteIn
       /\ task[t].cancelled <=> status = "cancelled"
  /\ \A t \in Tasks : Single(t) =>
       /\ ExecuteIn # {} /\ status \in ExecuteIn \cup {"completed"}
       /\ ~task[t].cancelled /\ task[t].st = "running" /\ AtOneStep(t)
       /\ \A u \in Tasks : ~Runner(u)
  /\ running # NoTask => Runner(running)

ApartStep == Apart' /\ (status = "cancelled" => status' = "cancelled")

LEMMA AloneRuns ==
  ASSUME Apart, NEW t \in Tasks, Runner(t)
  PROVE  \A u \in Tasks \ {t} : Gone(u)
<1> SUFFICES ASSUME NEW u \in Tasks \ {t} PROVE task[u].st = "none"
  BY DEF Apart
<1>1. ~Runner(u)
  BY DEF Apart
<1>2. ~Single(u)
  BY DEF Apart
<1> QED BY <1>1, <1>2 DEF Runner, Single

LEMMA AllGone ==
  ASSUME \A u \in Tasks : Gone(u)', running' = NoTask
  PROVE  Apart'
BY DEF Apart, Gone, Runner, Single

LEMMA EndedApart ==
  ASSUME Typed, Apart, NEW t \in Tasks, Runner(t), Ended(t)
  PROVE  Apart' /\ \A u \in Tasks : Gone(u)'
<1>1. /\ running' = NoTask /\ task'[t] = NotATask /\ \A s \in Steps : exec'[t][s] = "none"
      /\ \A u \in Tasks \ {t} : task'[u] = task[u] /\ exec'[u] = exec[u]
  BY EndedFacts
<1>2. \A u \in Tasks : Gone(u)'
  BY <1>1, TaskFacts, AloneRuns DEF Gone
<1> QED BY <1>1, <1>2, AllGone

\* One coroutine runs the workflow afterwards.
LEMMA OneRuns ==
  ASSUME NEW t \in Tasks, task'[t].st # "none", ~task'[t].single,
         \A u \in Tasks \ {t} : Gone(u)',
         status' \in {"pending", "running", "cancelled"} \ ExecuteIn,
         task'[t].cancelled <=> status' = "cancelled",
         running' \in {t, NoTask}
  PROVE  Apart'
BY DEF Apart, Gone, Runner, Single

LEMMA GroupBegunApart ==
  ASSUME Typed, Apart, Orderly, NEW t \in Tasks, Runner(t), ~task[t].cancelled,
         NEW k \in TaskStates, ~k.single, ~k.cancelled, NEW g, NEW now,
         GroupBegun(t, k, g, now)
  PROVE  ApartStep
<1>1. status \in {"pending", "running"} \ ExecuteIn
  BY DEF Apart
<1>2. status' \in {"pending", "running"} \ ExecuteIn
  BY <1>1 DEF GroupBegun, Orderly
<1>3. \A u \in Tasks \ {t} : Gone(u)'
  BY AloneRuns DEF GroupBegun, Gone
<1>4. running' \in {t, NoTask}
  BY AloneRuns DEF GroupBegun, Apart, Gone, Runner, Typed
<1> QED BY <1>1, <1>2, <1>3, <1>4, OneRuns DEF GroupBegun, ApartStep

LEMMA ProceedApart ==
  ASSUME Typed, Apart, Orderly, NEW t \in Tasks, Runner(t), ~task[t].cancelled,
         NEW k \in TaskStates, ~k.single, ~k.cancelled, NEW i \in Nat,
         NEW now \in [Steps -> StepStatuses], Proceed(t, k, i, now)
  PROVE  ApartStep
<1>1. status # "cancelled"
  BY DEF Apart
<1>2. CASE NothingLeft(t, k, i, now)
  BY <1>1, <1>2, EndedApart DEF NothingLeft, ApartStep
<1>3. ASSUME NEW g \in i..Cardinality(Steps), GroupNext(t, k, i, g, now) PROVE ApartStep
  <2>1. g \in Nat
    BY ConstantTypes
  <2> QED BY <1>3, <2>1, GroupNextFacts, GroupBegunApart
<1> QED BY <1>2, <1>3, ProceedFacts

\* Coroutines make progress with their steps; none starts or ends.
LEMMA OnlyProgress ==
  ASSUME Apart, UNCHANGED <<status, running, task>>,
         \A u \in Tasks, r \in Steps : exec'[u][r] = "none" <=> exec[u][r] = "none",
         \A u \in Tasks, r \in Steps :
           exec'[u][r] = exec[u][r] \/ ~task[u].single \/ exec'[u][r] = "woken"
  PROVE  ApartStep
<1>1. \A u \in Tasks : /\ Gone(u) => Gone(u)'
                       /\ task[u].single /\ AtOneStep(u) => AtOneStep(u)'
                       /\ Runner(u)' <=> Runner(u)
                       /\ Single(u)' <=> Single(u)
  BY DEF Gone, AtOneStep, Runner, Single
<1>2. \A u \in Tasks : Single(u) => task[u].single
  BY DEF Single
<1>3. running # NoTask => Runner(running)'
  BY DEF Apart, Runner
<1> QED BY <1>1, <1>2, <1>3 DEF Apart, ApartStep

LEMMA AtStep ==
  ASSUME Typed, Apart, NEW t \in Tasks, NEW s \in Steps, exec[t][s] # "none"
  PROVE  /\ task[t] \in TaskStates /\ task[t].st # "none"
         /\ Runner(t) \/ Single(t)
         /\ task[t].cancelled => Runner(t)
         /\ exec[t][s] \notin {"executing", "waiting", "woken"} => Runner(t)
<1>1. task[t].st # "none"
  BY DEF Apart, Gone
<1>2. task[t] \in TaskStates
  BY DEF Typed
<1>3. Single(t) => ~task[t].cancelled /\ exec[t][s] \in {"executing", "waiting", "woken"}
  BY DEF Apart, AtOneStep
<1> QED BY <1>1, <1>2, <1>3 DEF Runner, Single

\* An execute_single_step is over; the other ones go on.
LEMMA SingleGone ==
  ASSUME Typed, Apart, Orderly, NEW t \in Tasks, Single(t), Gone(t)', UNCHANGED running,
         \A u \in Tasks \ {t} : task'[u] = task[u] /\ exec'[u] = exec[u],
         status' \in {status, "completed"}
  PROVE  ApartStep
<1>1. \A u \in Tasks \ {t} : /\ Gone(u) => Gone(u)'
                             /\ AtOneStep(u) => AtOneStep(u)'
                             /\ Runner(u)' <=> Runner(u)
                             /\ Single(u)' <=> Single(u)
  BY DEF Gone, AtOneStep, Runner, Single
<1>2. ~Runner(t)' /\ ~Single(t)'
  BY DEF Gone, Runner, Single
<1>3. \A u \in Tasks : ~Runner(u)
  BY DEF Apart
<1>4. running = NoTask
  BY <1>3 DEF Apart, Typed
<1>5. status # "cancelled"
  BY DEF Apart, Orderly
<1> QED BY <1>1, <1>2, <1>3, <1>4, <1>5 DEF Apart, ApartStep

LEMMA SingleEndsApart ==
  ASSUME Typed, Apart, Orderly, NEW t \in Tasks, Single(t), NEW now, SingleEnds(t, now)
  PROVE  ApartStep
<1>1. /\ status' \in {status, "completed"} /\ UNCHANGED running
      /\ task' = [task EXCEPT ![t] = NotATask]
      /\ exec' = [exec EXCEPT ![t] = [s \in Steps |-> "none"]]
  BY DEF SingleEnds, memVars
<1>2. /\ task'[t] = NotATask /\ \A s \in Steps : exec'[t][s] = "none"
      /\ \A u \in Tasks \ {t} : task'[u] = task[u] /\ exec'[u] = exec[u]
  BY <1>1, SingleOver
<1>3. Gone(t)'
  BY <1>2, TaskFacts DEF Gone
<1> QED BY <1>1, <1>2, <1>3, SingleGone

LEMMA StepEndsApart ==
  ASSUME Typed, Apart, Orderly, NEW t \in Tasks, NEW s \in Steps, ~task[t].cancelled,
         exec[t][s] \in {"executing", "woken", "reviewed"},
         NEW now \in [Steps -> StepStatuses], StepEnds(t, s, now)
  PROVE  ApartStep
<1>1. /\ task[t] \in TaskStates /\ (Runner(t) \/ Single(t))
      /\ task[t].group + 1 \in Nat
  BY AtStep DEF TaskStates
<1>2. CASE task[t].single
  <2>1. Single(t) /\ SingleEnds(t, now)
    BY <1>1, <1>2 DEF StepEnds, Inline, Runner, Single
  <2> QED BY <2>1, SingleEndsApart
<1>3. CASE ~task[t].single
  <2>1. Runner(t)
    BY <1>1, <1>3 DEF Single
  <2>2. CASE Proceed(t, task[t], task[t].group + 1, now)
    BY <1>1, <1>3, <2>1, <2>2, AtStep, ProceedApart
  <2>3. CASE exec' = [exec EXCEPT ![t][s] = "ok"] /\ UNCHANGED <<status, memVars, task>>
    <3>1. "ok" \in ExecStates
      BY DEF ExecStates, Over
    <3>2. /\ exec'[t][s] = "ok" /\ exec[t][s] # "none"
          /\ \A r \in Steps \ {s} : exec'[t][r] = exec[t][r]
          /\ \A u \in Tasks \ {t} : exec'[u] = exec[u]
      BY <2>3, <3>1, ExecAt
    <3> QED BY <1>3, <2>3, <3>2, OnlyProgress DEF memVars
  <2> QED BY <1>3, <2>2, <2>3 DEF StepEnds
<1> QED BY <1>2, <1>3

\* No coroutine, and then one that runs the workflow.
LEMMA FirstRuns ==
  ASSUME Typed, Apart, Orderly, \A u \in Tasks : task[u].st = "none", NEW i \in Nat,
         NEW t \in Tasks, task' = [task EXCEPT ![t] = NewTask(FALSE, i)], running' = t,
         UNCHANGED exec, status' \in {"pending", "running"} \ ExecuteIn
  PROVE  Apart'
<1>1. /\ NewTask(FALSE, i) \in TaskStates /\ NewTask(FALSE, i).st = "created"
      /\ ~NewTask(FALSE, i).single /\ ~NewTask(FALSE, i).cancelled
  BY TaskFacts
<1>2. task'[t] = NewTask(FALSE, i) /\ \A u \in Tasks \ {t} : task'[u] = task[u]
  BY <1>1, NewTaskTypes
<1>3. \A u \in Tasks \ {t} : Gone(u)'
  BY <1>2 DEF Apart, Gone
<1> QED BY <1>1, <1>2, <1>3, OneRuns

\* A run that has ended and nobody re-executes a step of is nobody's.
LEMMA NobodyIsThere ==
  ASSUME Apart, Orderly, status \in {"completed", "failed"},
         Impatient \/ \A t \in Tasks : ~task[t].single
  PROVE  \A u \in Tasks : task[u].st = "none"
<1> TAKE u \in Tasks
<1>1. ~Runner(u) /\ ~Single(u)
  BY DEF Apart, Orderly, Single
<1> QED BY <1>1 DEF Runner, Single

LEMMA ClientApart ==
  ASSUME Typed, Apart, Orderly, ClientStep
  PROVE  ApartStep
<1>1. CASE StartRun
  <2>1. \A u \in Tasks : task[u].st = "none"
    BY <1>1 DEF StartRun, Apart, Orderly, Runner, Single
  <2>2. /\ UNCHANGED exec /\ status' = "pending" /\ status = "none"
        /\ \/ /\ "start" \in Commands
              /\ \E t \in Tasks : task' = [task EXCEPT ![t] = NewTask(FALSE, 1)] /\ running' = t
           \/ UNCHANGED <<task, running>>
    BY <1>1 DEF StartRun, Slot
  <2>3. CASE UNCHANGED <<task, running>>
    <3>1. running = NoTask
      BY <2>1 DEF Apart, Runner, Typed
    <3>2. \A u \in Tasks : Gone(u)'
      BY <2>1, <2>2, <2>3 DEF Apart, Gone
    <3> QED BY <2>2, <2>3, <3>1, <3>2, AllGone DEF ApartStep
  <2>4. CASE "start" \in Commands /\ \E t \in Tasks :
               task' = [task EXCEPT ![t] = NewTask(FALSE, 1)] /\ running' = t
    <3>1. "pending" \notin ExecuteIn
      BY <2>4 DEF Orderly
    <3> QED BY <2>1, <2>2, <2>4, <3>1, FirstRuns DEF ApartStep
  <2> QED BY <2>2, <2>3, <2>4
<1>2. CASE CancelRun
  <2>1. /\ running \in Tasks /\ Runner(running) /\ UNCHANGED <<running, exec>>
        /\ status' = "cancelled" /\ task' = [task EXCEPT ![running].cancelled = TRUE]
    BY <1>2 DEF CancelRun, memVars, Live, Typed, Apart
  <2>2. /\ task'[running].st # "none" /\ ~task'[running].single /\ task'[running].cancelled
        /\ \A u \in Tasks \ {running} : task'[u] = task[u]
    BY <2>1 DEF Typed, TaskStates, Runner
  <2>3. \A u \in Tasks \ {running} : Gone(u)'
    BY <2>1, <2>2, AloneRuns DEF Gone
  <2>4. status' \in {"pending", "running", "cancelled"} \ ExecuteIn
    BY <2>1 DEF Orderly
  <2>5. \A t \in Tasks : t = running => Apart'
    BY <2>1, <2>2, <2>3, <2>4, OneRuns
  <2> QED BY <2>1, <2>5 DEF ApartStep
<1>3. ASSUME NEW s \in Steps, ApproveStep(s) PROVE ApartStep
  <2>1. UNCHANGED <<status, running, task>>
    BY <1>3 DEF ApproveStep, memVars
  <2>2. \A u \in Tasks, r \in Steps :
          /\ exec'[u][r] = "none" <=> exec[u][r] = "none"
          /\ exec'[u][r] = exec[u][r] \/ ~task[u].single \/ exec'[u][r] = "woken"
    <3> TAKE u \in Tasks, r \in Steps
    <3>1. CASE r # s
      BY <1>3, <3>1, ApproveFacts
    <3>2. CASE exec[u][s] = "reviewing"
      <4>1. ~task[u].single
        BY <3>2, AtStep DEF Runner
      <4> QED BY <1>3, <3>1, <3>2, <4>1, ApproveFacts
    <3>3. CASE exec[u][s] # "reviewing"
      BY <1>3, <3>1, <3>3, ApproveFacts
    <3> QED BY <3>2, <3>3
  <2> QED BY <2>1, <2>2, OnlyProgress
<1>4. ASSUME NEW s \in Steps, RerunFrom(s) PROVE ApartStep
  <2>1. /\ status \in {"completed", "failed"} /\ status' = "running" /\ UNCHANGED exec
        /\ Impatient \/ \A t \in Tasks : ~task[t].single
        /\ \E t \in Tasks : task' = [task EXCEPT ![t] = NewTask(FALSE, Level[s])] /\ running' = t
    BY <1>4 DEF RerunFrom, Slot, Orderly
  <2>2. \A u \in Tasks : task[u].st = "none"
    BY <2>1, NobodyIsThere
  <2>3. Level[s] \in Nat /\ "running" \notin ExecuteIn
    BY LevelIsNat DEF Orderly
  <2> QED BY <2>1, <2>2, <2>3, FirstRuns DEF ApartStep
<1>5. ASSUME NEW s \in Steps, ExecuteSingleStep(s) PROVE ApartStep
  <2> DEFINE k == [NewTask(TRUE, 0) EXCEPT !.st = "running"]
             e == At(s)
  <2>1. PICK t \in Slot : /\ task' = [task EXCEPT ![t] = k]
                          /\ exec' = [exec EXCEPT ![t][s] = e]
    BY <1>5 DEF ExecuteSingleStep
  <2>2. status \in ExecuteIn /\ UNCHANGED <<status, running>>
    BY <1>5 DEF ExecuteSingleStep
  <2>3. k \in TaskStates /\ k.st = "running" /\ k.single /\ ~k.cancelled
    BY TaskFacts
  <2>4. e \in ExecStates /\ e \in {"waiting", "executing"}
    BY BegunTypes
  <2> HIDE DEF k, e
  <2>5. t \in Tasks /\ Gone(t)
    BY DEF Slot, Apart
  <2>6. task'[t] = k /\ \A u \in Tasks \ {t} : task'[u] = task[u]
    BY <2>1, <2>3, <2>5, NewTaskTypes
  <2>7. /\ exec'[t][s] = e
        /\ \A r \in Steps \ {s} : exec'[t][r] = exec[t][r]
        /\ \A u \in Tasks \ {t} : exec'[u] = exec[u]
    BY <2>1, <2>4, <2>5, ExecAt
  <2>8. \A u \in Tasks : ~Runner(u)
    BY <2>2 DEF Apart
  <2>9. running = NoTask
    BY <2>8 DEF Apart, Typed
  <2>10. \A u \in Tasks \ {t} : /\ Gone(u) => Gone(u)'
                                /\ AtOneStep(u) => AtOneStep(u)'
                                /\ Runner(u)' <=> Runner(u)
                                /\ Single(u)' <=> Single(u)
    BY <2>6, <2>7 DEF Gone, AtOneStep, Runner, Single
  <2>11. ~Runner(t)' /\ AtOneStep(t)' /\ task'[t].st = "running" /\ ~task'[t].cancelled
    BY <2>3, <2>4, <2>5, <2>6, <2>7 DEF Runner, AtOneStep, Gone
  <2>12. \A u \in Tasks : ~Runner(u)'
    BY <2>8, <2>10, <2>11
  <2>13. \A u \in Tasks : task'[u].st = "none" => Gone(u)'
    BY <2>6, <2>10, <2>11 DEF Apart
  <2>14. \A u \in Tasks : Single(u)' =>
           ~task'[u].cancelled /\ task'[u].st = "running" /\ AtOneStep(u)'
    <3>1. \A u \in Tasks \ {t} : Single(u) =>
             ~task[u].cancelled /\ task[u].st = "running" /\ AtOneStep(u)
      BY DEF Apart
    <3> QED BY <2>6, <2>10, <2>11, <3>1
  <2> QED BY <2>2, <2>9, <2>12, <2>13, <2>14 DEF Apart, ApartStep
<1> QED BY <1>1, <1>2, <1>3, <1>4, <1>5 DEF ClientStep

LEMMA EngineApart ==
  ASSUME Typed, Apart, Orderly, NEW t \in Tasks, EngineStep(t)
  PROVE  ApartStep
<1>0. task[t] \in TaskStates /\ step \in [Steps -> StepStatuses]
  BY DEF Typed
<1>1. CASE RunWorkflow(t)
  <2> DEFINE k == [task[t] EXCEPT !.snap = [s \in Steps |-> step[s] = "completed"]]
  <2>1. Runner(t) /\ ~task[t].cancelled
    BY <1>1 DEF RunWorkflow, Apart, Runner, Single
  <2>2. k \in TaskStates /\ k.group \in Nat /\ ~k.single /\ ~k.cancelled
    BY <1>0, <2>1 DEF TaskStates, Runner
  <2>3. Proceed(t, k, k.group, step)
    BY <1>1 DEF RunWorkflow
  <2> HIDE DEF k
  <2> QED BY <1>0, <2>1, <2>2, <2>3, ProceedApart
<1>2. CASE GroupJoins(t)
  <2>1. Runner(t) /\ ~task[t].cancelled /\ ~task[t].single
    BY <1>2 DEF GroupJoins, Inline, Runner
  <2>2. status # "cancelled"
    BY <2>1 DEF Apart
  <2>3. CASE Ended(t)
    BY <2>1, <2>2, <2>3, EndedApart DEF ApartStep
  <2>4. CASE Proceed(t, task[t], task[t].group + 1, step)
    <3>1. task[t].group + 1 \in Nat
      BY <1>0 DEF TaskStates
    <3> QED BY <1>0, <2>1, <2>4, <3>1, ProceedApart
  <2> QED BY <1>2, <2>3, <2>4 DEF GroupJoins
<1>3. CASE RunCancelled(t)
  <2>1. task[t].cancelled /\ UNCHANGED status
    BY <1>3 DEF RunCancelled, diskVars
  <2>2. Runner(t)
    BY <2>1 DEF Apart, Gone, Runner, Single
  <2>3. CASE Ended(t)
    BY <2>1, <2>2, <2>3, EndedApart DEF ApartStep
  <2>4. CASE /\ task' = [task EXCEPT ![t] = NotATask]
             /\ exec' = [exec EXCEPT ![t] = [s \in Steps |-> "none"]]
             /\ running' = IF running = t THEN NoTask ELSE running
    <3>1. /\ task'[t] = NotATask /\ \A s \in Steps : exec'[t][s] = "none"
          /\ \A u \in Tasks \ {t} : task'[u] = task[u] /\ exec'[u] = exec[u]
      BY <2>4, SingleOver
    <3>2. \A u \in Tasks : Gone(u)'
      BY <2>2, <3>1, TaskFacts, AloneRuns DEF Gone
    <3>3. running' = NoTask
      BY <2>2, <2>4 DEF Apart, Typed
    <3> QED BY <2>1, <3>2, <3>3, AllGone DEF ApartStep
  <2> QED BY <1>3, <2>3, <2>4 DEF RunCancelled
<1>4. ASSUME NEW s \in Steps, ChildStarts(t, s) PROVE ApartStep
  <2>1. exec[t][s] = "created" /\ UNCHANGED <<status, running, task>>
    BY <1>4 DEF ChildStarts
  <2>2. ~task[t].single
    BY <2>1, AtStep DEF Runner
  <2>3. /\ exec'[t][s] \in {"waiting", "executing"}
        /\ \A r \in Steps \ {s} : exec'[t][r] = exec[t][r]
        /\ \A u \in Tasks \ {t} : exec'[u] = exec[u]
    <3>1. StepStarted(t, s)
      BY <1>4 DEF ChildStarts, StepStarted
    <3> QED BY <3>1, StepBegins, BegunTypes
  <2> QED BY <2>1, <2>2, <2>3, OnlyProgress
<1>5. ASSUME NEW s \in Steps, StepResumes(t, s) PROVE ApartStep
  <2> DEFINE now == IF exec[t][s] = "reviewed" THEN [step EXCEPT ![s] = "completed"] ELSE step
  <2>1. /\ now \in [Steps -> StepStatuses] /\ StepEnds(t, s, now)
        /\ ~task[t].cancelled /\ exec[t][s] \in {"woken", "reviewed"}
    BY <1>0, <1>5 DEF StepResumes, StepStatuses
  <2> HIDE DEF now
  <2> QED BY <2>1, StepEndsApart
<1>6. ASSUME NEW s \in Steps, StepCancelled(t, s) PROVE ApartStep
  <2>1. /\ exec[t][s] # "none" /\ task[t].cancelled /\ UNCHANGED <<status, running, task>>
        /\ exec' = [exec EXCEPT ![t][s] = "cancelled"] /\ "cancelled" \in ExecStates
    BY <1>6 DEF StepCancelled, diskVars, memVars, Active, ExecStates, Over
  <2>2. ~task[t].single
    BY <2>1, AtStep DEF Runner
  <2>3. /\ exec'[t][s] = "cancelled"
        /\ \A r \in Steps \ {s} : exec'[t][r] = exec[t][r]
        /\ \A u \in Tasks \ {t} : exec'[u] = exec[u]
    BY <2>1, ExecAt
  <2> QED BY <2>1, <2>2, <2>3, OnlyProgress
<1> QED BY <1>1, <1>2, <1>3, <1>4, <1>5, <1>6 DEF EngineStep

LEMMA ExecutorApart ==
  ASSUME Typed, Apart, Orderly, NEW t \in Tasks, NEW s \in Steps, ExecutorStep(t, s)
  PROVE  ApartStep
<1>1. /\ exec[t][s] = "executing" /\ ~task[t].cancelled
      /\ {"reviewing", "error", "none"} \subseteq ExecStates
  BY DEF ExecutorStep, ExecutorReturns, ExecutorRaises, ExecStates, Active, Over
<1>2. (Runner(t) \/ Single(t)) /\ task[t].st # "none"
  BY <1>1, AtStep
<1>3. CASE StepEnds(t, s, [step EXCEPT ![s] = "completed"])
  <2>1. [step EXCEPT ![s] = "completed"] \in [Steps -> StepStatuses]
    BY DEF Typed, StepStatuses
  <2> QED BY <1>1, <1>3, <2>1, StepEndsApart
<1>4. ASSUME ~task[t].single, NEW e \in {"reviewing", "error"},
             exec' = [exec EXCEPT ![t][s] = e], UNCHANGED <<status, running, task>>
      PROVE  ApartStep
  <2>1. /\ exec'[t][s] = e
        /\ \A r \in Steps \ {s} : exec'[t][r] = exec[t][r]
        /\ \A u \in Tasks \ {t} : exec'[u] = exec[u]
    BY <1>1, <1>4, ExecAt
  <2> QED BY <1>1, <1>4, <2>1, OnlyProgress
<1>5. ASSUME task[t].single, task' = [task EXCEPT ![t] = NotATask],
             exec' = [exec EXCEPT ![t][s] = "none"], UNCHANGED <<status, running>>
      PROVE  ApartStep
  <2>1. Single(t) /\ AtOneStep(t)
    BY <1>2, <1>5 DEF Single, Apart
  <2>2. task'[t] = NotATask /\ \A u \in Tasks \ {t} : task'[u] = task[u]
    BY <1>5, TaskFacts, NewTaskTypes
  <2>3. /\ exec'[t][s] = "none"
        /\ \A r \in Steps \ {s} : exec'[t][r] = exec[t][r]
        /\ \A u \in Tasks \ {t} : exec'[u] = exec[u]
    BY <1>1, <1>5, ExecAt
  <2>4. Gone(t)'
    BY <1>1, <2>1, <2>2, <2>3, TaskFacts DEF Gone, AtOneStep
  <2> QED BY <1>5, <2>1, <2>2, <2>3, <2>4, SingleGone
<1>6. CASE ~task[t].single /\ Ended(t)
  <2>1. Runner(t)
    BY <1>2, <1>6 DEF Single
  <2>2. status # "cancelled"
    BY <1>1, <2>1 DEF Apart
  <2> QED BY <1>6, <2>1, <2>2, EndedApart DEF ApartStep
<1>7. CASE ExecutorReturns(t, s)
  BY <1>3, <1>4, <1>7 DEF ExecutorReturns
<1>8. CASE ExecutorRaises(t, s)
  BY <1>4, <1>5, <1>6, <1>8 DEF ExecutorRaises, Inline, memVars
<1> QED BY <1>7, <1>8 DEF ExecutorStep

LEMMA ApartInit == Init => Apart
<1>1. Init => running = NoTask /\ \A t \in Tasks : Gone(t)
  BY TaskFacts DEF Init, Gone
<1> QED BY <1>1 DEF Apart, Gone, Runner, Single

LEMMA ApartNext ==
  ASSUME Orderly, TypeOK, Apart, [Next]_vars
  PROVE  ApartStep
<1>0. Typed
  BY TypeOKIsTyped
<1>1. CASE Restart
  <2>1. running' = NoTask /\ UNCHANGED status
    BY <1>1 DEF Restart, diskVars
  <2>2. \A t \in Tasks : Gone(t)'
    BY <1>1, TaskFacts DEF Restart, Gone
  <2> QED BY <2>1, <2>2, AllGone DEF ApartStep
<1>2. CASE UNCHANGED vars
  <2>1. UNCHANGED <<status, running, task, exec>>
    BY <1>2 DEF vars, diskVars, memVars
  <2> QED BY <2>1, OnlyProgress
<1> QED BY <1>0, <1>1, <1>2, ClientApart, EngineApart, ExecutorApart DEF Next

LEMMA ApartHolds ==
  ASSUME Orderly
  PROVE  Spec => [](TypeOK /\ Apart)
<1>1. Init => TypeOK /\ Apart
  BY TypeInit, ApartInit
<1>2. TypeOK /\ Apart /\ [Next]_vars => (TypeOK /\ Apart)'
  BY TypeNext, ApartNext DEF ApartStep
<1> QED BY <1>1, <1>2, PTL DEF Spec

\* No two coroutines that run the workflow execute the same step, over reruns of
\* runs that completed or failed and single steps executed in between, restarts
\* included (_running, rerun_from and execute_single_step).
THEOREM OneExecutionHolds ==
  ASSUME Orderly
  PROVE  Spec => []OneExecution
<1>1. TypeOK /\ Apart => OneExecution
  <2> SUFFICES ASSUME TypeOK, Apart, NEW s \in Steps,
                      NEW t \in Tasks, ~task[t].single, exec[t][s] \in Active,
                      NEW u \in Tasks, ~task[u].single, exec[u][s] \in Active
               PROVE  t = u
    BY DEF OneExecution
  <2>1. Typed /\ exec[t][s] # "none" /\ exec[u][s] # "none"
    BY TypeOKIsTyped DEF Active
  <2>2. Runner(t) /\ Runner(u)
    BY <2>1, AtStep DEF Single
  <2> QED BY <2>2 DEF Apart
<1> QED BY <1>1, ApartHolds, PTL

\* A cancelled run stays cancelled until it is rerun, whatever its steps are
\* still doing (cancel, and the CancelledError that passes through _run_workflow).
THEOREM CancelHoldsHolds ==
  ASSUME Orderly
  PROVE  Spec => CancelHolds
<1>1. TypeOK /\ Apart /\ [Next]_vars =>
        [status = "cancelled" => status' \in {"cancelled", "running"}]_vars
  BY ApartNext DEF ApartStep
<1> QED BY <1>1, ApartHolds, PTL DEF Spec, CancelHolds

-----------------------------------------------------------------------------
(* What the steps are at.                                                  *)

\* Completed runs are rerun, and single steps executed before the run starts.
Regular ==
  /\ Orderly
  /\ RerunIn \subseteq {"completed"}
  /\ ExecuteIn \subseteq {"pending"}

\* start_run, approve_step and cancel are the only calls.
OneRun == RerunIn = {} /\ ExecuteIn = {}

N == Cardinality(Steps)

\* What is not pending has its dependencies completed.
InOrder(steps) ==
  \A s \in Steps : steps[s] # "pending" => \A d \in Deps[s] : steps[d] = "completed"

\* The groups from t's own on are still to be executed, or completed already.
GroupAhead(t) ==
  \A s \in Steps : /\ exec[t][s] = "none" /\ step[s] \in {"pending", "completed"}
                   /\ Level[s] < task[t].group => step[s] = "completed"

\* The groups before the one t is at are completed, those after it not begun
\* except for what was completed when t started.
GroupReached(t) ==
  LET k == task[t] IN
  \A s \in Steps : /\ Level[s] < k.group \/ k.snap[s] => step[s] = "completed"
                   /\ Level[s] > k.group /\ ~k.snap[s] => step[s] = "pending"
                   /\ exec[t][s] # "none" <=> Level[s] = k.group /\ ~k.snap[s]

\* A coroutine's progress with a step fits the step's status.
ExecFits(t, s) ==
  /\ exec[t][s] = "created" => step[s] = "pending"
  /\ exec[t][s] = "executing" => step[s] = "running"
  /\ exec[t][s] \in {"woken", "reviewed", "ok"} => step[s] = "completed"
  /\ exec[t][s] = "cancelled" => task[t].cancelled

Progress ==
  /\ status = "none" => \A s \in Steps : step[s] = "pending"
  /\ status = "completed" => \A s \in Steps : step[s] = "completed"
  /\ status # "pending" \/ ExecuteIn = {} => InOrder(step)
  /\ \A t \in Tasks : Runner(t) => task[t].group \in 1..N
  /\ \A t \in Tasks : Runner(t) /\ task[t].st = "created" => GroupAhead(t)
  /\ \A t \in Tasks : Runner(t) /\ task[t].st = "running" => GroupReached(t)
  /\ \A t \in Tasks, s \in Steps : ExecFits(t, s)
  /\ \A t, u \in Tasks, s \in Steps : exec[t][s] # "none" /\ exec[u][s] # "none" => t = u

\* As long as the replica lives the run is looked after.
LookedAfter ==
  restarts = 0 =>
    /\ status = "running" => \E t \in Tasks : Runner(t)
    /\ status # "cancelled" =>
         \A s \in Steps : step[s] = "waiting_input" =>
           /\ waits[s] \in Tasks
           /\ exec[waits[s]][s] \in {"waiting", "reviewing"}

EngineInv == TypeOK /\ Apart /\ Progress /\ LookedAfter

Outcome == IF status \in {"completed", "failed", "cancelled"} THEN status ELSE "open"

\* A step of DagRun, or none.
DagMoves ==
  \/ Completed' = Completed /\ Outcome' = Outcome
  \/ \E s \in Steps \ Completed :
       /\ Deps[s] \subseteq Completed /\ Completed' = Completed \cup {s}
       /\ \/ Outcome' = Outcome
          \/ Outcome = "open" /\ Completed' = Steps /\ Outcome' = "completed"
  \/ /\ Outcome = "open" /\ Completed' = Completed
     /\ Outcome' \in {"failed", "cancelled"} \/ (Completed = Steps /\ Outcome' = "completed")

Starts(t, s) ==
  exec[t][s] \in {"none", "created"} /\ exec'[t][s] \in {"executing", "waiting"}

StartsInOrder ==
  \A t \in Tasks, s \in Steps : Starts(t, s) =>
    /\ ~task'[t].single => step[s] # "completed"
    /\ \A d \in Deps[s] : step'[d] = "completed"

GoodStep == Progress' /\ LookedAfter' /\ StartsInOrder /\ (OneRun => DagMoves)

LEMMA DepsAreSteps == \A s \in Steps : Deps[s] \subseteq Steps
BY EngineConstants

LEMMA NIsNat == N \in Nat /\ \A s \in Steps : Level[s] \in 1..N /\ Level[s] \in Nat
BY ConstantTypes, LevelFacts DEF N

LEMMA OrderKnown ==
  ASSUME Regular, EngineInv, NEW t \in Tasks, Runner(t)
  PROVE  InOrder(step)
BY DEF Regular, EngineInv, Progress, Apart

\* Everybody is gone.
LEMMA EndedKeeps ==
  ASSUME \A u \in Tasks : Gone(u)', InOrder(step'),
         \/ status' = "completed" /\ \A s \in Steps : step'[s] = "completed"
         \/ status' = "failed" /\ (restarts' = 0 => \A s \in Steps : step'[s] # "waiting_input")
         \/ status' = "cancelled"
  PROVE  Progress' /\ LookedAfter'
<1>1. Progress'
  BY DEF Progress, Gone, Runner, ExecFits
<1>2. LookedAfter'
  BY DEF LookedAfter
<1> QED BY <1>1, <1>2

\* Where the loop over the groups is before group i.
Ready(k, i, now) ==
  \A s \in Steps : /\ Level[s] < i \/ k.snap[s] => now[s] = "completed"
                   /\ Level[s] >= i /\ ~k.snap[s] => now[s] = "pending"

\* A coroutine begins a group.
LEMMA BegunKeeps ==
  ASSUME EngineInv, TypeOK', Apart', NEW t \in Tasks, Runner(t), ~task[t].cancelled,
         NEW k \in TaskStates, ~k.single, ~k.cancelled, NEW g \in 1..N,
         NEW now \in [Steps -> StepStatuses], InOrder(now), Ready(k, g, now),
         GroupBegun(t, k, g, now)
  PROVE  Progress' /\ LookedAfter'
<1>0. \A s \in Steps : Level[s] \in Nat /\ (s \in Pending(k, g) <=> Level[s] = g /\ ~k.snap[s])
  BY NIsNat DEF Pending, Group
<1>0a. g \in Nat /\ Pending(k, g) \subseteq Steps
  BY NIsNat DEF Pending, Group
<1>1. status' \in {"pending", "running"}
  BY DEF EngineInv, Apart, GroupBegun
<1>2. \A u \in Tasks \ {t} : Gone(u)' /\ \A s \in Steps : exec'[u][s] = "none"
  BY AloneRuns DEF EngineInv, GroupBegun, Gone
<1>3. Runner(t)' /\ task'[t].st = "running" /\ task'[t].group = g /\ task'[t].snap = k.snap
  BY DEF GroupBegun, Runner
<1>4. \A u \in Tasks : Runner(u)' => u = t
  BY <1>2 DEF Gone, Runner
<1>5. \A s \in Steps :
        \/ step'[s] = now[s] /\ exec'[t][s] \in {"none", "created"}
        \/ s \in Pending(k, g) /\ step'[s] = "running" /\ exec'[t][s] = "executing"
        \/ s \in Pending(k, g) /\ step'[s] = "waiting_input" /\ exec'[t][s] = "waiting" /\ waits'[s] = t
  BY DEF GroupBegun
<1>6. GroupReached(t)'
  <2>1. SUFFICES ASSUME NEW s \in Steps
                 PROVE  /\ Level[s] < g \/ k.snap[s] => step'[s] = "completed"
                        /\ Level[s] > g /\ ~k.snap[s] => step'[s] = "pending"
                        /\ exec'[t][s] # "none" <=> Level[s] = g /\ ~k.snap[s]
    BY <1>3 DEF GroupReached
  <2>2. CASE s \in Pending(k, g)
    BY <1>0, <1>0a, <2>2 DEF GroupBegun
  <2>3. CASE s \notin Pending(k, g)
    BY <1>0, <1>0a, <2>3 DEF GroupBegun, Ready
  <2> QED BY <2>2, <2>3
<1>7. \A s \in Steps : ExecFits(t, s)'
  <2> TAKE s \in Steps
  <2>1. CASE s \in Pending(k, g)
    <3>1. now[s] = "pending"
      BY <1>0, <1>0a, <2>1 DEF Ready
    <3> QED BY <2>1, <3>1 DEF GroupBegun, ExecFits
  <2>2. CASE s \notin Pending(k, g)
    BY <2>2 DEF GroupBegun, ExecFits
  <2> QED BY <2>1, <2>2
<1>8. InOrder(step')
  <2>1. SUFFICES ASSUME NEW r \in Steps, step'[r] # "pending", NEW d \in Deps[r]
                 PROVE  step'[d] = "completed"
    BY DEF InOrder
  <2>2. d \in Steps /\ Level[d] < Level[r]
    BY <2>1, DepsAreSteps, LevelFacts
  <2>3. now[d] = "completed"
    <3>1. CASE r \in Pending(k, g)
      BY <1>0, <2>2, <3>1 DEF Ready
    <3>2. CASE r \notin Pending(k, g)
      BY <2>1, <3>2 DEF GroupBegun, InOrder
    <3> QED BY <3>1, <3>2
  <2>4. d \notin Pending(k, g)
    BY <1>0, <1>0a, <2>2, <2>3 DEF Ready
  <2> QED BY <2>2, <2>3, <2>4 DEF GroupBegun
<1>9. Progress'
  <2>1. \A u \in Tasks, s \in Steps : ExecFits(u, s)'
    BY <1>2, <1>7 DEF ExecFits
  <2>2. \A u, v \in Tasks, s \in Steps : exec'[u][s] # "none" /\ exec'[v][s] # "none" => u = v
    BY <1>2
  <2> QED BY <1>1, <1>3, <1>4, <1>6, <1>8, <2>1, <2>2 DEF Progress
<1>10. LookedAfter'
  <2>1. \A s \in Steps : step'[s] = "waiting_input" => waits'[s] = t /\ exec'[t][s] = "waiting"
    <3> TAKE s \in Steps
    <3>1. now[s] \in {"pending", "completed"}
      BY <1>0, <1>0a DEF Ready
    <3> QED BY <1>5, <3>1
  <2> QED BY <1>3, <2>1 DEF LookedAfter
<1> QED BY <1>9, <1>10

\* now is step, but for one step whose executor is through.
OneMoreDone(now) ==
  \/ \A r \in Steps : now[r] = step[r]
  \/ \E s \in Steps : /\ step[s] = "running" /\ now[s] = "completed"
                      /\ \A r \in Steps \ {s} : now[r] = step[r]

LEMMA OneMoreDoneIsDag ==
  ASSUME InOrder(step), NEW now \in [Steps -> StepStatuses], OneMoreDone(now),
         \A s \in Steps : step'[s] = "completed" <=> now[s] = "completed",
         \/ Outcome' = Outcome
         \/ /\ Outcome = "open" /\ Outcome' = "completed"
            /\ \A s \in Steps : now[s] = "completed"
  PROVE  DagMoves
<1>1. Completed' = {s \in Steps : now[s] = "completed"}
  BY DEF Completed
<1>2. CASE \A r \in Steps : now[r] = step[r]
  <2>1. Completed' = Completed
    BY <1>1, <1>2 DEF Completed
  <2>2. (\A s \in Steps : now[s] = "completed") => Completed = Steps
    BY <1>2 DEF Completed
  <2> QED BY <2>1, <2>2 DEF DagMoves
<1>3. ASSUME NEW s \in Steps, step[s] = "running", now[s] = "completed",
             \A r \in Steps \ {s} : now[r] = step[r]
      PROVE  DagMoves
  <2>1. s \in Steps \ Completed /\ Completed' = Completed \cup {s}
    BY <1>1, <1>3 DEF Completed
  <2>2. Deps[s] \subseteq Completed
    <3>1. \A d \in Deps[s] : d \in Steps /\ step[d] = "completed"
      BY <1>3, DepsAreSteps DEF InOrder
    <3> QED BY <3>1 DEF Completed
  <2>3. (\A r \in Steps : now[r] = "completed") => Completed' = Steps
    BY <1>1
  <2> QED BY <2>1, <2>2, <2>3 DEF DagMoves
<1> QED BY <1>2, <1>3 DEF OneMoreDone

LEMMA OneMoreDoneKeepsOrder ==
  ASSUME InOrder(step), NEW now, OneMoreDone(now)
  PROVE  InOrder(now)
<1>1. CASE \A r \in Steps : now[r] = step[r]
  BY <1>1, DepsAreSteps DEF InOrder
<1>2. ASSUME NEW s \in Steps, step[s] = "running", now[s] = "completed",
             \A r \in Steps \ {s} : now[r] = step[r]
      PROVE  InOrder(now)
  BY <1>2, DepsAreSteps DEF InOrder
<1> QED BY <1>1, <1>2 DEF OneMoreDone

\* A coroutine goes on to the next group.
LEMMA ProceedIsGood ==
  ASSUME Regular, EngineInv, TypeOK', Apart', NEW t \in Tasks, Runner(t), ~task[t].cancelled,
         NEW k \in TaskStates, ~k.single, ~k.cancelled,
         NEW i \in Nat, i >= 1, NEW now \in [Steps -> StepStatuses],
         Ready(k, i, now), OneMoreDone(now), Proceed(t, k, i, now), UNCHANGED restarts
  PROVE  GoodStep
<1>0. /\ Typed /\ status \in {"pending", "running"} /\ Outcome = "open" /\ N \in Nat
      /\ \A s \in Steps : Level[s] \in Nat /\ Level[s] \in 1..N
  BY TypeOKIsTyped, NIsNat DEF EngineInv, Apart, Outcome
<1>1. InOrder(step) /\ InOrder(now)
  BY OrderKnown, OneMoreDoneKeepsOrder
<1>2. \A j \in Nat, s \in Steps : s \in Pending(k, j) <=> Level[s] = j /\ ~k.snap[s]
  BY DEF Pending, Group
<1>3. CASE NothingLeft(t, k, i, now)
  <2>1. \A s \in Steps : now[s] = "completed"
    <3> TAKE s \in Steps
    <3>1. SUFFICES ASSUME Level[s] >= i, ~k.snap[s] PROVE FALSE
      BY <1>0 DEF Ready
    <3>2. Level[s] \in i..Cardinality(Steps) /\ s \in Pending(k, Level[s])
      BY <1>0, <1>2, <3>1 DEF N
    <3> QED BY <1>3, <3>2 DEF NothingLeft
  <2>2. status' = "completed" /\ Ended(t) /\ step' = now
    BY <1>3, <2>1 DEF NothingLeft
  <2>3. \A u \in Tasks : Gone(u)'
    BY <1>0, <2>2, EndedApart DEF EngineInv
  <2>4. Progress' /\ LookedAfter'
    BY <1>1, <2>1, <2>2, <2>3, EndedKeeps
  <2>5. StartsInOrder
    BY <2>3 DEF StartsInOrder, Starts, Gone
  <2>6. Outcome' = "completed"
    BY <2>2 DEF Outcome
  <2>7. DagMoves
    BY <1>0, <1>1, <2>1, <2>2, <2>6, OneMoreDoneIsDag
  <2> QED BY <2>4, <2>5, <2>7 DEF GoodStep
<1>4. ASSUME NEW g \in i..Cardinality(Steps), GroupNext(t, k, i, g, now) PROVE GoodStep
  <2>1. g \in Nat /\ g \in 1..N /\ g >= i
    BY <1>0 DEF N
  <2>2. GroupBegun(t, k, g, now)
    BY <1>0, <1>4, <2>1, GroupNextFacts
  <2>3. Ready(k, g, now)
    <3>1. SUFFICES ASSUME NEW s \in Steps, Level[s] < g, Level[s] >= i, ~k.snap[s] PROVE FALSE
      BY <1>0, <2>1 DEF Ready
    <3>2. Level[s] \in i..Cardinality(Steps) /\ s \in Pending(k, Level[s])
      BY <1>0, <1>2, <3>1 DEF N
    <3> QED BY <1>4, <3>1, <3>2 DEF GroupNext
  <2>4. Progress' /\ LookedAfter'
    BY <1>1, <2>1, <2>2, <2>3, BegunKeeps
  <2>5. \A s \in Pending(k, g) : s \in Steps /\ Level[s] = g /\ now[s] = "pending"
    BY <1>0, <1>2, <2>1, <2>3 DEF Ready, Pending, Group
  <2>6. \A s \in Steps : step'[s] = "completed" <=> now[s] = "completed"
    BY <2>2, <2>5 DEF GroupBegun
  <2>7. StartsInOrder
    <3>1. SUFFICES ASSUME NEW u \in Tasks, NEW s \in Steps, Starts(u, s)
                   PROVE  step[s] # "completed" /\ \A d \in Deps[s] : step'[d] = "completed"
      BY DEF StartsInOrder
    <3>2. u = t /\ s \in Pending(k, g)
      BY <2>2, <3>1 DEF GroupBegun, Starts
    <3>3. step[s] # "completed"
      BY <2>5, <3>2 DEF OneMoreDone
    <3>4. \A d \in Deps[s] : d \in Steps /\ Level[d] < g
      BY <1>0, <2>5, <3>2, LevelFacts, DepsAreSteps
    <3> QED BY <2>3, <2>6, <3>3, <3>4 DEF Ready
  <2>8. Outcome' = "open"
    BY <1>0, <2>2 DEF GroupBegun, Outcome
  <2>9. DagMoves
    BY <1>0, <1>1, <2>6, <2>8, OneMoreDoneIsDag
  <2> QED BY <2>4, <2>7, <2>9 DEF GoodStep
<1> QED BY <1>3, <1>4, ProceedFacts

\* Only one step of the group at hand goes on.
LEMMA InFlightKeeps ==
  ASSUME Regular, EngineInv, NEW t \in Tasks, Runner(t), task[t].st = "running",
         NEW s \in Steps, exec[t][s] # "none", exec'[t][s] # "none",
         UNCHANGED <<status, running, skip, task, restarts>>,
         \A r \in Steps \ {s} : /\ step'[r] = step[r] /\ waits'[r] = waits[r]
                                /\ exec'[t][r] = exec[t][r],
         \A u \in Tasks \ {t} : exec'[u] = exec[u],
         step[s] = "completed" => step'[s] = "completed",
         ExecFits(t, s)',
         \/ status = "cancelled"
         \/ step'[s] = "waiting_input" => /\ waits'[s] = t
                                          /\ exec'[t][s] \in {"waiting", "reviewing"}
  PROVE  Progress' /\ LookedAfter'
<1>0. /\ \A r \in Steps : Level[r] \in Nat
      /\ status \in {"pending", "running", "cancelled"}
      /\ task[t].group \in Nat
  BY NIsNat DEF EngineInv, Apart, Progress
<1>1. \A u \in Tasks \ {t} : Gone(u) /\ \A r \in Steps : exec'[u][r] = "none"
  BY AloneRuns DEF EngineInv, Gone
<1>2. GroupReached(t) /\ InOrder(step)
  BY OrderKnown DEF EngineInv, Progress
<1>3. Level[s] = task[t].group /\ ~task[t].snap[s]
  BY <1>2 DEF GroupReached
<1>4. \A r \in Steps : exec'[t][r] = "none" <=> exec[t][r] = "none"
  OBVIOUS
<1>5. GroupReached(t)'
  <2>1. SUFFICES ASSUME NEW r \in Steps
                 PROVE  /\ Level[r] < task[t].group \/ task[t].snap[r] => step'[r] = "completed"
                        /\ Level[r] > task[t].group /\ ~task[t].snap[r] => step'[r] = "pending"
                        /\ exec'[t][r] # "none" <=> Level[r] = task[t].group /\ ~task[t].snap[r]
    BY DEF GroupReached
  <2> QED BY <1>0, <1>2, <1>3, <1>4 DEF GroupReached
<1>6. \A r \in Steps : ExecFits(t, r)'
  <2>1. \A r \in Steps \ {s} : ExecFits(t, r)'
    BY DEF EngineInv, Progress, ExecFits
  <2> QED BY <2>1
<1>7. InOrder(step')
  <2>1. SUFFICES ASSUME NEW r \in Steps, step'[r] # "pending", NEW d \in Deps[r]
                 PROVE  step'[d] = "completed"
    BY DEF InOrder
  <2>2. d \in Steps /\ Level[d] < Level[r]
    BY <2>1, DepsAreSteps, LevelFacts
  <2>3. step[d] = "completed"
    <3>1. CASE r = s
      BY <1>0, <1>2, <1>3, <2>2, <3>1 DEF GroupReached
    <3>2. CASE r # s
      BY <1>2, <2>1, <3>2 DEF InOrder
    <3> QED BY <3>1, <3>2
  <2> QED BY <2>2, <2>3
<1>8. Runner(t)' /\ \A u \in Tasks \ {t} : ~Runner(u)'
  BY <1>1 DEF Gone, Runner
<1>9. Progress'
  <2>1. \A u \in Tasks, r \in Steps : ExecFits(u, r)'
    BY <1>1, <1>6 DEF ExecFits
  <2>2. \A u, v \in Tasks, r \in Steps : exec'[u][r] # "none" /\ exec'[v][r] # "none" => u = v
    BY <1>1
  <2>3. task[t].group \in 1..N
    BY DEF EngineInv, Progress
  <2> QED BY <1>0, <1>5, <1>7, <1>8, <2>1, <2>2, <2>3 DEF Progress
<1>10. LookedAfter'
  <2>1. restarts = 0 /\ status # "cancelled" =>
          \A r \in Steps : step'[r] = "waiting_input" =>
            waits'[r] \in Tasks /\ exec'[waits'[r]][r] \in {"waiting", "reviewing"}
    <3>1. SUFFICES ASSUME restarts = 0, status # "cancelled", NEW r \in Steps,
                          step'[r] = "waiting_input"
                   PROVE  waits'[r] \in Tasks /\ exec'[waits'[r]][r] \in {"waiting", "reviewing"}
      OBVIOUS
    <3>2. CASE r = s
      BY <3>1, <3>2
    <3>3. CASE r # s
      <4>1. /\ step[r] = "waiting_input" /\ waits'[r] = waits[r]
            /\ \A u \in Tasks : exec'[u][r] = exec[u][r]
        BY <3>1, <3>3
      <4> QED BY <3>1, <4>1 DEF EngineInv, LookedAfter
    <3> QED BY <3>2, <3>3
  <2> QED BY <1>8, <2>1 DEF LookedAfter
<1> QED BY <1>9, <1>10

\* The run fails: all that happens to the steps is that one may have failed.
LEMMA FailingIsGood ==
  ASSUME EngineInv, NEW t \in Tasks, Runner(t), ~task[t].cancelled, Ended(t),
         status' = "failed", InOrder(step'),
         restarts' = 0 => \A s \in Steps : step'[s] # "waiting_input",
         \A s \in Steps : step'[s] = "completed" <=> step[s] = "completed"
  PROVE  GoodStep
<1>1. Typed /\ status \in {"pending", "running"}
  BY TypeOKIsTyped DEF EngineInv, Apart
<1>2. \A u \in Tasks : Gone(u)'
  BY <1>1, EndedApart DEF EngineInv
<1>3. Progress' /\ LookedAfter'
  BY <1>2, EndedKeeps
<1>4. StartsInOrder
  BY <1>2 DEF StartsInOrder, Starts, Gone
<1>5. Outcome = "open" /\ Outcome' = "failed" /\ Completed' = Completed
  BY <1>1 DEF Outcome, Completed
<1> QED BY <1>3, <1>4, <1>5 DEF GoodStep, DagMoves

\* The step of an execute_single_step is over; the other ones go on.
LEMMA SingleOverIsGood ==
  ASSUME Regular, EngineInv, NEW t \in Tasks, Single(t), Gone(t)',
         NEW s \in Steps, exec[t][s] # "none", step'[s] \in {"completed", "failed"},
         \A r \in Steps \ {s} : step'[r] = step[r],
         \A u \in Tasks \ {t} : task'[u] = task[u] /\ exec'[u] = exec[u],
         UNCHANGED <<waits, restarts>>,
         \/ status' = "completed" /\ \A r \in Steps : step'[r] = "completed"
         \/ status' = "pending"
  PROVE  GoodStep
<1>1. /\ ExecuteIn # {} /\ AtOneStep(t) /\ (\A u \in Tasks : ~Runner(u))
      /\ status \in {"pending", "completed"}
  BY DEF EngineInv, Apart, Regular
<1>2. \A r \in Steps \ {s} : exec[t][r] = "none"
  BY <1>1 DEF AtOneStep
<1>3. \A u \in Tasks : ~Runner(u)'
  BY <1>1 DEF Runner, Gone
<1>4. \A u \in Tasks \ {t} : exec[u][s] = "none"
  BY DEF EngineInv, Progress
<1>5. \A u \in Tasks, r \in Steps : exec'[u][r] # "none" => r # s /\ exec'[u][r] = exec[u][r] /\ u # t
  BY <1>4 DEF Gone
<1>6. \A u \in Tasks, r \in Steps : ExecFits(u, r)'
  <2> TAKE u \in Tasks, r \in Steps
  <2>1. CASE exec'[u][r] = "none"
    BY <2>1 DEF ExecFits
  <2>2. CASE exec'[u][r] # "none"
    BY <1>5, <2>2 DEF EngineInv, Progress, ExecFits
  <2> QED BY <2>1, <2>2
<1>7. InOrder(step') \/ status' = "pending"
  BY DepsAreSteps DEF InOrder
<1>8. Progress'
  <2>1. \A u, v \in Tasks, r \in Steps : exec'[u][r] # "none" /\ exec'[v][r] # "none" => u = v
    BY <1>5 DEF EngineInv, Progress
  <2> QED BY <1>1, <1>3, <1>6, <1>7, <2>1 DEF Progress
<1>9. LookedAfter'
  <2>1. SUFFICES ASSUME restarts = 0, NEW r \in Steps, step'[r] = "waiting_input"
                 PROVE  waits[r] \in Tasks /\ exec'[waits[r]][r] \in {"waiting", "reviewing"}
    BY DEF LookedAfter
  <2>2. r # s /\ step[r] = "waiting_input"
    BY <2>1
  <2>3. waits[r] \in Tasks /\ exec[waits[r]][r] \in {"waiting", "reviewing"}
    BY <1>1, <2>1, <2>2 DEF EngineInv, LookedAfter
  <2>4. waits[r] # t
    BY <1>2, <2>2, <2>3
  <2> QED BY <2>3, <2>4
<1>10. StartsInOrder
  BY <1>5 DEF StartsInOrder, Starts
<1>11. ~OneRun
  BY <1>1 DEF OneRun
<1> QED BY <1>8, <1>9, <1>10, <1>11 DEF GoodStep

-----------------------------------------------------------------------------
(* The coroutines' actions.                                                *)

\* A coroutine that runs the workflow is at the steps of its group that were
\* not completed when it started.
LEMMA AtGroup ==
  ASSUME EngineInv, NEW t \in Tasks, NEW s \in Steps, exec[t][s] # "none", Runner(t)
  PROVE  /\ task[t].st = "running" /\ GroupReached(t) /\ task[t].group \in 1..N
         /\ Level[s] = task[t].group /\ ~task[t].snap[s]
         /\ Pending(task[t], task[t].group)
              = {r \in Steps : Level[r] = task[t].group /\ ~task[t].snap[r]}
         /\ ~task[t].cancelled => status # "cancelled"
<1>1. Typed /\ task[t] \in TaskStates
  BY TypeOKIsTyped DEF EngineInv, Typed
<1>2. task[t].st \in {"none", "created", "running"}
  BY <1>1 DEF TaskStates
<1>3. task[t].st = "running" /\ GroupReached(t) /\ task[t].group \in 1..N
  BY <1>2 DEF EngineInv, Progress, Runner, GroupAhead
<1>4. Pending(task[t], task[t].group)
        = {r \in Steps : Level[r] = task[t].group /\ ~task[t].snap[r]}
  BY DEF Pending, Group
<1> QED BY <1>3, <1>4 DEF GroupReached, EngineInv, Apart

\* In a group of one the step is all there is.
LEMMA AloneInGroup ==
  ASSUME EngineInv, NEW t \in Tasks, NEW s \in Steps, exec[t][s] # "none", Runner(t), Inline(t)
  PROVE  \A r \in Steps : Level[r] = task[t].group /\ ~task[t].snap[r] => r = s
<1> DEFINE P == {r \in Steps : Level[r] = task[t].group /\ ~task[t].snap[r]}
<1>1. s \in P /\ Cardinality(P) = 1
  BY AtGroup DEF Inline, Runner
<1>2. IsFiniteSet(P)
  BY ConstantTypes, FS_Subset
<1>3. PICK x : P = {x}
  <2> HIDE DEF P
  <2> QED BY <1>1, <1>2, FS_Singleton
<1> QED BY <1>1, <1>3

\* _execute_step returns.
LEMMA StepEndsIsGood ==
  ASSUME Regular, EngineInv, TypeOK', Apart',
         NEW t \in Tasks, NEW s \in Steps, ~task[t].cancelled,
         exec[t][s] \in {"executing", "woken", "reviewed"},
         NEW now \in [Steps -> StepStatuses], now[s] = "completed",
         \A r \in Steps \ {s} : now[r] = step[r],
         StepEnds(t, s, now), UNCHANGED restarts
  PROVE  GoodStep
<1>0. /\ Typed /\ task[t] \in TaskStates /\ (Runner(t) \/ Single(t))
      /\ \A r \in Steps : Level[r] \in Nat
      /\ step[s] \in {"running", "completed"}
  BY TypeOKIsTyped, AtStep, NIsNat DEF EngineInv, Progress, ExecFits
<1>1. OneMoreDone(now)
  BY <1>0 DEF OneMoreDone
<1>2. CASE Single(t)
  <2>1. SingleEnds(t, now)
    BY <1>2 DEF StepEnds, Inline, Single
  <2>2. /\ step' = now /\ UNCHANGED waits
        /\ task' = [task EXCEPT ![t] = NotATask]
        /\ exec' = [exec EXCEPT ![t] = [r \in Steps |-> "none"]]
        /\ status' = IF \A r \in Steps : now[r] = "completed" THEN "completed" ELSE status
    BY <2>1 DEF SingleEnds, memVars
  <2>3. /\ task'[t] = NotATask /\ \A r \in Steps : exec'[t][r] = "none"
        /\ \A u \in Tasks \ {t} : task'[u] = task[u] /\ exec'[u] = exec[u]
    BY <1>0, <2>2, SingleOver
  <2>4. Gone(t)'
    BY <2>3, TaskFacts DEF Gone
  <2>5. status \in {"pending", "completed"}
    BY <1>2 DEF EngineInv, Apart, Regular
  <2>6. status = "completed" => \A r \in Steps : now[r] = "completed"
    BY DEF EngineInv, Progress
  <2> QED BY <1>0, <1>2, <2>2, <2>3, <2>4, <2>5, <2>6, SingleOverIsGood
<1>3. CASE Runner(t)
  <2>1. /\ task[t].st = "running" /\ GroupReached(t) /\ task[t].group \in Nat
        /\ Level[s] = task[t].group /\ ~task[t].snap[s] /\ status # "cancelled"
        /\ task[t].group + 1 \in Nat /\ task[t].group + 1 >= 1 /\ ~task[t].single
    BY <1>0, <1>3, AtGroup, NIsNat DEF Runner
  <2>2. CASE Inline(t) /\ Proceed(t, task[t], task[t].group + 1, now)
    <3>1. \A r \in Steps : Level[r] = task[t].group /\ ~task[t].snap[r] => r = s
      BY <1>3, <2>2, AloneInGroup
    <3>2. Ready(task[t], task[t].group + 1, now)
      BY <1>0, <2>1, <3>1 DEF Ready, GroupReached
    <3> QED BY <1>0, <1>1, <1>3, <2>1, <2>2, <3>2, ProceedIsGood
  <2>3. CASE /\ ~Inline(t)
             /\ step' = now
             /\ exec' = [exec EXCEPT ![t][s] = "ok"]
             /\ UNCHANGED <<status, memVars, task>>
    <3>1. "ok" \in ExecStates
      BY DEF ExecStates, Over
    <3>2. /\ exec'[t][s] = "ok"
          /\ \A r \in Steps \ {s} : exec'[t][r] = exec[t][r]
          /\ \A u \in Tasks \ {t} : exec'[u] = exec[u]
      BY <1>0, <2>3, <3>1, ExecAt
    <3>3. ExecFits(t, s)'
      BY <2>3, <3>2 DEF ExecFits
    <3>4. Progress' /\ LookedAfter'
      BY <1>3, <2>1, <2>3, <3>2, <3>3, InFlightKeeps DEF memVars
    <3>5. StartsInOrder
      BY <3>2 DEF StartsInOrder, Starts
    <3>6. DagMoves
      BY <1>1, <1>3, <2>3, OrderKnown, OneMoreDoneIsDag DEF Outcome
    <3> QED BY <3>4, <3>5, <3>6 DEF GoodStep
  <2> QED BY <2>1, <2>2, <2>3 DEF StepEnds
<1> QED BY <1>0, <1>2, <1>3

LEMMA RunWorkflowIsGood ==
  ASSUME Regular, EngineInv, TypeOK', Apart', NEW t \in Tasks, RunWorkflow(t)
  PROVE  GoodStep
<1> DEFINE k == [task[t] EXCEPT !.snap = [s \in Steps |-> step[s] = "completed"]]
<1>0. /\ Typed /\ task[t] \in TaskStates /\ step \in [Steps -> StepStatuses]
      /\ task[t].st = "created" /\ ~task[t].cancelled /\ UNCHANGED restarts
  BY TypeOKIsTyped DEF EngineInv, Typed, RunWorkflow
<1>1. Runner(t)
  BY <1>0 DEF EngineInv, Apart, Runner, Single
<1>2. GroupAhead(t) /\ task[t].group \in Nat /\ task[t].group >= 1
  BY <1>0, <1>1, NIsNat DEF EngineInv, Progress
<1>3. /\ k \in TaskStates /\ ~k.single /\ ~k.cancelled /\ k.group = task[t].group
      /\ \A s \in Steps : k.snap[s] <=> step[s] = "completed"
  BY <1>0, <1>1 DEF TaskStates, Runner
<1>4. Proceed(t, k, k.group, step)
  BY DEF RunWorkflow
<1> HIDE DEF k
<1>5. Ready(k, k.group, step) /\ OneMoreDone(step)
  BY <1>2, <1>3 DEF Ready, GroupAhead, OneMoreDone
<1> QED BY <1>0, <1>1, <1>2, <1>3, <1>4, <1>5, ProceedIsGood

LEMMA ChildStartsIsGood ==
  ASSUME Regular, EngineInv, NEW t \in Tasks, NEW s \in Steps, ChildStarts(t, s)
  PROVE  GoodStep
<1>0. Typed /\ \A r \in Steps : Level[r] \in Nat
  BY TypeOKIsTyped, NIsNat DEF EngineInv
<1>1. /\ exec[t][s] = "created" /\ ~task[t].cancelled
      /\ UNCHANGED <<status, running, skip, task, restarts>>
  BY DEF ChildStarts
<1>2. Runner(t)
  BY <1>0, <1>1, AtStep DEF EngineInv
<1>3. /\ task[t].st = "running" /\ GroupReached(t) /\ Level[s] = task[t].group
      /\ status # "cancelled" /\ step[s] = "pending"
  BY <1>1, <1>2, AtGroup DEF EngineInv, Progress, ExecFits
<1>4. /\ step'[s] = Begun(s) /\ exec'[t][s] = At(s)
      /\ At(s) = "waiting" => waits'[s] = t
      /\ \A r \in Steps \ {s} : /\ step'[r] = step[r] /\ waits'[r] = waits[r]
                                /\ exec'[t][r] = exec[t][r]
      /\ \A u \in Tasks \ {t} : exec'[u] = exec[u]
  <2>1. StepStarted(t, s)
    BY DEF ChildStarts, StepStarted
  <2> QED BY <1>0, <2>1, StepBegins
<1>5. ExecFits(t, s)'
  BY <1>4, BegunTypes DEF ExecFits
<1>6. Progress' /\ LookedAfter'
  BY <1>1, <1>2, <1>3, <1>4, <1>5, BegunTypes, InFlightKeeps
<1>7. StartsInOrder
  <2>1. \A u \in Tasks, r \in Steps : Starts(u, r) => u = t /\ r = s
    BY <1>4 DEF Starts
  <2>2. \A d \in Deps[s] : step'[d] = "completed"
    BY <1>0, <1>3, <1>4, LevelFacts, DepsAreSteps DEF GroupReached
  <2> QED BY <1>3, <2>1, <2>2 DEF StartsInOrder
<1>8. Completed' = Completed /\ Outcome' = Outcome
  BY <1>1, <1>3, <1>4, BegunTypes DEF Completed, Outcome
<1> QED BY <1>6, <1>7, <1>8 DEF GoodStep, DagMoves

LEMMA StepResumesIsGood ==
  ASSUME Regular, EngineInv, TypeOK', Apart', NEW t \in Tasks, NEW s \in Steps, StepResumes(t, s)
  PROVE  GoodStep
<1> DEFINE now == IF exec[t][s] = "reviewed" THEN [step EXCEPT ![s] = "completed"] ELSE step
<1>1. exec[t][s] \in {"woken", "reviewed"} /\ ~task[t].cancelled /\ UNCHANGED restarts
  BY DEF StepResumes
<1>2. Typed /\ step[s] = "completed"
  BY <1>1, TypeOKIsTyped DEF EngineInv, Progress, ExecFits
<1>3. /\ now \in [Steps -> StepStatuses] /\ now[s] = "completed"
      /\ \A r \in Steps \ {s} : now[r] = step[r]
  BY <1>2 DEF Typed, StepStatuses
<1>4. StepEnds(t, s, now)
  BY DEF StepResumes
<1> HIDE DEF now
<1> QED BY <1>1, <1>3, <1>4, StepEndsIsGood

LEMMA ExecutorReturnsIsGood ==
  ASSUME Regular, EngineInv, TypeOK', Apart', NEW t \in Tasks, NEW s \in Steps,
         ExecutorReturns(t, s)
  PROVE  GoodStep
<1>1. /\ exec[t][s] = "executing" /\ ~task[t].cancelled /\ UNCHANGED restarts
      /\ Typed /\ step[s] = "running"
  BY TypeOKIsTyped DEF ExecutorReturns, EngineInv, Progress, ExecFits
<1>2. CASE StepEnds(t, s, [step EXCEPT ![s] = "completed"])
  <2> DEFINE now == [step EXCEPT ![s] = "completed"]
  <2>1. /\ now \in [Steps -> StepStatuses] /\ now[s] = "completed"
        /\ \A r \in Steps \ {s} : now[r] = step[r]
    BY <1>1 DEF Typed, StepStatuses
  <2>2. StepEnds(t, s, now)
    BY <1>2
  <2> HIDE DEF now
  <2> QED BY <1>1, <2>1, <2>2, StepEndsIsGood
<1>3. CASE /\ ~task[t].single
           /\ step' = [step EXCEPT ![s] = "waiting_input"]
           /\ waits' = [waits EXCEPT ![s] = t]
           /\ exec' = [exec EXCEPT ![t][s] = "reviewing"]
           /\ UNCHANGED <<status, running, skip, task>>
  <2>1. Runner(t)
    BY <1>1, <1>3, AtStep DEF EngineInv, Runner
  <2>2. task[t].st = "running" /\ status # "cancelled"
    BY <1>1, <2>1, AtGroup
  <2>3. /\ step'[s] = "waiting_input" /\ waits'[s] = t
        /\ \A r \in Steps \ {s} : step'[r] = step[r] /\ waits'[r] = waits[r]
    BY <1>1, <1>3 DEF Typed
  <2>4. "reviewing" \in ExecStates
    BY DEF ExecStates, Active
  <2>5. /\ exec'[t][s] = "reviewing"
        /\ \A r \in Steps \ {s} : exec'[t][r] = exec[t][r]
        /\ \A u \in Tasks \ {t} : exec'[u] = exec[u]
    BY <1>1, <1>3, <2>4, ExecAt
  <2>6. ExecFits(t, s)'
    BY <2>5 DEF ExecFits
  <2>7. Progress' /\ LookedAfter'
    BY <1>1, <1>3, <2>1, <2>2, <2>3, <2>5, <2>6, InFlightKeeps
  <2>8. StartsInOrder
    BY <2>5 DEF StartsInOrder, Starts
  <2>9. Completed' = Completed /\ Outcome' = Outcome
    BY <1>1, <1>3, <2>3 DEF Completed, Outcome
  <2> QED BY <2>7, <2>8, <2>9 DEF GoodStep, DagMoves
<1> QED BY <1>2, <1>3 DEF ExecutorReturns

LEMMA ExecutorRaisesIsGood ==
  ASSUME Regular, EngineInv, NEW t \in Tasks, NEW s \in Steps, ExecutorRaises(t, s)
  PROVE  GoodStep
<1>1. /\ exec[t][s] = "executing" /\ ~task[t].cancelled /\ UNCHANGED restarts
      /\ Typed /\ step[s] = "running" /\ \A r \in Steps : Level[r] \in Nat
      /\ {"none", "error"} \subseteq ExecStates
  BY TypeOKIsTyped, NIsNat DEF ExecutorRaises, EngineInv, Progress, ExecFits, ExecStates, Over
<1>2. Runner(t) \/ Single(t)
  BY <1>1, AtStep DEF EngineInv
<1>3. step'[s] = "failed" /\ \A r \in Steps \ {s} : step'[r] = step[r]
  BY <1>1 DEF ExecutorRaises, Typed
<1>4. CASE Single(t)
  <2>1. /\ task' = [task EXCEPT ![t] = NotATask]
        /\ exec' = [exec EXCEPT ![t][s] = "none"] /\ UNCHANGED <<status, waits>>
    BY <1>4 DEF ExecutorRaises, Single, Inline, memVars
  <2>2. AtOneStep(t) /\ status \in {"pending", "completed"}
    BY <1>4 DEF EngineInv, Apart, Regular
  <2>3. task'[t] = NotATask /\ \A u \in Tasks \ {t} : task'[u] = task[u]
    BY <1>1, <2>1, TaskFacts, NewTaskTypes
  <2>4. /\ exec'[t][s] = "none"
        /\ \A r \in Steps \ {s} : exec'[t][r] = exec[t][r]
        /\ \A u \in Tasks \ {t} : exec'[u] = exec[u]
    BY <1>1, <2>1, ExecAt
  <2>5. Gone(t)'
    BY <1>1, <2>2, <2>3, <2>4, TaskFacts DEF Gone, AtOneStep
  <2>6. status = "pending"
    BY <1>1, <2>2 DEF EngineInv, Progress
  <2> QED BY <1>1, <1>3, <1>4, <2>1, <2>3, <2>4, <2>5, <2>6, SingleOverIsGood
<1>5. CASE Runner(t)
  <2>1. /\ task[t].st = "running" /\ GroupReached(t) /\ Level[s] = task[t].group
        /\ task[t].group \in Nat /\ ~task[t].snap[s] /\ status # "cancelled"
        /\ ~task[t].single /\ InOrder(step)
    BY <1>1, <1>5, AtGroup, OrderKnown, NIsNat DEF Runner
  <2>2. CASE Inline(t) /\ status' = "failed" /\ Ended(t)
    <3>1. \A r \in Steps : Level[r] = task[t].group /\ ~task[t].snap[r] => r = s
      BY <1>1, <1>5, <2>2, AloneInGroup
    <3>2. \A r \in Steps : step'[r] # "waiting_input"
      BY <1>1, <1>3, <2>1, <3>1 DEF GroupReached
    <3>3. InOrder(step')
      BY <1>1, <1>3, <2>1, DepsAreSteps DEF InOrder
    <3>4. \A r \in Steps : step'[r] = "completed" <=> step[r] = "completed"
      BY <1>1, <1>3
    <3> QED BY <1>1, <1>5, <2>2, <3>2, <3>3, <3>4, FailingIsGood
  <2>3. CASE /\ ~Inline(t)
             /\ exec' = [exec EXCEPT ![t][s] = "error"]
             /\ UNCHANGED <<status, memVars, task>>
    <3>1. /\ exec'[t][s] = "error"
          /\ \A r \in Steps \ {s} : exec'[t][r] = exec[t][r]
          /\ \A u \in Tasks \ {t} : exec'[u] = exec[u]
      BY <1>1, <2>3, ExecAt
    <3>2. ExecFits(t, s)'
      BY <3>1 DEF ExecFits
    <3>3. Progress' /\ LookedAfter'
      BY <1>1, <1>3, <1>5, <2>1, <2>3, <3>1, <3>2, InFlightKeeps DEF memVars
    <3>4. StartsInOrder
      BY <3>1 DEF StartsInOrder, Starts
    <3>5. Completed' = Completed /\ Outcome' = Outcome
      BY <1>1, <1>3, <2>3 DEF Completed, Outcome
    <3> QED BY <3>3, <3>4, <3>5 DEF GoodStep, DagMoves
  <2> QED BY <2>1, <2>2, <2>3 DEF ExecutorRaises, Inline
<1> QED BY <1>2, <1>4, <1>5

\* Nobody waits for the user once everything in the group is over.
LEMMA NobodyWaits ==
  ASSUME EngineInv, NEW t \in Tasks, Runner(t), task[t].st = "running", ~task[t].cancelled,
         NEW s \in Steps, step[s] = "waiting_input", restarts = 0
  PROVE  exec[t][s] \in {"waiting", "reviewing"}
<1>1. status # "cancelled"
  BY DEF EngineInv, Apart
<1>2. waits[s] \in Tasks /\ exec[waits[s]][s] \in {"waiting", "reviewing"}
  BY <1>1 DEF EngineInv, LookedAfter
<1>3. waits[s] = t
  BY <1>2, AloneRuns DEF EngineInv, Gone
<1> QED BY <1>2, <1>3

LEMMA GroupJoinsIsGood ==
  ASSUME Regular, EngineInv, TypeOK', Apart', NEW t \in Tasks, GroupJoins(t)
  PROVE  GoodStep
<1>0. Typed /\ task[t] \in TaskStates /\ \A r \in Steps : Level[r] \in Nat
  BY TypeOKIsTyped, NIsNat DEF EngineInv, Typed
<1>1. /\ task[t].st = "running" /\ ~task[t].cancelled /\ UNCHANGED restarts /\ Runner(t)
      /\ \A s \in Pending(task[t], task[t].group) : exec[t][s] \in Over
  BY DEF GroupJoins, Inline, Runner
<1>2. GroupReached(t) /\ task[t].group \in 1..N /\ InOrder(step)
  BY <1>1, OrderKnown DEF EngineInv, Progress
<1>3. \A s \in Steps : exec[t][s] # "none" => exec[t][s] \in Over
  <2>1. \A s \in Steps : exec[t][s] # "none" => s \in Pending(task[t], task[t].group)
    BY <1>2 DEF GroupReached, Pending, Group
  <2> QED BY <1>1, <2>1
<1>4. CASE (\E s \in Steps : exec[t][s] = "error") /\ status' = "failed" /\ Ended(t) /\ UNCHANGED step
  <2>1. ASSUME restarts' = 0, NEW s \in Steps PROVE step'[s] # "waiting_input"
    <3>1. SUFFICES ASSUME step[s] = "waiting_input" PROVE FALSE
      BY <1>4
    <3>2. exec[t][s] \in {"waiting", "reviewing"}
      BY <1>1, <2>1, <3>1, NobodyWaits
    <3> QED BY <1>3, <3>2 DEF Over
  <2> QED BY <1>1, <1>2, <1>4, <2>1, FailingIsGood
<1>5. CASE (\A s \in Steps : exec[t][s] # "error") /\ Proceed(t, task[t], task[t].group + 1, step)
  <2>1. \A s \in Steps : exec[t][s] # "none" => step[s] = "completed"
    BY <1>1, <1>3, <1>5 DEF Over, EngineInv, Progress, ExecFits
  <2>2. task[t].group \in Nat /\ task[t].group + 1 \in Nat /\ task[t].group + 1 >= 1
    BY <1>2, NIsNat
  <2>3. Ready(task[t], task[t].group + 1, step)
    BY <1>0, <1>2, <2>1, <2>2 DEF Ready, GroupReached
  <2>4. OneMoreDone(step) /\ step \in [Steps -> StepStatuses] /\ ~task[t].single
    BY <1>0, <1>1 DEF OneMoreDone, Typed, Runner
  <2> QED BY <1>0, <1>1, <1>5, <2>2, <2>3, <2>4, ProceedIsGood
<1> QED BY <1>4, <1>5 DEF GroupJoins

\* CancelledError passes through a step.
LEMMA StepCancelledIsGood ==
  ASSUME Regular, EngineInv, NEW t \in Tasks, NEW s \in Steps, StepCancelled(t, s)
  PROVE  GoodStep
<1>1. /\ exec[t][s] # "none" /\ task[t].cancelled /\ Typed /\ "cancelled" \in ExecStates
      /\ UNCHANGED <<status, step, running, waits, skip, task, restarts>>
  BY TypeOKIsTyped DEF StepCancelled, diskVars, memVars, Active, EngineInv, ExecStates, Over
<1>2. Runner(t)
  BY <1>1, AtStep DEF EngineInv
<1>3. task[t].st = "running" /\ status = "cancelled"
  BY <1>1, <1>2, AtGroup DEF EngineInv, Apart
<1>4. /\ exec'[t][s] = "cancelled"
      /\ \A r \in Steps \ {s} : exec'[t][r] = exec[t][r]
      /\ \A u \in Tasks \ {t} : exec'[u] = exec[u]
  BY <1>1, ExecAt DEF StepCancelled
<1>5. ExecFits(t, s)'
  BY <1>1, <1>4 DEF ExecFits
<1>6. Progress' /\ LookedAfter'
  BY <1>1, <1>2, <1>3, <1>4, <1>5, InFlightKeeps
<1>7. StartsInOrder
  BY <1>4 DEF StartsInOrder, Starts
<1>8. Completed' = Completed /\ Outcome' = Outcome
  BY <1>1 DEF Completed, Outcome
<1> QED BY <1>6, <1>7, <1>8 DEF GoodStep, DagMoves

\* The task is gone, the run keeps its status.
LEMMA RunCancelledIsGood ==
  ASSUME Regular, EngineInv, NEW t \in Tasks, RunCancelled(t)
  PROVE  GoodStep
<1>1. task[t].cancelled /\ UNCHANGED <<status, step, restarts>> /\ Typed
  BY TypeOKIsTyped DEF RunCancelled, diskVars, EngineInv
<1>2. Runner(t) /\ status = "cancelled"
  BY <1>1 DEF EngineInv, Apart, Gone, Runner, Single
<1>3. InOrder(step')
  BY <1>1, <1>2, OrderKnown
<1>4. \A u \in Tasks : Gone(u)'
  <2>1. CASE Ended(t)
    BY <1>1, <1>2, <2>1, EndedApart DEF EngineInv
  <2>2. CASE /\ task' = [task EXCEPT ![t] = NotATask]
             /\ exec' = [exec EXCEPT ![t] = [s \in Steps |-> "none"]]
    <3>1. /\ task'[t] = NotATask /\ \A s \in Steps : exec'[t][s] = "none"
          /\ \A u \in Tasks \ {t} : task'[u] = task[u] /\ exec'[u] = exec[u]
      BY <1>1, <2>2, SingleOver
    <3> QED BY <1>2, <3>1, TaskFacts, AloneRuns DEF Gone, EngineInv
  <2> QED BY <2>1, <2>2 DEF RunCancelled
<1>5. Progress' /\ LookedAfter'
  BY <1>1, <1>2, <1>3, <1>4, EndedKeeps
<1>6. StartsInOrder
  BY <1>4 DEF StartsInOrder, Starts, Gone
<1>7. Completed' = Completed /\ Outcome' = Outcome
  BY <1>1 DEF Completed, Outcome
<1> QED BY <1>5, <1>6, <1>7 DEF GoodStep, DagMoves

-----------------------------------------------------------------------------
(* What depends on a step.                                                 *)

\* The steps in every set that holds the dependants of s and, with a step, its
\* dependants.
Below(s) ==
  {r \in Steps : \A S \in SUBSET Steps :
     /\ \A c \in Steps : s \in Deps[c] => c \in S
     /\ \A b \in S : \A c \in Steps : b \in Deps[c] => c \in S
     => r \in S}

LEMMA BelowEquation ==
  ASSUME NEW s \in Steps
  PROVE  LET direct == {r \in Steps : s \in Deps[r]} IN
         Below(s) = direct \cup UNION {Below(r) : r \in direct}
<1> DEFINE direct == {r \in Steps : s \in Deps[r]}
           X == direct \cup UNION {Below(r) : r \in direct}
<1>1. ASSUME NEW r \in X PROVE r \in Below(s)
  <2>1. r \in Steps
    BY DEF Below
  <2>2. SUFFICES ASSUME NEW S \in SUBSET Steps,
                        \A c \in Steps : s \in Deps[c] => c \in S,
                        \A e \in S : \A c \in Steps : e \in Deps[c] => c \in S
                 PROVE  r \in S
    BY <2>1 DEF Below
  <2>3. CASE r \in direct
    BY <2>2, <2>3
  <2>4. ASSUME NEW q \in direct, r \in Below(q) PROVE r \in S
    <3>1. q \in S
      BY <2>2
    <3> QED BY <2>2, <2>4, <3>1 DEF Below
  <2> QED BY <1>1, <2>3, <2>4
<1>2. ASSUME NEW e \in X, NEW c \in Steps, e \in Deps[c] PROVE c \in X
  <2>1. CASE e \in direct
    <3>1. c \in Below(e)
      BY <1>2 DEF Below
    <3> QED BY <2>1, <3>1
  <2>2. ASSUME NEW q \in direct, e \in Below(q) PROVE c \in X
    <3>1. c \in Below(q)
      BY <1>2, <2>2 DEF Below
    <3> QED BY <3>1
  <2> QED BY <1>2, <2>1, <2>2
<1>3. X \in SUBSET Steps
  BY DEF Below
<1>4. \A c \in Steps : s \in Deps[c] => c \in X
  OBVIOUS
<1> HIDE DEF X
<1>5. Below(s) \subseteq X
  BY <1>2, <1>3, <1>4 DEF Below
<1> QED BY <1>1, <1>5 DEF X

LEMMA DownstreamEquation ==
  \A s \in Steps :
    LET direct == {r \in Steps : s \in Deps[r]} IN
    Downstream[s] = direct \cup UNION {Downstream[r] : r \in direct}
<1> DEFINE direct(s) == {r \in Steps : s \in Deps[r]}
           b == [s \in Steps |-> Below(s)]
<1>1. b = [s \in Steps |-> direct(s) \cup UNION {b[r] : r \in direct(s)}]
  <2>1. ASSUME NEW s \in Steps
        PROVE  b[s] = direct(s) \cup UNION {b[r] : r \in direct(s)}
    <3>1. {b[r] : r \in direct(s)} = {Below(r) : r \in direct(s)}
      OBVIOUS
    <3>2. Below(s) = direct(s) \cup UNION {Below(r) : r \in direct(s)}
      BY BelowEquation
    <3> HIDE DEF direct
    <3> QED BY <3>1, <3>2
  <2> HIDE DEF direct
  <2> QED BY <2>1
<1>2. Downstream = [s \in Steps |-> direct(s) \cup UNION {Downstream[r] : r \in direct(s)}]
  <2> HIDE DEF b
  <2> QED BY <1>1 DEF Downstream, DownstreamSteps
<1> QED BY <1>2

\* Everything that is invalidated with s is in a later group, and with a step
\* goes all that depends on it.
LEMMA DownstreamFacts ==
  ASSUME NEW s \in Steps
  PROVE  /\ Downstream[s] \subseteq Steps
         /\ \A r \in Downstream[s] : Level[r] > Level[s]
         /\ \A q \in Steps : \A r \in Deps[q] :
              r \in Downstream[s] \cup {s} => q \in Downstream[s]
<1> DEFINE Fine(x) ==
             /\ Downstream[x] \subseteq Steps
             /\ \A r \in Downstream[x] : Level[r] > Level[x]
             /\ \A q \in Steps : \A r \in Deps[q] :
                  r \in Downstream[x] \cup {x} => q \in Downstream[x]
           direct(x) == {r \in Steps : x \in Deps[r]}
           B == {x \in Steps : ~Fine(x)}
           heights == {N - Level[x] : x \in B}
<1>0. N \in Nat /\ \A x \in Steps : Level[x] \in 1..N
  BY NIsNat
<1>1. \A x \in Steps : Downstream[x] = direct(x) \cup UNION {Downstream[r] : r \in direct(x)}
  BY DownstreamEquation
<1>2. SUFFICES ASSUME B # {} PROVE FALSE
  OBVIOUS
<1>3. PICK x \in B : \A y \in B : N - Level[x] <= N - Level[y]
  <2>1. heights \in SUBSET Nat /\ heights # {}
    <3> HIDE DEF Fine
    <3> QED BY <1>0, <1>2
  <2>2. Min(heights) \in heights /\ \A m \in heights : Min(heights) <= m
    <3> HIDE DEF heights
    <3> QED BY <2>1, MinOfNaturals
  <2> HIDE DEF Fine
  <2> QED BY <2>2
<1>4. \A r \in direct(x) : Level[r] > Level[x] /\ Fine(r)
  <2> TAKE r \in direct(x)
  <2>1. Level[r] > Level[x]
    BY <1>0, LevelFacts
  <2>2. ~(N - Level[x] <= N - Level[r])
    BY <1>0, <2>1
  <2> HIDE DEF Fine
  <2> QED BY <1>3, <2>1, <2>2
<1>5. Downstream[x] \subseteq Steps /\ \A r \in Downstream[x] : Level[r] > Level[x]
  <2>1. SUFFICES ASSUME NEW r \in Downstream[x] PROVE r \in Steps /\ Level[r] > Level[x]
    OBVIOUS
  <2>2. CASE r \in direct(x)
    BY <1>4, <2>2
  <2>3. ASSUME NEW q \in direct(x), r \in Downstream[q] PROVE r \in Steps /\ Level[r] > Level[x]
    <3>1. r \in Steps /\ Level[r] > Level[q] /\ Level[q] > Level[x]
      BY <1>4, <2>3
    <3> QED BY <1>0, <3>1
  <2> QED BY <1>1, <2>1, <2>2, <2>3
<1>6. ASSUME NEW q \in Steps, NEW r \in Deps[q], r \in Downstream[x] \cup {x}
      PROVE  q \in Downstream[x]
  <2>1. CASE r = x
    BY <1>1, <2>1
  <2>2. CASE r \in direct(x)
    <3>1. q \in Downstream[r]
      BY <1>4, <2>2
    <3> QED BY <1>1, <2>2, <3>1
  <2>3. ASSUME NEW p \in direct(x), r \in Downstream[p] PROVE q \in Downstream[x]
    <3>1. q \in Downstream[p]
      BY <1>4, <2>3
    <3> QED BY <1>1, <3>1
  <2> QED BY <1>1, <1>6, <2>1, <2>2, <2>3
<1> QED BY <1>3, <1>5, <1>6

-----------------------------------------------------------------------------
(* The replica's and the clients' actions.                                 *)

LEMMA RestartIsGood ==
  ASSUME EngineInv, Restart
  PROVE  GoodStep
<1>1. /\ UNCHANGED <<status, step>> /\ restarts' # 0
      /\ \A u \in Tasks : task'[u] = NotATask /\ \A s \in Steps : exec'[u][s] = "none"
  BY EngineConstants DEF EngineInv, TypeOK, Restart, diskVars
<1>2. \A u \in Tasks : ~Runner(u)'
  BY <1>1, TaskFacts DEF Runner
<1>3. Progress'
  BY <1>1, <1>2 DEF EngineInv, Progress, ExecFits, InOrder
<1>4. LookedAfter'
  BY <1>1 DEF LookedAfter
<1>5. StartsInOrder
  BY <1>1 DEF StartsInOrder, Starts
<1>6. Completed' = Completed /\ Outcome' = Outcome
  BY <1>1 DEF Completed, Outcome
<1> QED BY <1>3, <1>4, <1>5, <1>6 DEF GoodStep, DagMoves

\* A new coroutine is about to run the workflow from group i on.
LEMMA CreatedKeeps ==
  ASSUME Typed, \A u \in Tasks : Gone(u), NEW t \in Tasks, NEW i \in 1..N,
         task' = [task EXCEPT ![t] = NewTask(FALSE, i)], UNCHANGED exec,
         status' \in {"pending", "running"}, InOrder(step'),
         \A s \in Steps : /\ step'[s] \in {"pending", "completed"}
                          /\ Level[s] < i => step'[s] = "completed"
  PROVE  Progress' /\ LookedAfter' /\ StartsInOrder
<1>0. i \in Nat /\ N \in Nat /\ \A s \in Steps : Level[s] \in Nat
  BY NIsNat
<1>1. /\ NewTask(FALSE, i) \in TaskStates /\ NewTask(FALSE, i).st = "created"
      /\ ~NewTask(FALSE, i).single /\ NewTask(FALSE, i).group = i
  BY <1>0, TaskFacts
<1>2. task'[t] = NewTask(FALSE, i) /\ \A u \in Tasks \ {t} : task'[u] = task[u]
  BY <1>1, NewTaskTypes
<1>3. Runner(t)' /\ \A u \in Tasks \ {t} : ~Runner(u)'
  BY <1>1, <1>2 DEF Gone, Runner
<1>4. \A u \in Tasks, s \in Steps : exec'[u][s] = "none"
  BY DEF Gone
<1>5. task'[t].st = "created" /\ task'[t].group = i /\ GroupAhead(t)'
  <2>1. task'[t].st = "created" /\ task'[t].group = i
    BY <1>1, <1>2
  <2> QED BY <1>0, <1>4, <2>1 DEF GroupAhead
<1>6. Progress'
  <2>1. \A u \in Tasks, s \in Steps : ExecFits(u, s)'
    BY <1>4 DEF ExecFits
  <2> QED BY <1>3, <1>4, <1>5, <2>1 DEF Progress
<1>7. LookedAfter'
  BY <1>3 DEF LookedAfter
<1>8. StartsInOrder
  BY <1>4 DEF StartsInOrder, Starts
<1> QED BY <1>6, <1>7, <1>8

LEMMA StartRunIsGood ==
  ASSUME Regular, EngineInv, StartRun
  PROVE  GoodStep
<1>1. status = "none" /\ status' = "pending" /\ Typed /\ UNCHANGED <<step, waits, exec, restarts>>
  BY TypeOKIsTyped DEF StartRun, EngineInv
<1>2. \A u \in Tasks : Gone(u)
  BY <1>1 DEF EngineInv, Apart, Runner, Single, Regular
<1>3. \A s \in Steps : step[s] = "pending"
  BY <1>1 DEF EngineInv, Progress
<1>4. /\ N \in Nat /\ 1 \in 1..N /\ \A s \in Steps : Level[s] \in 1..N
      /\ InOrder(step')
  BY <1>1, <1>3, NIsNat, EngineConstants DEF InOrder
<1>5. Completed' = Completed /\ Outcome' = Outcome
  BY <1>1 DEF Completed, Outcome
<1>6. CASE UNCHANGED <<task, running>>
  <2>1. \A u \in Tasks : ~Runner(u)'
    BY <1>2, <1>6 DEF Gone, Runner
  <2>2. \A u \in Tasks, s \in Steps : exec'[u][s] = "none"
    BY <1>1, <1>2 DEF Gone
  <2>3. Progress'
    BY <1>1, <1>4, <2>1, <2>2 DEF Progress, ExecFits
  <2>4. LookedAfter'
    BY <1>1, <1>3 DEF LookedAfter
  <2>5. StartsInOrder
    BY <2>2 DEF StartsInOrder, Starts
  <2> QED BY <1>5, <2>3, <2>4, <2>5 DEF GoodStep, DagMoves
<1>7. ASSUME NEW t \in Tasks, task' = [task EXCEPT ![t] = NewTask(FALSE, 1)] PROVE GoodStep
  <2>1. \A s \in Steps : step'[s] = "pending" /\ ~(Level[s] < 1)
    BY <1>1, <1>3, <1>4
  <2>2. Progress' /\ LookedAfter' /\ StartsInOrder
    BY <1>1, <1>2, <1>4, <1>7, <2>1, CreatedKeeps
  <2> QED BY <1>5, <2>2 DEF GoodStep, DagMoves
<1> QED BY <1>6, <1>7 DEF StartRun, Slot

LEMMA CancelRunIsGood ==
  ASSUME Regular, EngineInv, CancelRun
  PROVE  GoodStep
<1>1. /\ status' = "cancelled" /\ Typed /\ running # NoTask /\ running \in Tasks
      /\ UNCHANGED <<step, running, waits, skip, exec, restarts>>
  BY TypeOKIsTyped DEF CancelRun, memVars, EngineInv, Live, Typed
<1>2. /\ Runner(running) /\ status \in {"pending", "running", "cancelled"} \ ExecuteIn
      /\ status = "pending" => ExecuteIn = {}
      /\ InOrder(step)
  BY <1>1, OrderKnown DEF EngineInv, Apart, Regular
<1>3. /\ task'[running].st = task[running].st /\ task'[running].single = task[running].single
      /\ task'[running].group = task[running].group /\ task'[running].snap = task[running].snap
      /\ task'[running].cancelled
      /\ \A u \in Tasks \ {running} : task'[u] = task[u]
  BY <1>1 DEF CancelRun, Typed, TaskStates
<1>4. \A u \in Tasks : /\ Runner(u)' <=> Runner(u)
                       /\ task'[u].st = task[u].st /\ task'[u].group = task[u].group
                       /\ task'[u].snap = task[u].snap
                       /\ task[u].cancelled => task'[u].cancelled
  BY <1>3 DEF Runner
<1>5. Progress'
  <2>1. \A u \in Tasks : /\ GroupAhead(u) => GroupAhead(u)'
                         /\ GroupReached(u) => GroupReached(u)'
    BY <1>1, <1>4 DEF GroupAhead, GroupReached
  <2>2. \A u \in Tasks, s \in Steps : ExecFits(u, s)'
    BY <1>1, <1>4 DEF EngineInv, Progress, ExecFits
  <2>3. InOrder(step')
    BY <1>1, <1>2
  <2> QED BY <1>1, <1>4, <2>1, <2>2, <2>3 DEF EngineInv, Progress
<1>6. LookedAfter'
  BY <1>1 DEF LookedAfter
<1>7. StartsInOrder
  BY <1>1 DEF StartsInOrder, Starts
<1>8. DagMoves
  <2>1. Completed' = Completed /\ Outcome' = "cancelled"
    BY <1>1 DEF Completed, Outcome
  <2>2. Outcome = "open" \/ Outcome = "cancelled"
    BY <1>2 DEF Outcome
  <2> QED BY <2>1, <2>2 DEF DagMoves
<1> QED BY <1>5, <1>6, <1>7, <1>8 DEF GoodStep

LEMMA ApproveStepIsGood ==
  ASSUME EngineInv, NEW s \in Steps, ApproveStep(s)
  PROVE  GoodStep
<1>1. /\ step[s] = "waiting_input" /\ Typed /\ status # "none"
      /\ UNCHANGED <<status, running, waits, skip, task, restarts>>
  BY TypeOKIsTyped DEF ApproveStep, memVars, EngineInv
<1>2. /\ step'[s] = "completed" /\ \A r \in Steps \ {s} : step'[r] = step[r]
      /\ \A u \in Tasks, r \in Steps : r # s => exec'[u][r] = exec[u][r]
      /\ \A u \in Tasks : \/ exec'[u][s] = exec[u][s]
                          \/ exec[u][s] = "waiting" /\ exec'[u][s] = "woken"
                          \/ exec[u][s] = "reviewing" /\ exec'[u][s] = "reviewed"
  BY <1>1, ApproveFacts
<1>3. \A u \in Tasks, r \in Steps : exec'[u][r] = "none" <=> exec[u][r] = "none"
  BY <1>2
<1>4. \A r \in Steps : /\ step'[r] = "completed" <=> r = s \/ step[r] = "completed"
                       /\ step'[r] = "pending" <=> step[r] = "pending"
  BY <1>1, <1>2
<1>5. Progress'
  <2>1. InOrder(step) => InOrder(step')
    BY <1>4, DepsAreSteps DEF InOrder
  <2>2. \A u \in Tasks : /\ Runner(u)' <=> Runner(u)
                         /\ GroupReached(u) => GroupReached(u)'
                         /\ GroupAhead(u) => GroupAhead(u)'
    <3> TAKE u \in Tasks
    <3>1. Runner(u)' <=> Runner(u)
      BY <1>1 DEF Runner
    <3>2. GroupReached(u) => GroupReached(u)'
      BY <1>1, <1>3, <1>4 DEF GroupReached
    <3>3. GroupAhead(u) => GroupAhead(u)'
      BY <1>1 DEF GroupAhead
    <3> QED BY <3>1, <3>2, <3>3
  <2>3. \A u \in Tasks, r \in Steps : ExecFits(u, r)'
    <3>1. \A u \in Tasks : ExecFits(u, s)'
      BY <1>1, <1>2 DEF EngineInv, Progress, ExecFits
    <3>2. \A u \in Tasks, r \in Steps \ {s} : ExecFits(u, r)'
      BY <1>1, <1>2 DEF EngineInv, Progress, ExecFits
    <3> QED BY <3>1, <3>2
  <2>4. \A u, v \in Tasks, r \in Steps : exec'[u][r] # "none" /\ exec'[v][r] # "none" => u = v
    BY <1>3 DEF EngineInv, Progress
  <2> QED BY <1>1, <1>4, <2>1, <2>2, <2>3, <2>4 DEF EngineInv, Progress
<1>6. LookedAfter'
  <2>1. \A u \in Tasks : Runner(u)' <=> Runner(u)
    BY <1>1 DEF Runner
  <2>2. \A r \in Steps : step'[r] = "waiting_input" => r # s /\ step[r] = "waiting_input"
    BY <1>2
  <2> QED BY <1>1, <1>2, <2>1, <2>2 DEF EngineInv, LookedAfter
<1>7. StartsInOrder
  BY <1>2 DEF StartsInOrder, Starts
<1>8. ASSUME OneRun PROVE DagMoves
  <2>1. s \in Steps \ Completed /\ Completed' = Completed \cup {s} /\ Outcome' = Outcome
    BY <1>1, <1>2 DEF Completed, Outcome
  <2>2. InOrder(step)
    BY <1>8 DEF EngineInv, Progress, OneRun
  <2>3. Deps[s] \subseteq Completed
    <3>1. \A d \in Deps[s] : d \in Steps /\ step[d] = "completed"
      BY <1>1, <2>2, DepsAreSteps DEF InOrder
    <3> QED BY <3>1 DEF Completed
  <2> QED BY <2>1, <2>3 DEF DagMoves
<1> QED BY <1>5, <1>6, <1>7, <1>8 DEF GoodStep

\* A completed run is reopened: a step and all that depends on it are to be done
\* again, and their dependencies that are not are in earlier groups.
LEMMA RerunFromIsGood ==
  ASSUME Regular, EngineInv, NEW s \in Steps, RerunFrom(s)
  PROVE  GoodStep
<1> DEFINE invalid == Downstream[s] \cup {s}
<1>1. /\ status \in RerunIn /\ status = "completed" /\ status' = "running" /\ Typed
      /\ Impatient \/ \A t \in Tasks : ~task[t].single
      /\ UNCHANGED <<waits, skip, exec, restarts>>
  BY TypeOKIsTyped DEF RerunFrom, Regular, EngineInv
<1>2. \A u \in Tasks : Gone(u)
  BY <1>1, NobodyIsThere DEF EngineInv, Apart, Regular
<1>3. \A r \in Steps : step[r] = "completed"
  BY <1>1 DEF EngineInv, Progress
<1>4. \A r \in Steps : step'[r] = IF r \in invalid THEN "pending" ELSE "completed"
  BY <1>3 DEF RerunFrom
<1>5. InOrder(step')
  <2>1. SUFFICES ASSUME NEW r \in Steps, step'[r] # "pending", NEW d \in Deps[r]
                 PROVE  step'[d] = "completed"
    BY DEF InOrder
  <2>2. d \notin invalid
    BY <1>4, <2>1, DownstreamFacts
  <2> QED BY <1>4, <2>2, DepsAreSteps
<1>6. \A r \in Steps : Level[r] < Level[s] => r \notin invalid
  BY DownstreamFacts, NIsNat
<1>7. PICK t \in Tasks : task' = [task EXCEPT ![t] = NewTask(FALSE, Level[s])]
  BY DEF RerunFrom, Slot
<1>8. Progress' /\ LookedAfter' /\ StartsInOrder
  <2>1. Level[s] \in 1..N
    BY NIsNat
  <2>2. \A r \in Steps : /\ step'[r] \in {"pending", "completed"}
                         /\ Level[r] < Level[s] => step'[r] = "completed"
    BY <1>4, <1>6
  <2> QED BY <1>1, <1>2, <1>5, <1>7, <2>1, <2>2, CreatedKeeps
<1>9. ~OneRun
  BY <1>1 DEF OneRun
<1> QED BY <1>8, <1>9 DEF GoodStep

\* A step nobody executes is executed by itself.
LEMMA ExecuteSingleStepIsGood ==
  ASSUME Regular, EngineInv, NEW s \in Steps, ExecuteSingleStep(s)
  PROVE  GoodStep
<1>1. /\ status = "pending" /\ ExecuteIn # {} /\ Typed /\ Deps[s] \subseteq Completed
      /\ (\A u \in Tasks : exec[u][s] = "none")
      /\ UNCHANGED <<status, running, skip, restarts>>
  BY TypeOKIsTyped DEF ExecuteSingleStep, Regular, Orderly, EngineInv
<1>2. \A u \in Tasks : ~Runner(u)
  BY <1>1 DEF ExecuteSingleStep, EngineInv, Apart
<1>3. PICK t \in Slot : /\ task' = [task EXCEPT ![t] = [NewTask(TRUE, 0) EXCEPT !.st = "running"]]
                        /\ exec' = [exec EXCEPT ![t][s] = At(s)]
                        /\ waits' = Registered(waits, t, s)
  BY DEF ExecuteSingleStep
<1>4. t \in Tasks /\ Gone(t)
  BY DEF Slot, EngineInv, Apart
<1>5. step' = [step EXCEPT ![s] = Begun(s)]
  BY DEF ExecuteSingleStep
<1>6. /\ step'[s] = Begun(s) /\ exec'[t][s] = At(s)
      /\ At(s) = "waiting" => waits'[s] = t
      /\ \A r \in Steps \ {s} : /\ step'[r] = step[r] /\ waits'[r] = waits[r]
                                /\ exec'[t][r] = exec[t][r]
      /\ \A u \in Tasks \ {t} : exec'[u] = exec[u]
  <2>1. StepStarted(t, s)
    BY <1>3, <1>5 DEF StepStarted
  <2> QED BY <1>1, <1>4, <2>1, StepBegins
<1>7. task'[t].single /\ \A u \in Tasks \ {t} : task'[u] = task[u]
  <2>1. [NewTask(TRUE, 0) EXCEPT !.st = "running"] \in TaskStates
        /\ [NewTask(TRUE, 0) EXCEPT !.st = "running"].single
    BY TaskFacts
  <2> QED BY <1>1, <1>3, <1>4, <2>1, NewTaskTypes
<1>8. \A u \in Tasks : ~Runner(u)'
  BY <1>2, <1>7 DEF Runner
<1>9. Progress'
  <2>1. \A u \in Tasks, r \in Steps : exec'[u][r] # "none" =>
          (u = t /\ r = s) \/ (r # s /\ exec'[u][r] = exec[u][r])
    BY <1>1, <1>6
  <2>2. \A u \in Tasks, r \in Steps : ExecFits(u, r)'
    <3> TAKE u \in Tasks, r \in Steps
    <3>1. CASE exec'[u][r] = "none"
      BY <3>1 DEF ExecFits
    <3>2. CASE u = t /\ r = s
      BY <1>6, <3>2, BegunTypes DEF ExecFits
    <3>3. CASE r # s /\ exec'[u][r] = exec[u][r] /\ exec[u][r] # "none"
      <4>1. u # t
        BY <1>4, <3>3 DEF Gone
      <4> QED BY <1>6, <1>7, <3>3, <4>1 DEF EngineInv, Progress, ExecFits
    <3> QED BY <2>1, <3>1, <3>2, <3>3
  <2>3. \A u, v \in Tasks, r \in Steps : exec'[u][r] # "none" /\ exec'[v][r] # "none" => u = v
    BY <2>1 DEF EngineInv, Progress
  <2> QED BY <1>1, <1>8, <2>2, <2>3 DEF Progress
<1>10. LookedAfter'
  <2>1. SUFFICES ASSUME restarts = 0, NEW r \in Steps, step'[r] = "waiting_input"
                 PROVE  waits'[r] \in Tasks /\ exec'[waits'[r]][r] \in {"waiting", "reviewing"}
    BY <1>1 DEF LookedAfter
  <2>2. CASE r = s
    BY <1>4, <1>6, <2>1, <2>2, BegunTypes
  <2>3. CASE r # s
    <3>1. waits[r] \in Tasks /\ exec[waits[r]][r] \in {"waiting", "reviewing"}
      BY <1>1, <1>6, <2>1, <2>3 DEF EngineInv, LookedAfter
    <3>2. exec'[waits[r]][r] = exec[waits[r]][r]
      BY <1>6, <2>3, <3>1
    <3> QED BY <1>6, <2>3, <3>1, <3>2
  <2> QED BY <2>2, <2>3
<1>11. StartsInOrder
  <2>1. \A u \in Tasks, r \in Steps : Starts(u, r) => u = t /\ r = s
    BY <1>6 DEF Starts
  <2>2. \A d \in Deps[s] : step'[d] = "completed"
    <3> TAKE d \in Deps[s]
    <3>1. d \in Steps /\ step[d] = "completed" /\ Level[d] < Level[s]
      BY <1>1, DepsAreSteps, LevelFacts DEF Completed
    <3>2. d # s
      BY <3>1, NIsNat
    <3> QED BY <1>6, <3>1, <3>2
  <2> QED BY <1>7, <2>1, <2>2 DEF StartsInOrder
<1>12. ~OneRun
  BY <1>1 DEF OneRun
<1> QED BY <1>9, <1>10, <1>11, <1>12 DEF GoodStep

-----------------------------------------------------------------------------
(* The theorems.                                                           *)

LEMMA InitGood == Init => EngineInv /\ Run!Init
<1> SUFFICES ASSUME Init PROVE EngineInv /\ Run!Init
  OBVIOUS
<1>1. /\ \A t \in Tasks : task[t] = NotATask /\ \A s \in Steps : exec[t][s] = "none"
      /\ \A s \in Steps : step[s] = "pending"
      /\ status = "none"
  BY DEF Init
<1>2. TypeOK /\ Apart
  BY TypeInit, ApartInit
<1>3. Progress /\ LookedAfter
  BY <1>1, TaskFacts DEF Progress, InOrder, ExecFits, LookedAfter, Runner
<1>4. Completed = {}
  BY <1>1 DEF Completed
<1> QED BY <1>1, <1>2, <1>3, <1>4 DEF EngineInv, Run!Init

LEMMA StutterIsGood ==
  ASSUME EngineInv, UNCHANGED vars
  PROVE  GoodStep
<1>1. UNCHANGED <<status, step, running, waits, skip, task, exec, restarts>>
  BY DEF vars, diskVars, memVars
<1>2. Progress' /\ LookedAfter'
  BY <1>1 DEF EngineInv, Progress, InOrder, GroupAhead, GroupReached, ExecFits, LookedAfter, Runner
<1>3. StartsInOrder
  BY <1>1 DEF StartsInOrder, Starts
<1>4. Completed' = Completed /\ Outcome' = Outcome
  BY <1>1 DEF Completed, Outcome
<1> QED BY <1>2, <1>3, <1>4 DEF GoodStep, DagMoves

LEMMA NextIsGood ==
  ASSUME Regular, EngineInv, [Next]_vars
  PROVE  GoodStep /\ EngineInv'
<1>0. TypeOK' /\ Apart'
  BY TypeNext, ApartNext DEF EngineInv, ApartStep, Regular
<1>1. ASSUME ClientStep PROVE GoodStep
  BY <1>1, StartRunIsGood, CancelRunIsGood, ApproveStepIsGood, RerunFromIsGood,
     ExecuteSingleStepIsGood DEF ClientStep
<1>2. ASSUME NEW t \in Tasks, EngineStep(t) PROVE GoodStep
  BY <1>0, <1>2, RunWorkflowIsGood, GroupJoinsIsGood, RunCancelledIsGood, ChildStartsIsGood,
     StepResumesIsGood, StepCancelledIsGood DEF EngineStep
<1>3. ASSUME NEW t \in Tasks, NEW s \in Steps, ExecutorStep(t, s) PROVE GoodStep
  BY <1>0, <1>3, ExecutorReturnsIsGood, ExecutorRaisesIsGood DEF ExecutorStep
<1>4. GoodStep
  BY <1>1, <1>2, <1>3, RestartIsGood, StutterIsGood DEF Next
<1> QED BY <1>0, <1>4 DEF EngineInv, GoodStep

LEMMA EngineInvHolds ==
  ASSUME Regular
  PROVE  Spec => []EngineInv
<1>1. Init => EngineInv
  BY InitGood
<1>2. EngineInv /\ [Next]_vars => EngineInv'
  BY NextIsGood
<1> QED BY <1>1, <1>2, PTL DEF Spec

\* When state.json says completed or failed, no step of the run is still being
\* executed (the gather of _run_workflow waits for all the steps of a group),
\* over any number of reruns.
THEOREM EndedIsQuietHolds ==
  ASSUME Orderly, ExecuteIn = {}
  PROVE  Spec => []EndedIsQuiet
<1>1. Apart => EndedIsQuiet
  <2>1. SUFFICES ASSUME Apart, status \in {"completed", "failed"}, NEW t \in Tasks
                 PROVE  Gone(t)
    BY DEF EndedIsQuiet, Gone, Active
  <2> QED BY <2>1 DEF Apart, Runner, Single
<1> QED BY <1>1, ApartHolds, PTL

\* As long as the replica that started it lives, a run whose status is running
\* is being executed, also when it has been rerun.
THEOREM RunningIsExecutedHolds ==
  ASSUME Regular
  PROVE  Spec => []RunningIsExecuted
<1>1. EngineInv => RunningIsExecuted
  BY EngineConstants DEF EngineInv, LookedAfter, RunningIsExecuted, Live, Runner
<1> QED BY <1>1, EngineInvHolds, PTL

\* The approval of a step that waits for the user reaches the coroutine that
\* waits, in runs, reruns and single steps (_wait_events, when the replica is
\* never restarted).
THEOREM WaitingIsAwaitedHolds ==
  ASSUME Regular, MaxRestarts = 0
  PROVE  Spec => []WaitingIsAwaited
<1>1. EngineInv => WaitingIsAwaited
  BY EngineConstants DEF EngineInv, TypeOK, LookedAfter, WaitingIsAwaited
<1> QED BY <1>1, EngineInvHolds, PTL

\* A step is begun when all the steps it depends on are completed, whatever the
\* graph and whoever begins it (_execution_plan and the loop of _run_workflow
\* over its groups, _downstream_steps, the check of execute_single_step).
THEOREM DependenciesFirstHolds ==
  ASSUME Regular
  PROVE  Spec => DependenciesFirst
<1>1. EngineInv /\ [Next]_vars =>
        [\A t \in Tasks, s \in Steps :
           exec[t][s] \in {"none", "created"} /\ exec'[t][s] \in {"executing", "waiting"}
             => Deps[s] \subseteq Completed']_vars
  BY NextIsGood, DepsAreSteps DEF GoodStep, StartsInOrder, Starts, Completed
<1> QED BY <1>1, EngineInvHolds, PTL DEF Spec, DependenciesFirst

\* Neither a run nor a rerun executes a step that is completed already.
THEOREM NothingRedoneHolds ==
  ASSUME Regular
  PROVE  Spec => NothingRedone
<1>1. EngineInv /\ [Next]_vars =>
        [\A t \in Tasks, s \in Steps :
           /\ exec[t][s] \in {"none", "created"} /\ exec'[t][s] \in {"executing", "waiting"}
           /\ ~task'[t].single
           => step[s] # "completed"]_vars
  BY NextIsGood DEF GoodStep, StartsInOrder, Starts
<1> QED BY <1>1, EngineInvHolds, PTL DEF Spec, NothingRedone

\* A run nobody re-executes implements DagRun: its steps are completed once and
\* in dependency order, and it ends once, as completed only with every step
\* done, over approvals, cancels, executor errors and restarts.
THEOREM RunImplementsDagRun ==
  ASSUME OneRun
  PROVE  Spec => DagRunSpec
<1>0. Regular
  BY DEF OneRun, Regular, Orderly
<1>1. Init => Run!Init
  BY InitGood
<1>2. ASSUME EngineInv, [Next]_vars PROVE [Run!Next]_(Run!vars)
  <2>1. DagMoves
    BY <1>0, <1>2, NextIsGood DEF GoodStep
  <2>2. CASE Completed' = Completed /\ Outcome' = Outcome
    BY <2>2 DEF Run!vars, Outcome
  <2>3. CASE \E s \in Steps \ Completed :
               /\ Deps[s] \subseteq Completed /\ Completed' = Completed \cup {s}
               /\ \/ Outcome' = Outcome
                  \/ Outcome = "open" /\ Completed' = Steps /\ Outcome' = "completed"
    <3>1. PICK s \in Steps \ Completed :
               /\ Deps[s] \subseteq Completed /\ Completed' = Completed \cup {s}
               /\ \/ Outcome' = Outcome
                  \/ Outcome = "open" /\ Completed' = Steps /\ Outcome' = "completed"
      BY <2>3
    <3>2. Run!Complete(s)
      BY <3>1 DEF Run!Complete, Outcome
    <3> QED BY <3>2 DEF Run!Next
  <2>4. CASE /\ Outcome = "open" /\ Completed' = Completed
             /\ Outcome' \in {"failed", "cancelled"} \/ (Completed = Steps /\ Outcome' = "completed")
    BY <2>4 DEF Run!Next, Run!End, Outcome
  <2> QED BY <2>1, <2>2, <2>3, <2>4 DEF DagMoves
<1>3. EngineInv /\ [Next]_vars => [Run!Next]_(Run!vars)
  BY <1>2
<1>4. Spec => []EngineInv
  BY <1>0, EngineInvHolds
<1> QED BY <1>1, <1>3, <1>4, PTL DEF Spec, DagRunSpec, Run!Spec
=============================================================================
