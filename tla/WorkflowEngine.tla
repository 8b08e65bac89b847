--------------------------- MODULE WorkflowEngine ---------------------------
(***************************************************************************)
(* One run of a declarative workflow: services/workflows/engine.py (the    *)
(* WorkflowEngine deployment) over services/workflows/state.py (RunStore). *)
(*                                                                         *)
(* The engine is one asyncio process.  Loading and saving the run's        *)
(* state.json, and taking a RunStore lock nobody else can be holding at    *)
(* that point, never suspend the coroutine: an action below is everything  *)
(* a coroutine does between two real suspensions (an executor, an          *)
(* approval, a gather, a new task).                                        *)
(***************************************************************************)
EXTENDS StepGraph

CONSTANTS
  Steps,       \* the steps of the spec
  Deps,        \* depends_on of each step
  Interactive, \* steps that wait for the user instead of executing
  Tasks,       \* slots for coroutines that execute steps of this run
  NoTask,
  SkipReview,  \* start_run(skip_review=True)
  Commands,    \* what clients do: start, manual, cancel, approve
  RerunIn,     \* statuses a run has when clients call rerun_from
  ExecuteIn,   \* statuses a run has when clients call execute_single_step
  Impatient,   \* clients rerun, or execute the same step, also while an
               \* execute_single_step is unanswered
  MaxRestarts  \* bound on restarts of the engine replica

RunStatuses == {"none", "pending", "running", "completed", "failed", "cancelled"}

ASSUME EngineConstants ==
  /\ IsFiniteSet(Steps) /\ Steps # {}
  /\ Deps \in [Steps -> SUBSET Steps]
  /\ Acyclic(Steps, Deps)  \* load_spec validates it
  /\ Interactive \subseteq Steps
  /\ NoTask \notin Tasks
  /\ SkipReview \in BOOLEAN /\ Impatient \in BOOLEAN
  /\ RerunIn \cup ExecuteIn \subseteq RunStatuses \ {"none"}
  /\ Commands \subseteq {"start", "manual", "cancel", "approve"}
  /\ MaxRestarts \in Nat

VARIABLES
  status,    \* state.json: status of the run, "none" before start_run
  step,      \* state.json: status of each step
  running,   \* _running[run_id]
  waits,     \* _wait_events: the task whose event is registered for a step
  skip,      \* run_id is in _skip_review_runs
  task,      \* each coroutine: see TaskStates
  exec,      \* each coroutine's progress with each step
  restarts   \* restarts of the replica so far

diskVars == <<status, step>>
memVars == <<running, waits, skip>>
vars == <<diskVars, memVars, task, exec, restarts>>

\* group: index of the group being executed; snap: step_states as loaded when
\* the coroutine started; single: it is an execute_single_step.
TaskStates ==
  [st : {"none", "created", "running"}, single : BOOLEAN, cancelled : BOOLEAN,
   group : Nat, snap : [Steps -> BOOLEAN]]

NotATask == [st |-> "none", single |-> FALSE, cancelled |-> FALSE, group |-> 0,
             snap |-> [s \in Steps |-> FALSE]]

Active == {"created", "executing", "waiting", "reviewing", "woken", "reviewed"}
Over == {"ok", "error", "cancelled"}

TypeOK ==
  /\ status \in RunStatuses
  /\ step \in [Steps -> {"pending", "running", "waiting_input", "completed", "failed"}]
  /\ running \in Tasks \cup {NoTask}
  /\ waits \in [Steps -> Tasks \cup {NoTask}]
  /\ skip \in BOOLEAN
  /\ task \in [Tasks -> TaskStates]
  /\ exec \in [Tasks -> [Steps -> {"none"} \cup Active \cup Over]]
  /\ restarts \in 0..MaxRestarts

-----------------------------------------------------------------------------
(* The plan.                                                               *)

\* Index of the group a step is in (ExecutionPlan).
Level == Levels(Steps, Deps)

Group(i) == {s \in Steps : Level[s] = i}

Downstream == DownstreamSteps(Steps, Deps)

Slot == {t \in Tasks : task[t].st = "none"}

Completed == {s \in Steps : step[s] = "completed"}

Live(t) == t # NoTask /\ task[t].st # "none"

-----------------------------------------------------------------------------
(* Where a coroutine goes next.                                            *)

\* The "finally" of _run_workflow; other coroutines' entries go as well.
Ended(t) ==
  /\ task' = [task EXCEPT ![t] = NotATask]
  /\ exec' = [exec EXCEPT ![t] = [s \in Steps |-> "none"]]
  /\ running' = NoTask
  /\ waits' = [s \in Steps |-> NoTask]
  /\ skip' = FALSE

\* Mutant: the name of the coroutine's state instead of the step's status.
BegunMisnamed(s) == IF s \in Interactive THEN "waiting" ELSE "running"

\* _execute_step up to its first suspension, as a change of state.json ...
Begun(s) == IF s \in Interactive THEN "waiting_input" ELSE "running"

\* Mutant: the event the step waits for is not registered.
NotRegistered(w, t, s) == w

\* ... of the coroutine and of the registered events.
At(s) == IF s \in Interactive THEN "waiting" ELSE "executing"
Registered(w, t, s) == IF s \in Interactive THEN [w EXCEPT ![s] = t] ELSE w

\* Mutant: completed steps of a group are executed again.
PendingAll(k, i) == Group(i)

\* The steps of group i that were not completed when the coroutine started.
Pending(k, i) == {s \in Group(i) : ~k.snap[s]}

\* Runner t, with local state k, executes the groups from index i on; now is
\* step as the code before in the same segment left it.
Proceed(t, k, i, now) ==
  LET later == {j \in i..Cardinality(Steps) : Pending(k, j) # {}}
      g == Min(later)
  IN
  \/ /\ later = {}
     /\ step' = now
     /\ status' = IF \A s \in Steps : now[s] = "completed" THEN "completed"
                  ELSE IF task[t].st = "created" THEN "running" ELSE status
     /\ Ended(t)
  \/ /\ later # {}
     /\ status' = IF task[t].st = "created" THEN "running" ELSE status
     /\ task' = [task EXCEPT ![t] = [k EXCEPT !.st = "running", !.group = g]]
     /\ IF Cardinality(Pending(k, g)) = 1
        THEN LET s == CHOOSE s \in Pending(k, g) : TRUE IN
             /\ step' = [now EXCEPT ![s] = Begun(s)]
             /\ waits' = Registered(waits, t, s)
             /\ exec' = [exec EXCEPT ![t] = [r \in Steps |->
                           IF r = s THEN At(s) ELSE "none"]]
        ELSE /\ step' = now
             /\ exec' = [exec EXCEPT ![t] = [r \in Steps |->
                           IF r \in Pending(k, g) THEN "created" ELSE "none"]]
             /\ UNCHANGED waits
     /\ UNCHANGED <<running, skip>>

\* Mutant: execute_single_step does not look whether the run is complete.
SingleEndsSilently(t, now) ==
  /\ step' = now
  /\ task' = [task EXCEPT ![t] = NotATask]
  /\ exec' = [exec EXCEPT ![t] = [s \in Steps |-> "none"]]
  /\ UNCHANGED <<status, memVars>>

\* execute_single_step after its step: the run is complete if all steps are.
SingleEnds(t, now) ==
  /\ step' = now
  /\ status' = IF \A s \in Steps : now[s] = "completed" THEN "completed" ELSE status
  /\ task' = [task EXCEPT ![t] = NotATask]
  /\ exec' = [exec EXCEPT ![t] = [s \in Steps |-> "none"]]
  /\ UNCHANGED memVars

Inline(t) == task[t].single \/ Cardinality(Pending(task[t], task[t].group)) = 1

\* _execute_step returns in coroutine t, leaving the steps as in now.
StepEnds(t, s, now) ==
  \/ task[t].single /\ SingleEnds(t, now)
  \/ ~task[t].single /\ Inline(t) /\ Proceed(t, task[t], task[t].group + 1, now)
  \/ /\ ~Inline(t)
     /\ step' = now
     /\ exec' = [exec EXCEPT ![t][s] = "ok"]
     /\ UNCHANGED <<status, memVars, task>>

-----------------------------------------------------------------------------
(* What clients do.                                                        *)

NewTask(single, i) == [NotATask EXCEPT !.st = "created", !.single = single, !.group = i]

StartRun ==
  /\ status = "none"
  /\ status' = "pending"
  /\ skip' = SkipReview
  /\ \/ /\ "start" \in Commands
        /\ \E t \in Slot : /\ task' = [task EXCEPT ![t] = NewTask(FALSE, 1)]
                           /\ running' = t
     \/ "manual" \in Commands /\ UNCHANGED <<task, running>>
  /\ UNCHANGED <<step, waits, exec, restarts>>

\* Mutant: the coroutine is not cancelled.
CancelStatusOnly ==
  /\ "cancel" \in Commands /\ status # "none"
  /\ Live(running)
  /\ status' = "cancelled"
  /\ UNCHANGED <<step, memVars, task, exec, restarts>>

CancelRun ==
  /\ "cancel" \in Commands /\ status # "none"
  /\ Live(running)
  /\ task' = [task EXCEPT ![running].cancelled = TRUE]
  /\ status' = "cancelled"
  /\ UNCHANGED <<step, memVars, exec, restarts>>

\* approve_step, and "continue": the event is set if one is registered.
ApproveStep(s) ==
  LET t == waits[s] IN
  /\ "approve" \in Commands /\ status # "none"
  /\ step[s] = "waiting_input"
  /\ step' = [step EXCEPT ![s] = "completed"]
  /\ exec' = IF t = NoTask THEN exec
             ELSE [exec EXCEPT ![t][s] = IF @ = "waiting" THEN "woken"
                                         ELSE IF @ = "reviewing" THEN "reviewed" ELSE @]
  /\ UNCHANGED <<status, memVars, task, restarts>>

\* Mutant: the groups after the step's own are executed.
RerunAfter(s) ==
  LET invalid == Downstream[s] \cup {s} IN
  /\ status \in RerunIn
  /\ Impatient \/ \A t \in Tasks : ~task[t].single
  /\ step' = [r \in Steps |-> IF r \in invalid THEN "pending" ELSE step[r]]
  /\ status' = "running"
  /\ \E t \in Slot : /\ task' = [task EXCEPT ![t] = NewTask(FALSE, Level[s] + 1)]
                     /\ running' = t
  /\ UNCHANGED <<waits, skip, exec, restarts>>

\* Mutant: the run is not reopened, so it can be rerun again at once.
RerunKeepsStatus(s) ==
  LET invalid == Downstream[s] \cup {s} IN
  /\ status \in RerunIn
  /\ Impatient \/ \A t \in Tasks : ~task[t].single
  /\ step' = [r \in Steps |-> IF r \in invalid THEN "pending" ELSE step[r]]
  /\ \E t \in Slot : /\ task' = [task EXCEPT ![t] = NewTask(FALSE, Level[s])]
                     /\ running' = t
  /\ UNCHANGED <<status, waits, skip, exec, restarts>>

RerunFrom(s) ==
  LET invalid == Downstream[s] \cup {s} IN
  /\ status \in RerunIn
  /\ Impatient \/ \A t \in Tasks : ~task[t].single
  /\ step' = [r \in Steps |-> IF r \in invalid THEN "pending" ELSE step[r]]
  /\ status' = "running"
  /\ \E t \in Slot : /\ task' = [task EXCEPT ![t] = NewTask(FALSE, Level[s])]
                     /\ running' = t
  /\ UNCHANGED <<waits, skip, exec, restarts>>

\* Mutant: a step is executed before the steps it depends on.
ExecuteUnready(s) ==
  /\ status \in ExecuteIn
  /\ Impatient \/ \A t \in Tasks : exec[t][s] = "none"
  /\ step' = [step EXCEPT ![s] = Begun(s)]
  /\ \E t \in Slot :
       /\ task' = [task EXCEPT ![t] = [NewTask(TRUE, 0) EXCEPT !.st = "running"]]
       /\ exec' = [exec EXCEPT ![t][s] = At(s)]
       /\ waits' = Registered(waits, t, s)
  /\ UNCHANGED <<status, running, skip, restarts>>

ExecuteSingleStep(s) ==
  /\ status \in ExecuteIn
  /\ Impatient \/ \A t \in Tasks : exec[t][s] = "none"
  /\ Deps[s] \subseteq Completed
  /\ step' = [step EXCEPT ![s] = Begun(s)]
  /\ \E t \in Slot :
       /\ task' = [task EXCEPT ![t] = [NewTask(TRUE, 0) EXCEPT !.st = "running"]]
       /\ exec' = [exec EXCEPT ![t][s] = At(s)]
       /\ waits' = Registered(waits, t, s)
  /\ UNCHANGED <<status, running, skip, restarts>>

-----------------------------------------------------------------------------
(* The coroutines.                                                         *)

RunWorkflow(t) ==
  /\ task[t].st = "created" /\ ~task[t].cancelled
  /\ LET k == [task[t] EXCEPT !.snap = [s \in Steps |-> step[s] = "completed"]]
     IN  Proceed(t, k, k.group, step)
  /\ UNCHANGED restarts

\* A child of the gather gets its first turn.
ChildStarts(t, s) ==
  /\ exec[t][s] = "created" /\ ~task[t].cancelled
  /\ step' = [step EXCEPT ![s] = Begun(s)]
  /\ waits' = Registered(waits, t, s)
  /\ exec' = [exec EXCEPT ![t][s] = At(s)]
  /\ UNCHANGED <<status, running, skip, task, restarts>>

\* The executor returns; unless told otherwise the engine pauses for a review.
ExecutorReturns(t, s) ==
  /\ exec[t][s] = "executing" /\ ~task[t].cancelled
  /\ \/ /\ task[t].single \/ skip
        /\ StepEnds(t, s, [step EXCEPT ![s] = "completed"])
     \/ /\ ~task[t].single /\ ~skip
        /\ step' = [step EXCEPT ![s] = "waiting_input"]
        /\ waits' = [waits EXCEPT ![s] = t]
        /\ exec' = [exec EXCEPT ![t][s] = "reviewing"]
        /\ UNCHANGED <<status, running, skip, task>>
  /\ UNCHANGED restarts

\* The executor raises; a group fails when all its steps are over.
ExecutorRaises(t, s) ==
  /\ exec[t][s] = "executing" /\ ~task[t].cancelled
  /\ step' = [step EXCEPT ![s] = "failed"]
  /\ \/ /\ task[t].single
        /\ task' = [task EXCEPT ![t] = NotATask]
        /\ exec' = [exec EXCEPT ![t][s] = "none"]
        /\ UNCHANGED <<status, memVars>>
     \/ /\ ~task[t].single /\ Inline(t)
        /\ status' = "failed"
        /\ Ended(t)
     \/ /\ ~Inline(t)
        /\ exec' = [exec EXCEPT ![t][s] = "error"]
        /\ UNCHANGED <<status, memVars, task>>
  /\ UNCHANGED restarts

\* evt.wait() returns.
StepResumes(t, s) ==
  /\ exec[t][s] \in {"woken", "reviewed"} /\ ~task[t].cancelled
  /\ StepEnds(t, s, IF exec[t][s] = "reviewed"
                    THEN [step EXCEPT ![s] = "completed"] ELSE step)
  /\ UNCHANGED restarts

\* Mutant: the first error ends the run while the other steps go on.
GroupFailsFast(t) ==
  /\ task[t].st = "running" /\ ~task[t].cancelled /\ ~Inline(t)
  /\ \E s \in Steps : exec[t][s] = "error"
  /\ status' = "failed"
  /\ task' = [task EXCEPT ![t] = NotATask]
  /\ running' = NoTask
  /\ UNCHANGED <<step, waits, skip, exec, restarts>>

\* Mutant: the results of gather are not looked at.
GroupIgnoresErrors(t) ==
  /\ task[t].st = "running" /\ ~task[t].cancelled /\ ~Inline(t)
  /\ \A s \in Pending(task[t], task[t].group) : exec[t][s] \in Over
  /\ Proceed(t, task[t], task[t].group + 1, step)
  /\ UNCHANGED restarts

\* gather returns when all its children are over, and raises the first error.
GroupJoins(t) ==
  /\ task[t].st = "running" /\ ~task[t].cancelled /\ ~Inline(t)
  /\ \A s \in Pending(task[t], task[t].group) : exec[t][s] \in Over
  /\ IF \E s \in Steps : exec[t][s] = "error"
     THEN status' = "failed" /\ Ended(t) /\ UNCHANGED step
     ELSE Proceed(t, task[t], task[t].group + 1, step)
  /\ UNCHANGED restarts

\* CancelledError reaches a step; no handler of _execute_step catches it.
StepCancelled(t, s) ==
  /\ task[t].cancelled /\ exec[t][s] \in Active
  /\ exec' = [exec EXCEPT ![t][s] = "cancelled"]
  /\ UNCHANGED <<diskVars, memVars, task, restarts>>

\* ... and then _run_workflow, unless the task never started.
RunCancelled(t) ==
  /\ task[t].cancelled
  /\ \A s \in Steps : exec[t][s] \notin Active
  /\ \/ task[t].st = "running" /\ Ended(t)
     \/ /\ task[t].st = "created"
        /\ task' = [task EXCEPT ![t] = NotATask]
        /\ exec' = [exec EXCEPT ![t] = [s \in Steps |-> "none"]]
        /\ running' = IF running = t THEN NoTask ELSE running
        /\ UNCHANGED <<waits, skip>>
  /\ UNCHANGED <<diskVars, restarts>>

\* The replica dies and a new one comes up: only state.json is left.
Restart ==
  /\ restarts < MaxRestarts
  /\ restarts' = restarts + 1
  /\ task' = [t \in Tasks |-> NotATask]
  /\ exec' = [t \in Tasks |-> [s \in Steps |-> "none"]]
  /\ running' = NoTask
  /\ waits' = [s \in Steps |-> NoTask]
  /\ skip' = FALSE
  /\ UNCHANGED diskVars

-----------------------------------------------------------------------------

Init ==
  /\ status = "none"
  /\ step = [s \in Steps |-> "pending"]
  /\ running = NoTask
  /\ waits = [s \in Steps |-> NoTask]
  /\ skip = FALSE
  /\ task = [t \in Tasks |-> NotATask]
  /\ exec = [t \in Tasks |-> [s \in Steps |-> "none"]]
  /\ restarts = 0

ClientStep ==
  \/ StartRun \/ CancelRun
  \/ \E s \in Steps : ApproveStep(s) \/ RerunFrom(s) \/ ExecuteSingleStep(s)

EngineStep(t) ==
  \/ RunWorkflow(t) \/ GroupJoins(t) \/ RunCancelled(t)
  \/ \E s \in Steps : \/ ChildStarts(t, s) \/ StepResumes(t, s)
                      \/ StepCancelled(t, s)

ExecutorStep(t, s) == ExecutorReturns(t, s) \/ ExecutorRaises(t, s)

Next ==
  \/ ClientStep
  \/ \E t \in Tasks : \/ EngineStep(t)
                      \/ \E s \in Steps : ExecutorStep(t, s)
  \/ Restart

Spec == Init /\ [][Next]_vars

-----------------------------------------------------------------------------
(* Properties.                                                             *)

\* A step is started only when every step it depends on is completed, whoever
\* starts it.
DependenciesFirst ==
  [][\A t \in Tasks, s \in Steps :
       exec[t][s] \in {"none", "created"} /\ exec'[t][s] \in {"executing", "waiting"}
         => Deps[s] \subseteq Completed']_vars

\* A run, or a rerun, never executes again a step that is already completed; only
\* execute_single_step does.
NothingRedone ==
  [][\A t \in Tasks, s \in Steps :
       /\ exec[t][s] \in {"none", "created"} /\ exec'[t][s] \in {"executing", "waiting"}
       /\ ~task'[t].single
       => step[s] # "completed"]_vars

\* No two coroutines that run the workflow execute the same step at the same
\* time.
OneExecution ==
  \A s \in Steps : \A t, u \in {v \in Tasks : ~task[v].single} :
    exec[t][s] \in Active /\ exec[u][s] \in Active => t = u

\* A cancel is not undone by a step that completes or fails meanwhile; only a
\* rerun reopens the run.
CancelHolds == [][status = "cancelled" => status' \in {"cancelled", "running"}]_vars

\* A run whose state says running is being executed by somebody, unless the
\* replica that executed it is gone.
RunningIsExecuted ==
  status = "running" /\ restarts = 0 => \E t \in Tasks : Live(t) /\ ~task[t].single

\* A step that waits for the user is woken by its approval, unless the run is
\* cancelled: the coroutine that waits is the one whose event is registered.
WaitingIsAwaited ==
  status # "cancelled" =>
    \A s \in Steps : step[s] = "waiting_input" =>
      /\ waits[s] # NoTask
      /\ exec[waits[s]][s] \in {"waiting", "reviewing"}

\* Once the run has ended no step of it is being executed.
EndedIsQuiet ==
  status \in {"completed", "failed"} =>
    \A t \in Tasks : \A s \in Steps : exec[t][s] \notin Active

\* Users approve what waits for them; executors return or raise.
Fairness ==
  /\ \A t \in Tasks : /\ WF_vars(EngineStep(t))
                      /\ \A s \in Steps : WF_vars(ExecutorStep(t, s))
  /\ \A s \in Steps : WF_vars(ApproveStep(s))

FairSpec == Spec /\ Fairness

\* Every run that is started ends.
RunEnds == status = "running" ~> status \in {"completed", "failed", "cancelled"}

\* A run whose steps are all completed is soon completed itself, also when the
\* user executes them one by one.
DoneIsCompleted ==
  Completed = Steps ~> (status \in {"completed", "cancelled"} \/ Completed # Steps)

Run == INSTANCE DagRun WITH
         done <- Completed,
         outcome <- IF status \in {"completed", "failed", "cancelled"}
                    THEN status ELSE "open"

\* A run nobody re-executes keeps the promise of DagRun.
DagRunSpec == Run!Spec
=============================================================================
