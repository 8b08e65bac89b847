---------------------------- MODULE PipelineRuns ----------------------------
(***************************************************************************)
(* A pipeline is a request that the Forge deployment serves by starting a  *)
(* run of the workflow engine and polling it (Forge.run_pipeline, the YAML *)
(* path), while the steps of that run come back to the Forge as invokes.   *)
(* Ray Serve admits ForgeSlots requests at a time into the Forge; the      *)
(* invokes among them take turns under _load_lock.                         *)
(*                                                                         *)
(* A run is seen here as a chain of Forge steps; WorkflowEngine has its    *)
(* groups, reviews and reruns, Forge has what an invoke does.              *)
(***************************************************************************)
EXTENDS Naturals, FiniteSets

CONSTANTS
  Pipelines,   \* run_pipeline requests
  Clients,     \* callers of invoke
  ForgeSlots,  \* max_ongoing_requests of the Forge deployment
  MaxSteps,    \* bound on the Forge steps of a spec
  MaxCrashes   \* bound on the crashes of the engine replica

ASSUME PipelineConstants ==
  /\ Pipelines \cap Clients = {}
  /\ IsFiniteSet(Pipelines \cup Clients)
  /\ ForgeSlots \in Nat \ {0}
  /\ MaxSteps \in Nat \ {0}
  /\ MaxCrashes \in Nat

VARIABLES
  call,     \* each run_pipeline request: where it is, or its answer
  status,   \* status of its run in state.json
  alive,    \* the engine has a coroutine that executes the run
  stuck,    \* the spec has a step that waits for a user nobody told
  left,     \* steps of the run that are still to be completed
  invoke,   \* the invoke of a client, or of the current step of a run
  crashes

vars == <<call, status, alive, stuck, left, invoke, crashes>>

Invokers == Pipelines \cup Clients
Answers == {"completed", "failed", "cancelled", "timeout", "error"}
RunOver == {"completed", "failed", "cancelled"}

TypeOK ==
  /\ call \in [Pipelines -> {"idle", "queued", "starting", "polling", "cancelling"} \cup Answers]
  /\ status \in [Pipelines -> {"none", "running"} \cup RunOver]
  /\ alive \in [Pipelines -> BOOLEAN]
  /\ stuck \in [Pipelines -> BOOLEAN]
  /\ left \in [Pipelines -> 0..MaxSteps]
  /\ invoke \in [Invokers -> {"none", "queued", "locking", "serving"}]
  /\ crashes \in 0..MaxCrashes

\* The requests inside the Forge replica.
Inside == {p \in Pipelines : call[p] \in {"starting", "polling", "cancelling"}}
Invoking == {i \in Invokers : invoke[i] \in {"locking", "serving"}}

SlotFree == Cardinality(Inside) + Cardinality(Invoking) < ForgeSlots

LockFree == \A i \in Invokers : invoke[i] # "serving"

-----------------------------------------------------------------------------
(* run_pipeline.                                                           *)

Submit(p) ==
  /\ call[p] = "idle"
  /\ call' = [call EXCEPT ![p] = "queued"]
  /\ UNCHANGED <<status, alive, stuck, left, invoke, crashes>>

Enter(p) ==
  /\ call[p] = "queued"
  /\ SlotFree
  /\ call' = [call EXCEPT ![p] = "starting"]
  /\ UNCHANGED <<status, alive, stuck, left, invoke, crashes>>

\* start_run creates the run and its coroutine, or raises.
StartRun(p) ==
  /\ call[p] = "starting"
  /\ \/ /\ call' = [call EXCEPT ![p] = "polling"]
        /\ status' = [status EXCEPT ![p] = "running"]
        /\ alive' = [alive EXCEPT ![p] = TRUE]
        /\ stuck' \in {[stuck EXCEPT ![p] = b] : b \in BOOLEAN}
        /\ left' \in {[left EXCEPT ![p] = n] : n \in 1..MaxSteps}
     \/ /\ call' = [call EXCEPT ![p] = "error"]
        /\ UNCHANGED <<status, alive, stuck, left>>
  /\ UNCHANGED <<invoke, crashes>>

\* Mutant: the run is read once, over or not.
PollOnce(p) ==
  /\ call[p] = "polling"
  /\ call' = [call EXCEPT ![p] = status[p]]
  /\ UNCHANGED <<status, alive, stuck, left, invoke, crashes>>

\* Mutant: the pipeline answers as soon as no step of the run is in the Forge.
PollEarly(p) ==
  /\ call[p] = "polling"
  /\ invoke[p] = "none"
  /\ call' = [call EXCEPT ![p] = "completed"]
  /\ UNCHANGED <<status, alive, stuck, left, invoke, crashes>>

Poll(p) ==
  /\ call[p] = "polling"
  /\ status[p] \in RunOver
  /\ call' = [call EXCEPT ![p] = status[p]]
  /\ UNCHANGED <<status, alive, stuck, left, invoke, crashes>>

\* Mutant: only a run that is being executed is given up.
TimesOutAlive(p) ==
  /\ call[p] = "polling"
  /\ alive[p]
  /\ call' = [call EXCEPT ![p] = "cancelling"]
  /\ UNCHANGED <<status, alive, stuck, left, invoke, crashes>>

\* The run was not over when it was read, and the 600 s are: cancel_run.
TimesOut(p) ==
  /\ call[p] = "polling"
  /\ status[p] \notin RunOver
  /\ call' = [call EXCEPT ![p] = "cancelling"]
  /\ UNCHANGED <<status, alive, stuck, left, invoke, crashes>>

\* Mutant: the run is left to itself.
CancelNothing(p) ==
  /\ call[p] = "cancelling"
  /\ call' = [call EXCEPT ![p] = "timeout"]
  /\ UNCHANGED <<status, alive, stuck, left, invoke, crashes>>

\* cancel_run stops a coroutine that is still there; what the coroutine waits
\* for in the Forge goes on or is withdrawn, as the Serve handle decides.
StopRun(p) ==
  /\ status' = IF alive[p] THEN [status EXCEPT ![p] = "cancelled"] ELSE status
  /\ alive' = [alive EXCEPT ![p] = FALSE]
  /\ \/ UNCHANGED invoke
     \/ invoke[p] = "queued" /\ invoke' = [invoke EXCEPT ![p] = "none"]

CancelRun(p) ==
  /\ call[p] = "cancelling"
  /\ call' = [call EXCEPT ![p] = "timeout"]
  /\ StopRun(p)
  /\ UNCHANGED <<stuck, left, crashes>>

\* A client of the gateway cancels the run of a pipeline.
ClientCancels(p) ==
  /\ alive[p]
  /\ StopRun(p)
  /\ UNCHANGED <<call, stuck, left, crashes>>

\* get_run raises or finds no file, or cancel_run raises, before or after it has
\* told the coroutine to stop: the pipeline answers with an error, and a
\* coroutine that was not told goes on.
CallFails(p) ==
  /\ call[p] \in {"polling", "cancelling"}
  /\ call' = [call EXCEPT ![p] = "error"]
  /\ \/ UNCHANGED alive
     \/ call[p] = "cancelling" /\ alive' = [alive EXCEPT ![p] = FALSE]
  /\ UNCHANGED <<status, stuck, left, invoke, crashes>>

-----------------------------------------------------------------------------
(* The invokes: of clients, and of the steps of the runs.                  *)

StepCalls(p) ==
  /\ alive[p] /\ invoke[p] = "none" /\ ~stuck[p]
  /\ invoke' = [invoke EXCEPT ![p] = "queued"]
  /\ UNCHANGED <<call, status, alive, stuck, left, crashes>>

ClientCalls(c) ==
  /\ invoke[c] = "none"
  /\ invoke' = [invoke EXCEPT ![c] = "queued"]
  /\ UNCHANGED <<call, status, alive, stuck, left, crashes>>

InvokeEnters(i) ==
  /\ invoke[i] = "queued"
  /\ SlotFree
  /\ invoke' = [invoke EXCEPT ![i] = "locking"]
  /\ UNCHANGED <<call, status, alive, stuck, left, crashes>>

\* Mutant: run_pipeline holds _load_lock while it polls.
InvokeLocksOutside(i) ==
  /\ invoke[i] = "locking"
  /\ LockFree /\ Inside = {}
  /\ invoke' = [invoke EXCEPT ![i] = "serving"]
  /\ UNCHANGED <<call, status, alive, stuck, left, crashes>>

InvokeLocks(i) ==
  /\ invoke[i] = "locking"
  /\ LockFree
  /\ invoke' = [invoke EXCEPT ![i] = "serving"]
  /\ UNCHANGED <<call, status, alive, stuck, left, crashes>>

\* The answer reaches the coroutine of the run, if there is still one: the run
\* goes on with its next step, completes with the last one, or fails.
InvokeReturns(i) ==
  /\ invoke[i] = "serving"
  /\ invoke' = [invoke EXCEPT ![i] = "none"]
  /\ \/ /\ i \in Pipelines /\ alive[i]
        /\ \/ /\ left[i] > 1
              /\ left' = [left EXCEPT ![i] = @ - 1]
              /\ UNCHANGED <<status, alive>>
           \/ /\ left[i] = 1
              /\ left' = [left EXCEPT ![i] = 0]
              /\ status' = [status EXCEPT ![i] = "completed"]
              /\ alive' = [alive EXCEPT ![i] = FALSE]
           \/ /\ status' = [status EXCEPT ![i] = "failed"]
              /\ alive' = [alive EXCEPT ![i] = FALSE]
              /\ UNCHANGED left
     \/ (i \in Pipelines => ~alive[i]) /\ UNCHANGED <<status, alive, stuck, left>>
  /\ UNCHANGED <<call, stuck, crashes>>

\* The engine replica dies and comes back without its coroutines; a poll that
\* is under way may raise, and the pipeline answers with the error.
EngineCrashes ==
  /\ crashes < MaxCrashes
  /\ crashes' = crashes + 1
  /\ alive' = [p \in Pipelines |-> FALSE]
  /\ \E hit \in SUBSET {p \in Pipelines : call[p] \in {"polling", "cancelling"}} :
       call' = [p \in Pipelines |-> IF p \in hit THEN "error" ELSE call[p]]
  /\ UNCHANGED <<status, stuck, left, invoke>>

-----------------------------------------------------------------------------

Init ==
  /\ call = [p \in Pipelines |-> "idle"]
  /\ status = [p \in Pipelines |-> "none"]
  /\ alive = [p \in Pipelines |-> FALSE]
  /\ stuck = [p \in Pipelines |-> FALSE]
  /\ left = [p \in Pipelines |-> 0]
  /\ invoke = [i \in Invokers |-> "none"]
  /\ crashes = 0

PipelineStep(p) == StartRun(p) \/ Poll(p) \/ CancelRun(p) \/ StepCalls(p)

Next ==
  \/ \E p \in Pipelines : \/ Submit(p) \/ Enter(p) \/ PipelineStep(p) \/ TimesOut(p)
                         \/ CallFails(p) \/ ClientCancels(p)
  \/ \E c \in Clients : ClientCalls(c)
  \/ \E i \in Invokers : InvokeEnters(i) \/ InvokeLocks(i) \/ InvokeReturns(i)
  \/ EngineCrashes

\* The router serves queued requests in order, the lock is FIFO, and an invoke
\* ends (EveryCallEnds of Forge).
Fairness ==
  /\ \A p \in Pipelines : SF_vars(Enter(p)) /\ WF_vars(PipelineStep(p))
  /\ \A i \in Invokers : /\ SF_vars(InvokeEnters(i)) /\ SF_vars(InvokeLocks(i))
                         /\ WF_vars(InvokeReturns(i))

Spec == Init /\ [][Next]_vars
FairSpec == Spec /\ Fairness

-----------------------------------------------------------------------------
(* Properties.                                                             *)

\* A pipeline is answered with the outcome of its run, which its own coroutine,
\* late cancels and crashes leave as it was answered.
AnswerIsOutcome ==
  \A p \in Pipelines : call[p] \in RunOver => status[p] = call[p]

\* A pipeline that was answered with an outcome or with its timeout has no
\* coroutine that goes on executing its run and taking the Forge. (An error
\* answer leaves the run to itself: see CallFails.)
NothingGoesOn ==
  \A p \in Pipelines : call[p] \in Answers \ {"error"} => ~alive[p]

Answered(p) == call[p] \in Answers

\* Pipelines hold every slot of the Forge: the steps of their runs cannot enter.
Crowded == Cardinality(Inside) = ForgeSlots

\* As long as the pipelines leave a slot, a run that needs no user and whose
\* engine survives ends, and its pipeline is answered: no timeout is needed.
EndsUnlessCrowded ==
  [](~Crowded /\ crashes = 0) =>
    \A p \in Pipelines : call[p] = "queued" ~> Answered(p) \/ stuck[p]

\* The 600 s pass for every pipeline that is still polling.
TimePasses == \A p \in Pipelines : WF_vars(TimesOut(p))

\* Every pipeline is answered in the end, also when all slots are taken by
\* pipelines, when nobody attends to the run and when the engine crashes.
EveryPipelineEnds ==
  TimePasses => \A p \in Pipelines : call[p] = "queued" ~> Answered(p)
=============================================================================
