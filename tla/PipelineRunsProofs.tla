------------------------- MODULE PipelineRunsProofs -------------------------
(* What a pipeline's answer says of its run, for any number of pipelines,    *)
(* clients, slots, steps and crashes.                                        *)
EXTENDS PipelineRuns, TLAPS

\* A run that is executed is running, and its pipeline still polls it or was
\* answered with an error.
Tied(p) ==
  /\ alive[p] => status[p] = "running" /\ call[p] \in {"polling", "cancelling", "error"}
  /\ call[p] \in RunOver => status[p] = call[p]

IInv == TypeOK /\ \A p \in Pipelines : Tied(p)

LEMMA InitIInv == Init => IInv
BY PipelineConstants DEF Init, IInv, TypeOK, Tied, RunOver, Answers, Invokers

LEMMA NextIInv == IInv /\ [Next]_vars => IInv'
<1> SUFFICES ASSUME IInv, [Next]_vars PROVE IInv'
  OBVIOUS
<1> USE DEF IInv, TypeOK, Tied, RunOver, Answers, Invokers
<1>1. ASSUME NEW p \in Pipelines, Submit(p) PROVE IInv'
  BY <1>1 DEF Submit
<1>2. ASSUME NEW p \in Pipelines, Enter(p) PROVE IInv'
  BY <1>2 DEF Enter
<1>3. ASSUME NEW p \in Pipelines, StartRun(p) PROVE IInv'
  <2>1. CASE call' = [call EXCEPT ![p] = "polling"]
    <3>1. PICK b \in BOOLEAN : stuck' = [stuck EXCEPT ![p] = b]
      BY <1>3, <2>1 DEF StartRun
    <3>2. PICK n \in 1..MaxSteps : left' = [left EXCEPT ![p] = n]
      BY <1>3, <2>1 DEF StartRun
    <3>3. n \in 0..MaxSteps
      BY <3>2, PipelineConstants
    <3>4. stuck' \in [Pipelines -> BOOLEAN] /\ left' \in [Pipelines -> 0..MaxSteps]
      BY <3>1, <3>2, <3>3
    <3> QED
      BY <1>3, <2>1, <3>4 DEF StartRun
  <2>2. CASE call' = [call EXCEPT ![p] = "error"]
    BY <1>3, <2>2 DEF StartRun
  <2> QED
    BY <1>3, <2>1, <2>2 DEF StartRun
<1>4. ASSUME NEW p \in Pipelines, Poll(p) PROVE IInv'
  BY <1>4 DEF Poll
<1>5. ASSUME NEW p \in Pipelines, TimesOut(p) PROVE IInv'
  BY <1>5 DEF TimesOut
<1>6. ASSUME NEW p \in Pipelines, CancelRun(p) PROVE IInv'
  BY <1>6 DEF CancelRun, StopRun
<1>7. ASSUME NEW p \in Pipelines, StepCalls(p) PROVE IInv'
  BY <1>7 DEF StepCalls
<1>8. ASSUME NEW c \in Clients, ClientCalls(c) PROVE IInv'
  BY <1>8 DEF ClientCalls
<1>9. ASSUME NEW i \in Invokers, InvokeEnters(i) \/ InvokeLocks(i) PROVE IInv'
  BY <1>9 DEF InvokeEnters, InvokeLocks
<1>10. ASSUME NEW i \in Invokers, InvokeReturns(i) PROVE IInv'
  <2>1. (i \in Pipelines /\ alive[i]) \/ UNCHANGED <<status, alive, left>>
    BY <1>10 DEF InvokeReturns
  <2>2. CASE UNCHANGED <<status, alive, left>>
    BY <1>10, <2>2 DEF InvokeReturns
  <2>3. CASE i \in Pipelines /\ alive[i]
    <3>1. left' \in [Pipelines -> 0..MaxSteps]
      <4>1. CASE left[i] > 1 /\ left' = [left EXCEPT ![i] = @ - 1]
        BY <2>3, <4>1, PipelineConstants
      <4>2. CASE left' = [left EXCEPT ![i] = 0] \/ left' = left
        BY <2>3, <4>2, PipelineConstants
      <4> QED
        BY <1>10, <4>1, <4>2 DEF InvokeReturns
    <3>2. call[i] \in {"polling", "cancelling", "error"}
      BY <2>3
    <3> QED
      BY <1>10, <2>3, <3>1, <3>2 DEF InvokeReturns
  <2> QED
    BY <2>1, <2>2, <2>3
<1>11. CASE EngineCrashes
  <2>1. PICK hit \in SUBSET Pipelines :
          call' = [p \in Pipelines |-> IF p \in hit THEN "error" ELSE call[p]]
    BY <1>11 DEF EngineCrashes
  <2>2. call' \in [Pipelines -> {"idle", "queued", "starting", "polling", "cancelling"}
                              \cup Answers]
    BY <2>1
  <2>3. crashes' \in 0..MaxCrashes
    BY <1>11, PipelineConstants DEF EngineCrashes
  <2> QED
    BY <1>11, <2>1, <2>2, <2>3 DEF EngineCrashes
<1>12. CASE UNCHANGED vars
  BY <1>12 DEF vars
<1>13. ASSUME NEW p \in Pipelines, ClientCancels(p) PROVE IInv'
  BY <1>13 DEF ClientCancels, StopRun
<1>14. ASSUME NEW p \in Pipelines, CallFails(p) PROVE IInv'
  BY <1>14 DEF CallFails
<1> QED
  BY <1>1, <1>2, <1>3, <1>4, <1>5, <1>6, <1>7, <1>8, <1>9, <1>10, <1>11, <1>12,
     <1>13, <1>14
  DEF Next, PipelineStep

LEMMA InductiveInvariant == Spec => []IInv
BY InitIInv, NextIInv, PTL DEF Spec

\* The variables keep their types, whatever the number of requests.
THEOREM TypeCorrect == Spec => []TypeOK
<1>1. IInv => TypeOK
  BY DEF IInv
<1> QED
  BY <1>1, InductiveInvariant, PTL

\* A pipeline is answered with the outcome of its run, and cancels, failed calls
\* and crashes leave that outcome as it is.
THEOREM AnswerIsOutcomeHolds == Spec => []AnswerIsOutcome
<1>1. IInv => AnswerIsOutcome
  BY DEF IInv, Tied, AnswerIsOutcome
<1> QED
  BY <1>1, InductiveInvariant, PTL

\* No run goes on being executed once its pipeline was answered with an outcome
\* or with its timeout; an answer by an error promises nothing of the kind.
THEOREM NothingGoesOnHolds == Spec => []NothingGoesOn
<1>1. IInv => NothingGoesOn
  BY DEF IInv, Tied, NothingGoesOn, Answers
<1> QED
  BY <1>1, InductiveInvariant, PTL
=============================================================================
