------------------------ MODULE LegacyPipelinesProofs ------------------------
(***************************************************************************)
(* What holds of the legacy pipelines for any number of pipelines and      *)
(* clients, whatever the clients request and whichever operations take the *)
(* Forge's lock.                                                           *)
(***************************************************************************)
EXTENDS LegacyPipelines, FiniteSetTheorems, FunctionTheorems, TLAPS

FlowPCs == PCs \cup {"returning", "proxying", "naming", "failed", "swapping", "swapped"}

\* Of the Forge, only what the pipelines can see.
FlowTypes ==
  /\ loaded \in [Services -> BOOLEAN]
  /\ used \in [Services -> Nat]
  /\ pc \in [Calls -> FlowPCs]
  /\ thr \in [Calls -> {"none", "queued", "running", "returned", "ok", "failed"}]
  /\ req \in [Calls -> Requests \cup {NoRequest, Pipeline}]

\* The objects get_service made: those alive are referred to, and only a proxy
\* can believe that native is loaded.
Pool ==
  /\ core \in BOOLEAN
  /\ svc \in Objects \cup {Nobody}
  /\ held \in [Flows -> Objects \cup {Nobody}]
  /\ kind \in [Objects -> {"none", "proxy", "hollow", "bare"}]
  /\ nloaded \in [Objects -> BOOLEAN]
  /\ \A o \in Objects : kind[o] # "none" => o = svc \/ \E f \in Flows : held[f] = o
  /\ \A o \in Objects : nloaded[o] => kind[o] = "proxy"

\* A pipeline is where its thread is, and refers to an object only while it runs.
FlowShape(f) ==
  /\ pc[f] = "idle" => held[f] = Nobody
  /\ pc[f] # "idle" => req[f] = Pipeline
  /\ thr[f] # "none" => pc[f] = "loading"
  /\ pc[f] = "loading" => held[f] # Nobody /\ kind[held[f]] = "proxy"

Shapes ==
  /\ \A c \in Calls : thr[c] # "none" => pc[c] \in {"idle", "loading"}
  /\ \A f \in Flows : FlowShape(f)
  /\ Running = {} => svc = Nobody

\* No proxy believes that native is loaded, and none is about to.
NoneBelieves ==
  /\ \A o \in Objects : ~nloaded[o]
  /\ \A f \in Flows : pc[f] # "swapping" /\ thr[f] # "ok"

\* A proxy that believes it is right, or native was unloaded under a pipeline.
BeliefsTrue == loaded[Native] \/ pulled \/ NoneBelieves

\* The globals of workflows/base.py are those that f has set.
Undisturbed(f) ==
  /\ Running = {f}
  /\ core /\ pc[f] # "naming"
  /\ svc # Nobody => kind[svc] = "proxy"
  /\ held[f] # Nobody => kind[held[f]] = "proxy"

FlowInv ==
  /\ FlowTypes /\ Pool /\ Shapes
  /\ BeliefsTrue /\ KnownUnlessPulled
  /\ \A f \in Running \ overlaps : Undisturbed(f)

-----------------------------------------------------------------------------
(* Objects and their references.                                           *)

\* The other pipelines refer to what they did, and their proxies stay proxies.
ProxiesKept(f) ==
  \A g \in Flows \ {f} :
    /\ held'[g] = held[g]
    /\ held[g] # Nobody /\ kind[held[g]] = "proxy" => kind'[held[g]] = "proxy"

\* There is always an identity for another object.
LEMMA FreshIsNew ==
  ASSUME Pool
  PROVE  Fresh \in Objects /\ kind[Fresh] = "none"
<1> DEFINE H == {held[f] : f \in Flows}
           Alive == H \cup {svc}
<1>1. IsFiniteSet(H) /\ Cardinality(H) <= Cardinality(Flows)
  <2>1. held \in Surjection(Flows, H)
    BY DEF Surjection, Pool
  <2> QED BY <2>1, FS_Surjection, FlowConstants
<1>2. IsFiniteSet(Alive) /\ Cardinality(Alive) <= Cardinality(H) + 1
  <2>1. Cardinality(H) \in Nat
    BY <1>1, FS_CardinalityType
  <2> HIDE DEF H
  <2>2. /\ IsFiniteSet(H \cup {svc})
        /\ Cardinality(H \cup {svc}) = IF svc \in H THEN Cardinality(H) ELSE Cardinality(H) + 1
    BY <1>1, FS_AddElement
  <2> QED BY <2>1, <2>2
<1>3. PICK o \in Objects : o \notin Alive
  <2>1. ~(Objects \subseteq Alive)
    <3> SUFFICES ASSUME Objects \subseteq Alive PROVE FALSE
      OBVIOUS
    <3>1. Cardinality(Objects) <= Cardinality(Alive)
      BY <1>2, FS_Subset
    <3>2. /\ Cardinality(Objects) \in Nat /\ Cardinality(Alive) \in Nat
          /\ Cardinality(H) \in Nat /\ Cardinality(Flows) \in Nat
      BY <1>1, <1>2, FlowConstants, FS_CardinalityType
    <3> HIDE DEF Alive, H
    <3> QED BY <1>1, <1>2, <3>1, <3>2, FlowConstants
  <2> QED BY <2>1
<1>4. kind[o] = "none"
  BY <1>3 DEF Pool
<1> QED BY <1>4 DEF Fresh

LEMMA RebindKeepsPool ==
  ASSUME Pool, NEW f \in Flows,
         NEW global \in Objects \cup {Nobody}, NEW local \in Objects \cup {Nobody},
         NEW kinds \in [Objects -> {"none", "proxy", "hollow", "bare"}],
         \A o \in Objects : nloaded[o] => kinds[o] = "proxy",
         \A o \in Objects : kind[o] = "proxy" => kinds[o] = "proxy",
         Rebind(f, global, local, kinds), core' \in BOOLEAN
  PROVE  /\ Pool'
         /\ svc' = global /\ held' = [held EXCEPT ![f] = local]
         /\ \A o \in Objects : o \in {global, local} => kind'[o] = kinds[o]
         /\ \A o \in Objects : nloaded'[o] => nloaded[o]
         /\ ProxiesKept(f)
<1> DEFINE live == {global, local} \cup {held[g] : g \in Flows \ {f}}
<1>1. /\ svc' = global /\ held' = [held EXCEPT ![f] = local]
      /\ kind' = [o \in Objects |-> IF o \in live THEN kinds[o] ELSE "none"]
      /\ nloaded' = [o \in Objects |-> nloaded[o] /\ o \in live]
  BY DEF Rebind
<1>2. \A o \in live : o = svc' \/ \E g \in Flows : held'[g] = o
  BY <1>1 DEF Pool
<1> HIDE DEF live
<1>3. /\ svc' \in Objects \cup {Nobody} /\ held' \in [Flows -> Objects \cup {Nobody}]
      /\ kind' \in [Objects -> {"none", "proxy", "hollow", "bare"}]
      /\ nloaded' \in [Objects -> BOOLEAN]
  BY <1>1 DEF Pool
<1>4. \A o \in Objects : nloaded'[o] => nloaded[o] /\ o \in live
  BY <1>1 DEF Pool
<1>5. \A o \in Objects : /\ kind'[o] # "none" => o \in live
                         /\ o \in live => kind'[o] = kinds[o]
  BY <1>1
<1>6. Pool'
  BY <1>2, <1>3, <1>4, <1>5 DEF Pool
<1>7. ASSUME NEW g \in Flows \ {f}
      PROVE  /\ held'[g] = held[g]
             /\ held[g] # Nobody /\ kind[held[g]] = "proxy" => kind'[held[g]] = "proxy"
  <2>1. held'[g] = held[g] /\ held[g] \in Objects \cup {Nobody} /\ held[g] \in live
    BY <1>1 DEF Pool, live
  <2> QED BY <1>5, <2>1
<1>8. ProxiesKept(f)
  BY <1>7 DEF ProxiesKept
<1> QED BY <1>1, <1>4, <1>5, <1>6, <1>8 DEF live

-----------------------------------------------------------------------------
(* What a step of the Forge does to the pipelines and to native.           *)

\* Whoever loads native has returned from it and not yet said so.
Returned == \E c \in Calls : thr[c] = "returned" /\ Svc(c) = Native

\* The steps of Forge that a call of this module can take.
ForgeStep(c) ==
  Submit(c) \/ LoopStep(c) \/ ThreadStep(c) \/ LoadEnds(c) \/ LoadTimesOut(c)

LEMMA ForgeStepTypes ==
  ASSUME FlowTypes, NEW c \in Calls, ForgeStep(c)
  PROVE  /\ FlowTypes'
         /\ \A d \in Calls \ {c} : pc'[d] = pc[d] /\ thr'[d] = thr[d] /\ req'[d] = req[d]
<1> USE DEF Go, Continue, Await, coreVars, threadVars, gpuVars, FlowTypes, FlowPCs, PCs
<1>1. CASE Submit(c)
  BY <1>1 DEF Submit
<1>2. CASE InvokeBegin(c) \/ PreloadLoaded(c) \/ PreloadBegin(c) \/ ReleaseBegin(c)
  BY <1>2 DEF InvokeBegin, PreloadLoaded, PreloadBegin, ReleaseBegin, Finish
<1>3. CASE UnloadNext(c) \/ UnloadsDone(c)
  BY <1>3 DEF UnloadNext, UnloadsDone, Finish
<1>4. CASE GpuNotReady(c) \/ GpuReady(c) \/ Clean(c) \/ Admit(c)
  BY <1>4 DEF GpuNotReady, GpuReady, Clean, Admit
<1>5. CASE EvictNext(c) \/ EvictDone(c) \/ Refuse(c)
  BY <1>5 DEF EvictNext, EvictDone, Refuse, Finish
<1>6. CASE LoadJoined(c) \/ LoadFailed(c) \/ LoadTimesOut(c)
  BY <1>6 DEF LoadJoined, LoadFailed, LoadTimesOut, Finish
<1>7. CASE InferReturns(c)
  BY <1>7, ForgeConstants DEF InferReturns, Finish
<1>8. CASE Unloaded(c) \/ UnloadRaises(c) \/ Settled(c)
  <2>1. CASE Unloaded(c)
    <3>1. loaded' \in [Services -> BOOLEAN] /\ used' \in [Services -> Nat]
      BY <2>1 DEF Unloaded
    <3> QED BY <2>1, <3>1 DEF Unloaded
  <2>2. CASE UnloadRaises(c)
    BY <2>2 DEF UnloadRaises, Finish
  <2>3. CASE Settled(c)
    BY <2>3 DEF Settled
  <2> QED BY <1>8, <2>1, <2>2, <2>3
<1>9. CASE Reserve(c) \/ MarkLoaded(c)
  BY <1>9 DEF Reserve, MarkLoaded, ThreadEnds
<1>10. CASE LoadReturns(c) \/ LoadRaises(c)
  BY <1>10, ForgeConstants DEF LoadReturns, LoadRaises, ThreadEnds
<1> QED BY <1>1, <1>2, <1>3, <1>4, <1>5, <1>6, <1>7, <1>8, <1>9, <1>10
  DEF ForgeStep, LoopStep, ThreadStep, LoadEnds

LEMMA ForgeStepOnNative ==
  ASSUME FlowTypes, NEW c \in Calls, ForgeStep(c),
         thr[c] # "none" => pc[c] \in {"idle", "loading"}
  PROVE  /\ thr'[c] # "none" => pc'[c] \in {"idle", "loading"}
         /\ \/ loaded'[Native] = loaded[Native] /\ used'[Native] = used[Native]
            \/ loaded'[Native]
            \/ used'[Native] = 0
            \/ loaded'[Native] = loaded[Native] /\ thr'[c] = "returned" /\ Svc(c)' = Native
         /\ thr[c] = "returned" /\ Svc(c) = Native =>
              \/ loaded'[Native]
              \/ thr'[c] = "returned" /\ Svc(c)' = Native
<1> USE FlowConstants DEF Go, Continue, Await, coreVars, threadVars, gpuVars, FlowTypes
<1>1. CASE Submit(c)
  BY <1>1 DEF Submit
<1>2. CASE InvokeBegin(c) \/ PreloadLoaded(c) \/ PreloadBegin(c) \/ ReleaseBegin(c)
  BY <1>2 DEF InvokeBegin, PreloadLoaded, PreloadBegin, ReleaseBegin, Enter, Finish
<1>3. CASE UnloadNext(c) \/ UnloadsDone(c)
  BY <1>3 DEF UnloadNext, UnloadsDone, Finish
<1>4. CASE GpuNotReady(c) \/ GpuReady(c) \/ Clean(c) \/ Admit(c)
  BY <1>4 DEF GpuNotReady, GpuReady, Clean, Admit
<1>5. CASE EvictNext(c) \/ EvictDone(c) \/ Refuse(c)
  BY <1>5 DEF EvictNext, EvictDone, Refuse, EvictOver, Finish
<1>6. CASE LoadJoined(c) \/ LoadFailed(c) \/ LoadTimesOut(c)
  BY <1>6 DEF LoadJoined, LoadFailed, LoadTimesOut, Finish
<1>7. CASE InferReturns(c)
  BY <1>7 DEF InferReturns, Finish
<1>8. CASE Unloaded(c)
  <2>1. /\ pc[c] = "freeing" /\ pc'[c] = "settling" /\ thr' = thr
    BY <1>8 DEF Unloaded
  <2>2. \/ loaded'[Native] = loaded[Native] /\ used'[Native] = used[Native]
        \/ used'[Native] = 0
    BY <1>8 DEF Unloaded
  <2> QED BY <2>1, <2>2
<1>9. CASE UnloadRaises(c) \/ Settled(c)
  BY <1>9 DEF UnloadRaises, Settled, Finish
<1>10. CASE Reserve(c) \/ MarkLoaded(c)
  BY <1>10 DEF Reserve, MarkLoaded, ThreadEnds, Svc
<1>11. CASE LoadReturns(c) \/ LoadRaises(c)
  BY <1>11 DEF LoadReturns, LoadRaises, ThreadEnds, Svc
<1> QED BY <1>1, <1>2, <1>3, <1>4, <1>5, <1>6, <1>7, <1>8, <1>9, <1>10, <1>11
  DEF ForgeStep, LoopStep, ThreadStep, LoadEnds

\* What _do_load does in a worker thread that is awaited.
CoreThread(c) == Reserve(c) \/ MarkLoaded(c) \/ LoadEnds(c)

LEMMA CoreThreadOnNative ==
  ASSUME FlowTypes, NEW c \in Calls, CoreThread(c), pc[c] = "loading", Svc(c) = Native
  PROVE  /\ pc'[c] = "loading" /\ req'[c] = req[c]
         /\ thr'[c] = "ok" => loaded'[Native]
BY FlowConstants DEF CoreThread, Reserve, MarkLoaded, LoadEnds, LoadReturns, LoadRaises,
  ThreadEnds, Svc, FlowTypes

-----------------------------------------------------------------------------
(* The histories.                                                          *)

\* No step makes a proxy wrong without Remember noticing.
LEMMA BeliefsKept ==
  ASSUME FlowInv, Remember, NoneBelieves => NoneBelieves' \/ loaded'[Native],
         loaded' \in [Services -> BOOLEAN]
  PROVE  BeliefsTrue'
<1>1. CASE loaded'[Native]
  BY <1>1 DEF BeliefsTrue
<1>2. CASE loaded[Native] = loaded'[Native]
  BY <1>2 DEF BeliefsTrue, FlowInv, Remember
<1>3. CASE loaded[Native] /\ ~loaded'[Native] /\ Running # {}
  BY <1>3 DEF BeliefsTrue, Remember
<1>4. CASE ~loaded'[Native] /\ Running = {}
  <2>1. \A f \in Flows : pc[f] = "idle" /\ held[f] = Nobody /\ thr[f] = "none"
    BY <1>4 DEF FlowInv, Shapes, FlowShape, Running
  <2>2. svc = Nobody
    BY <1>4 DEF FlowInv, Shapes
  <2>3. \A o \in Objects : kind[o] = "none" /\ ~nloaded[o]
    BY <2>1, <2>2, FlowConstants DEF FlowInv, Pool
  <2>4. NoneBelieves
    BY <2>1, <2>3 DEF NoneBelieves
  <2> QED BY <1>4, <2>4 DEF BeliefsTrue
<1> QED BY <1>1, <1>2, <1>3, <1>4, FlowConstants DEF FlowInv, FlowTypes

\* What is on the GPU after a step was there before, or is accounted for.
LEMMA TrackKept ==
  ASSUME FlowInv, Remember,
         \/ loaded'[Native] = loaded[Native] /\ used'[Native] = used[Native]
         \/ loaded'[Native]
         \/ used'[Native] = 0
         \/ Returned'
         \/ loaded'[Native] = loaded[Native] /\ \E f \in Flows : pc[f] = "swapping",
         Returned => Returned' \/ loaded'[Native]
  PROVE  KnownUnlessPulled'
<1>1. Returned' => KnownUnlessPulled'
  BY DEF Returned, KnownUnlessPulled, Svc
<1>2. used'[Native] = 0 \/ loaded'[Native] => KnownUnlessPulled'
  BY DEF KnownUnlessPulled
<1>3. ASSUME loaded'[Native] = loaded[Native] PROVE pulled' = pulled
  BY <1>3 DEF Remember
<1>4. CASE loaded'[Native] = loaded[Native] /\ used'[Native] = used[Native]
  <2>1. used[Native] > 0 /\ ~loaded[Native] => pulled \/ Returned
    BY DEF FlowInv, KnownUnlessPulled, Returned
  <2>2. SUFFICES ASSUME used'[Native] > 0, ~loaded'[Native] PROVE pulled' \/ Returned'
    BY DEF KnownUnlessPulled, Returned
  <2> QED BY <1>3, <1>4, <2>1, <2>2
<1>5. CASE loaded'[Native] = loaded[Native] /\ \E f \in Flows : pc[f] = "swapping"
  <2>1. loaded[Native] \/ pulled
    BY <1>5 DEF FlowInv, BeliefsTrue, NoneBelieves
  <2> QED BY <1>2, <1>3, <1>5, <2>1 DEF KnownUnlessPulled
<1> QED BY <1>1, <1>2, <1>4, <1>5

\* Only a pipeline that runs beside no other stays out of overlaps.
LEMMA AloneNow ==
  ASSUME Remember, NEW f \in Running' \ overlaps'
  PROVE  Running' = {f} /\ f \notin overlaps
<1>1. IsFiniteSet(Running') /\ Cardinality(Running') \in Nat
  <2>1. Running' \in SUBSET Flows
    BY DEF Running
  <2> QED BY <2>1, FlowConstants, FS_Subset, FS_CardinalityType
<1>2. Cardinality(Running') <= 1 /\ f \notin overlaps
  BY <1>1 DEF Remember
<1>3. Cardinality(Running') = 1
  BY <1>1, <1>2, FS_EmptySet
<1>4. \E x : Running' = {x}
  BY <1>1, <1>3, FS_Singleton
<1> QED BY <1>2, <1>4

-----------------------------------------------------------------------------
(* The inductive invariant.                                                *)

LEMMA FlowInvInit == FlowInit => FlowInv
<1> SUFFICES ASSUME FlowInit PROVE FlowInv
  OBVIOUS
<1>1. FlowTypes
  BY DEF FlowInit, Init, FlowTypes, FlowPCs, PCs
<1>2. Pool
  BY FlowConstants DEF FlowInit, Pool
<1>3. Running = {}
  BY FlowConstants DEF FlowInit, Init, Running
<1>4. Shapes /\ BeliefsTrue
  BY FlowConstants DEF FlowInit, Init, Shapes, FlowShape, BeliefsTrue, NoneBelieves
<1>5. KnownUnlessPulled
  BY FlowConstants DEF FlowInit, Init, KnownUnlessPulled
<1> QED BY <1>1, <1>2, <1>3, <1>4, <1>5 DEF FlowInv

\* A step of Forge that leaves the pipelines where they are.
LEMMA ClientsKeep ==
  ASSUME FlowInv, NEW c \in Calls, ForgeStep(c), UNCHANGED objVars, Remember,
         c \in Flows => CoreThread(c) /\ thr[c] # "none"
  PROVE  FlowInv'
<1>1. /\ FlowTypes'
      /\ \A d \in Calls \ {c} : pc'[d] = pc[d] /\ thr'[d] = thr[d] /\ req'[d] = req[d]
  BY ForgeStepTypes DEF FlowInv
<1>2. /\ thr'[c] # "none" => pc'[c] \in {"idle", "loading"}
      /\ \/ loaded'[Native] = loaded[Native] /\ used'[Native] = used[Native]
         \/ loaded'[Native]
         \/ used'[Native] = 0
         \/ loaded'[Native] = loaded[Native] /\ thr'[c] = "returned" /\ Svc(c)' = Native
      /\ thr[c] = "returned" /\ Svc(c) = Native =>
           \/ loaded'[Native]
           \/ thr'[c] = "returned" /\ Svc(c)' = Native
  BY ForgeStepOnNative DEF FlowInv, Shapes
<1>3. c \in Flows => /\ pc[c] = "loading" /\ pc'[c] = "loading"
                     /\ req[c] = Pipeline /\ req'[c] = Pipeline
                     /\ thr'[c] = "ok" => loaded'[Native]
  <2>1. c \in Flows => pc[c] = "loading" /\ req[c] = Pipeline
    BY DEF FlowInv, Shapes, FlowShape
  <2> QED BY <2>1, CoreThreadOnNative DEF FlowInv, Svc, Pipeline
<1>4. /\ \A f \in Flows : pc'[f] = pc[f]
      /\ \A f \in Flows : req'[f] = req[f]
      /\ Running' = Running
  BY <1>1, <1>3, FlowConstants DEF Running
<1>5. Pool'
  BY DEF FlowInv, Pool, objVars
<1>6. Shapes'
  BY <1>1, <1>2, <1>3, <1>4, FlowConstants DEF FlowInv, Shapes, FlowShape, objVars
<1>7. BeliefsTrue'
  <2>1. NoneBelieves => NoneBelieves' \/ loaded'[Native]
    BY <1>1, <1>3, <1>4, FlowConstants DEF NoneBelieves, objVars
  <2> QED BY <1>1, <2>1, BeliefsKept DEF FlowTypes
<1>8. KnownUnlessPulled'
  <2>1. Returned => Returned' \/ loaded'[Native]
    BY <1>1, <1>2 DEF Returned, Svc
  <2> QED BY <1>2, <2>1, TrackKept DEF Returned
<1>9. \A f \in Running' \ overlaps' : Undisturbed(f)'
  BY <1>4, AloneNow DEF FlowInv, Undisturbed, objVars, Running
<1> QED BY <1>1, <1>5, <1>6, <1>7, <1>8, <1>9 DEF FlowInv

\* A step of a running pipeline's own code.
LEMMA OwnStepKeeps ==
  ASSUME FlowInv, Remember, NEW f \in Flows, NEW to \in FlowPCs \ {"idle"},
         pc[f] # "idle", Go(f, to), UNCHANGED <<loaded, req, core>>,
         used' \in [Services -> Nat], used' = used \/ pc[f] = "swapping",
         NEW t \in {"none", "queued"},
         thr' = thr \/ (thr[f] # "returned" /\ thr' = [thr EXCEPT ![f] = t]),
         thr'[f] # "none" => to = "loading",
         to = "loading" => held'[f] # Nobody /\ kind'[held'[f]] = "proxy",
         ProxiesKept(f),
         Pool', NoneBelieves => NoneBelieves',
         Undisturbed(f) => /\ to # "naming"
                           /\ svc' # Nobody => kind'[svc'] = "proxy"
                           /\ held'[f] # Nobody => kind'[held'[f]] = "proxy"
  PROVE  FlowInv'
<1>1. /\ pc' \in [Calls -> FlowPCs] /\ pc'[f] = to
      /\ \A d \in Calls : d # f => pc'[d] = pc[d] /\ thr'[d] = thr[d]
      /\ Running' = Running /\ f \in Running
  BY FlowConstants DEF FlowInv, FlowTypes, Go, Running
<1>2. FlowTypes'
  BY <1>1 DEF FlowInv, FlowTypes
<1>3. Shapes'
  <2>1. ASSUME NEW g \in Flows PROVE FlowShape(g)'
    <3>1. CASE g = f
      BY <1>1, <3>1 DEF FlowInv, Shapes, FlowShape
    <3>2. CASE g # f
      BY <1>1, <3>2, FlowConstants DEF FlowInv, Shapes, FlowShape, ProxiesKept
    <3> QED BY <3>1, <3>2
  <2>2. \A c \in Calls : thr'[c] # "none" => pc'[c] \in {"idle", "loading"}
    BY <1>1 DEF FlowInv, Shapes
  <2> QED BY <1>1, <2>1, <2>2 DEF Shapes
<1>4. BeliefsTrue'
  BY <1>2, BeliefsKept DEF FlowTypes
<1>5. KnownUnlessPulled'
  <2>1. Returned => Returned'
    BY <1>1 DEF Returned, Svc
  <2> QED BY <2>1, TrackKept
<1>6. ASSUME NEW g \in Running' \ overlaps' PROVE Undisturbed(g)'
  <2>1. Running' = {g} /\ g \notin overlaps
    BY AloneNow
  <2>2. g = f /\ Undisturbed(f)
    BY <1>1, <2>1 DEF FlowInv
  <2> QED BY <1>1, <2>1, <2>2 DEF Undisturbed
<1> QED BY <1>2, <1>3, <1>4, <1>5, <1>6 DEF FlowInv

\* get_service.
LEMMA GettingKeeps ==
  ASSUME FlowInv, Remember, NEW f \in Flows,
         GetService(f) \/ MakeService(f) \/ ReturnService(f)
  PROVE  FlowInv'
<1> USE DEF Stays, coreVars, threadVars, gpuVars, objVars
<1>0. /\ Pool /\ pc[f] # "idle" /\ thr[f] = "none"
      /\ used \in [Services -> Nat]
  BY DEF FlowInv, Shapes, FlowShape, FlowTypes, GetService, MakeService, ReturnService
<1>1. CASE GetService(f)
  <2> DEFINE to == IF svc # Nobody THEN "returning" ELSE IF core THEN "proxying" ELSE "naming"
  <2>1. to \in FlowPCs \ {"idle", "loading", "swapping"}
    BY DEF FlowPCs
  <2>2. Go(f, to) /\ UNCHANGED <<loaded, req, core, svc, held, kind, nloaded, used, thr>>
    BY <1>1 DEF GetService
  <2>3. Undisturbed(f) => to # "naming"
    BY DEF Undisturbed
  <2> HIDE DEF to
  <2>4. Pool' /\ (NoneBelieves => NoneBelieves')
    BY <1>0, <2>1, <2>2, FlowConstants DEF FlowInv, FlowTypes, Pool, NoneBelieves, Go
  <2> QED BY <1>0, <2>1, <2>2, <2>3, <2>4, OwnStepKeeps DEF Undisturbed, ProxiesKept
<1>2. CASE MakeService(f)
  <2> DEFINE made == CASE pc[f] = "naming" -> "bare"
                       [] pc[f] = "proxying" /\ core -> "proxy"
                       [] OTHER -> "hollow"
             kinds == [kind EXCEPT ![Fresh] = made]
  <2>1. Fresh \in Objects /\ kind[Fresh] = "none"
    BY <1>0, FreshIsNew
  <2>2. /\ pc[f] \in {"proxying", "naming"}
        /\ Rebind(f, Fresh, held[f], kinds)
        /\ Go(f, "returning") /\ UNCHANGED <<loaded, req, core, used, thr>>
    BY <1>2 DEF MakeService
  <2>3. /\ made \in {"proxy", "hollow", "bare"}
        /\ pc[f] = "proxying" /\ core => made = "proxy"
    BY <2>2
  <2> HIDE DEF made
  <2>4. /\ kinds \in [Objects -> {"none", "proxy", "hollow", "bare"}]
        /\ \A o \in Objects : nloaded[o] => kinds[o] = "proxy"
        /\ \A o \in Objects : kind[o] = "proxy" => kinds[o] = "proxy"
        /\ kinds[Fresh] = made /\ \A o \in Objects \ {Fresh} : kinds[o] = kind[o]
    BY <1>0, <2>1, <2>3 DEF Pool
  <2> HIDE DEF kinds
  <2>5. /\ Pool' /\ svc' = Fresh /\ held' = [held EXCEPT ![f] = held[f]]
        /\ \A o \in Objects : o \in {Fresh, held[f]} => kind'[o] = kinds[o]
        /\ \A o \in Objects : nloaded'[o] => nloaded[o]
        /\ ProxiesKept(f)
    <3>1. held[f] \in Objects \cup {Nobody} /\ core' \in BOOLEAN
      BY <1>0, <2>2 DEF Pool
    <3> QED BY <1>0, <2>1, <2>2, <2>4, <3>1, RebindKeepsPool
  <2>6. NoneBelieves => NoneBelieves'
    BY <2>2, <2>5, FlowConstants DEF FlowInv, FlowTypes, NoneBelieves, Go
  <2>7. held' = held /\ held[f] \in Objects \cup {Nobody}
    BY <1>0, <2>5 DEF Pool
  <2>8. Undisturbed(f) => /\ kind'[svc'] = "proxy"
                          /\ held'[f] # Nobody => kind'[held'[f]] = "proxy"
    <3>1. SUFFICES ASSUME Undisturbed(f)
                   PROVE  /\ kind'[svc'] = "proxy"
                          /\ held'[f] # Nobody => kind'[held'[f]] = "proxy"
      OBVIOUS
    <3>2. made = "proxy"
      BY <2>2, <2>3, <3>1 DEF Undisturbed
    <3> QED BY <2>1, <2>4, <2>5, <2>7, <3>1, <3>2 DEF Undisturbed
  <2>9. "returning" \in FlowPCs
    BY DEF FlowPCs
  <2> QED BY <1>0, <2>2, <2>5, <2>6, <2>7, <2>8, <2>9, OwnStepKeeps
<1>3. CASE ReturnService(f)
  <2> DEFINE to == IF svc = Nobody THEN "failed" ELSE "ready"
  <2>1. /\ pc[f] = "returning" /\ Rebind(f, svc, svc, kind)
        /\ Go(f, to) /\ UNCHANGED <<loaded, req, core, used, thr>>
    BY <1>3 DEF ReturnService
  <2>2. to \in FlowPCs \ {"idle", "loading", "swapping", "naming"}
    BY DEF FlowPCs, PCs
  <2> HIDE DEF to
  <2>3. /\ Pool' /\ svc' = svc /\ held' = [held EXCEPT ![f] = svc]
        /\ \A o \in Objects : o = svc => kind'[o] = kind[o]
        /\ \A o \in Objects : nloaded'[o] => nloaded[o]
        /\ ProxiesKept(f)
    <3>1. /\ svc \in Objects \cup {Nobody} /\ core' \in BOOLEAN
          /\ kind \in [Objects -> {"none", "proxy", "hollow", "bare"}]
          /\ \A o \in Objects : nloaded[o] => kind[o] = "proxy"
      BY <1>0, <2>1 DEF Pool
    <3> QED BY <1>0, <2>1, <3>1, RebindKeepsPool
  <2>4. NoneBelieves => NoneBelieves'
    BY <2>1, <2>2, <2>3, FlowConstants DEF FlowInv, FlowTypes, NoneBelieves, Go
  <2>5. held'[f] = svc /\ \A g \in Flows \ {f} : held'[g] = held[g]
    BY <1>0, <2>3 DEF Pool
  <2>6. Undisturbed(f) /\ svc # Nobody => kind'[svc] = "proxy"
    BY <1>0, <2>3 DEF Undisturbed, Pool
  <2> QED BY <1>0, <2>1, <2>2, <2>3, <2>4, <2>5, <2>6, OwnStepKeeps
<1> QED BY <1>1, <1>2, <1>3

\* ForgeProxy.load, without the steps of _do_load.
LEMMA LoadingKeeps ==
  ASSUME FlowInv, Remember, NEW f \in Flows,
         Load(f) \/ FirstLoaded(f) \/ Swapped(f) \/ SwapBooked(f) \/ SwapRaises(f)
  PROVE  FlowInv'
<1> USE DEF Stays, coreVars, threadVars, gpuVars, objVars
<1>0. /\ Pool /\ FlowShape(f) /\ pc[f] # "idle"
      /\ thr \in [Calls -> {"none", "queued", "running", "returned", "ok", "failed"}]
      /\ pc \in [Calls -> FlowPCs] /\ used \in [Services -> Nat] /\ f \in Calls
  BY FlowConstants DEF FlowInv, Shapes, FlowTypes, Load, FirstLoaded, Swapped, SwapBooked,
     SwapRaises
<1>1. CASE Load(f)
  <2>1. PICK to \in {"failed", "ready", "loading", "swapping"} :
          /\ Go(f, to) /\ held[f] # Nobody
          /\ to = "loading" => thr' = [thr EXCEPT ![f] = "queued"]
          /\ to # "loading" => thr' = thr
          /\ to = "loading" => kind[held[f]] = "proxy"
          /\ to = "swapping" => nloaded[held[f]]
          /\ pc[f] = "ready"
          /\ UNCHANGED <<loaded, req, core, svc, held, kind, nloaded, used>>
    BY <1>1 DEF Load
  <2>2. to \in FlowPCs \ {"idle", "naming"} /\ thr[f] = "none"
    BY <1>0, <2>1 DEF FlowPCs, PCs, FlowShape
  <2>3. Pool'
    BY <1>0, <2>1 DEF Pool
  <2>4. NoneBelieves => NoneBelieves'
    BY <1>0, <2>1, FlowConstants DEF NoneBelieves, Go, Pool
  <2> QED BY <1>0, <2>1, <2>2, <2>3, <2>4, OwnStepKeeps DEF Undisturbed, ProxiesKept
<1>2. CASE FirstLoaded(f)
  <2>1. PICK to \in {"failed", "ready"} :
          /\ Go(f, to) /\ thr' = [thr EXCEPT ![f] = "none"] /\ thr[f] \in {"ok", "failed"}
          /\ nloaded' = [nloaded EXCEPT ![held[f]] = thr[f] = "ok" \/ @]
          /\ pc[f] = "loading"
          /\ UNCHANGED <<loaded, req, core, svc, held, kind, used>>
    BY <1>2 DEF FirstLoaded
  <2>2. to \in FlowPCs \ {"idle", "naming", "loading", "swapping"}
    BY DEF FlowPCs, PCs
  <2>3. held[f] \in Objects
    BY <1>0, <2>1 DEF Pool, FlowShape
  <2>4. Pool'
    <3>1. kind[held[f]] = "proxy"
      BY <1>0, <2>1 DEF FlowShape
    <3> QED BY <1>0, <2>1, <2>3, <3>1 DEF Pool
  <2>5. NoneBelieves => NoneBelieves'
    BY <1>0, <2>1, <2>2, <2>3, FlowConstants DEF NoneBelieves, Go, Pool
  <2>6. thr'[f] = "none"
    BY <1>0, <2>1
  <2> QED BY <1>0, <2>1, <2>2, <2>4, <2>5, <2>6, OwnStepKeeps DEF Undisturbed, ProxiesKept
<1>3. CASE Swapped(f) \/ SwapBooked(f) \/ SwapRaises(f)
  <2>1. PICK to \in {"swapped", "ready", "failed"} :
          /\ Go(f, to) /\ thr' = thr
          /\ pc[f] \in {"swapping", "swapped"}
          /\ used' = used \/ pc[f] = "swapping"
          /\ UNCHANGED <<loaded, req, core, svc, held, kind, nloaded>>
    BY <1>3 DEF Swapped, SwapBooked, SwapRaises
  <2>2. to \in FlowPCs \ {"idle", "naming", "loading", "swapping"} /\ thr[f] = "none"
    BY <1>0, <2>1 DEF FlowPCs, PCs, FlowShape
  <2>3. used' \in [Services -> Nat]
    BY <1>0, <1>3, FlowConstants, ForgeConstants DEF Swapped, SwapBooked, SwapRaises
  <2>4. Pool' /\ (NoneBelieves => NoneBelieves')
    BY <1>0, <2>1, <2>2, FlowConstants DEF NoneBelieves, Go, Pool
  <2> QED BY <1>0, <2>1, <2>2, <2>3, <2>4, OwnStepKeeps DEF Undisturbed, ProxiesKept
<1> QED BY <1>1, <1>2, <1>3

\* run_pipeline itself: the globals change under whoever else runs.
LEMMA StartEndKeeps ==
  ASSUME FlowInv, Remember, NEW f \in Flows, Start(f) \/ End(f)
  PROVE  FlowInv'
<1> USE DEF coreVars, threadVars, gpuVars
<1>0. /\ Pool /\ Shapes /\ f \in Calls /\ thr[f] = "none" /\ FlowTypes
      /\ \A g \in Flows : FlowShape(g)
  BY FlowConstants DEF FlowInv, Shapes, FlowShape, Start, End
<1>1. /\ Rebind(f, Nobody, Nobody, kind) /\ core' \in BOOLEAN
      /\ UNCHANGED <<loaded, used, thr>>
  BY DEF Start, End
<1>2. PICK to \in {"ready", "idle"} :
        /\ Go(f, to)
        /\ req' = [req EXCEPT ![f] = IF to = "ready" THEN Pipeline ELSE NoRequest]
        /\ to = "ready" => core'
        /\ to = "idle" => pc[f] # "idle"
  BY DEF Start, End
<1>3. /\ Pool' /\ svc' = Nobody /\ held' = [held EXCEPT ![f] = Nobody]
      /\ \A o \in Objects : nloaded'[o] => nloaded[o]
      /\ ProxiesKept(f)
  <2>1. /\ kind \in [Objects -> {"none", "proxy", "hollow", "bare"}]
        /\ \A o \in Objects : nloaded[o] => kind[o] = "proxy"
    BY <1>0 DEF Pool
  <2> QED BY <1>0, <1>1, <2>1, RebindKeepsPool
<1>4. /\ pc' \in [Calls -> FlowPCs] /\ pc'[f] = to
      /\ \A d \in Calls : d # f => pc'[d] = pc[d] /\ req'[d] = req[d]
      /\ to = "ready" => req'[f] = Pipeline
      /\ held'[f] = Nobody /\ \A g \in Flows : g # f => held'[g] = held[g]
  <2>1. to \in FlowPCs
    BY DEF FlowPCs, PCs
  <2> QED BY <1>0, <1>2, <1>3, <2>1 DEF FlowTypes, Go, Pool
<1>5. FlowTypes'
  BY <1>0, <1>1, <1>2, <1>4 DEF FlowTypes
<1>6. Shapes'
  <2>1. ASSUME NEW g \in Flows PROVE FlowShape(g)'
    <3>1. CASE g = f
      BY <1>0, <1>1, <1>4, <3>1 DEF FlowShape
    <3>2. CASE g # f
      BY <1>0, <1>1, <1>3, <1>4, <3>2, FlowConstants DEF FlowShape, ProxiesKept
    <3> QED BY <3>1, <3>2
  <2>2. \A c \in Calls : thr'[c] # "none" => pc'[c] \in {"idle", "loading"}
    BY <1>0, <1>1, <1>4 DEF Shapes
  <2> QED BY <1>3, <2>1, <2>2 DEF Shapes
<1>7. BeliefsTrue'
  <2>1. NoneBelieves => NoneBelieves'
    BY <1>1, <1>3, <1>4, FlowConstants DEF NoneBelieves
  <2> QED BY <1>5, <2>1, BeliefsKept DEF FlowTypes
<1>8. KnownUnlessPulled'
  <2>1. Returned => Returned'
    BY <1>0, <1>1, <1>4 DEF Returned, Svc
  <2> QED BY <1>1, <2>1, TrackKept
<1>9. ASSUME NEW g \in Running' \ overlaps' PROVE Undisturbed(g)'
  <2>1. Running' = {g} /\ g \notin overlaps /\ g \in Flows
    BY AloneNow DEF Running
  <2>2. CASE g = f
    <3>1. to = "ready"
      BY <1>4, <2>2 DEF Running
    <3> QED BY <1>2, <1>3, <1>4, <2>1, <2>2, <3>1 DEF Undisturbed
  <2>3. CASE g # f
    <3>1. g \in Running \ overlaps
      BY <1>4, <2>1, <2>3, FlowConstants DEF Running
    <3>2. Running = {g}
      BY <3>1 DEF FlowInv, Undisturbed
    <3>3. to = "ready" => f \in Running'
      BY <1>4 DEF Running
    <3>4. to = "idle" => f \in Running
      BY <1>2 DEF Running
    <3> QED BY <2>1, <2>3, <3>2, <3>3, <3>4
  <2> QED BY <2>2, <2>3
<1> QED BY <1>3, <1>5, <1>6, <1>7, <1>8, <1>9 DEF FlowInv

LEMMA FlowInvNext == FlowInv /\ [FlowNext]_allVars => FlowInv'
<1> SUFFICES ASSUME FlowInv, [FlowNext]_allVars PROVE FlowInv'
  OBVIOUS
<1>1. ASSUME NEW c \in Clients, ClientStep(c), Remember PROVE FlowInv'
  BY <1>1, ClientsKeep DEF ClientStep, ForgeStep, Clients
<1>2. ASSUME NEW f \in Flows, FlowStep(f), Remember PROVE FlowInv'
  <2>1. CASE CoreStep(f)
    <3>1. /\ thr[f] \in {"queued", "running", "returned"}
          /\ ForgeStep(f) /\ CoreThread(f) /\ UNCHANGED objVars /\ f \in Calls
      BY <2>1, FlowConstants
      DEF CoreStep, CoreThread, ForgeStep, ThreadStep, LoadEnds, Reserve, MarkLoaded,
          LoadReturns, LoadRaises
    <3> QED BY <1>2, <3>1, ClientsKeep
  <2> QED BY <1>2, <2>1, StartEndKeeps, GettingKeeps, LoadingKeeps DEF FlowStep
<1>3. ASSUME Surroundings, Remember PROVE FlowInv'
  <2>1. UNCHANGED <<loaded, used, pc, thr, req, objVars>>
    BY <1>3 DEF Surroundings, Status, DriverFrees, coreVars, threadVars, gpuVars, objVars
  <2>2. Running' = Running /\ FlowTypes' /\ Pool' /\ (NoneBelieves => NoneBelieves')
    BY <2>1 DEF Running, FlowInv, FlowTypes, Pool, NoneBelieves, objVars
  <2>3. Shapes'
    BY <2>1, <2>2 DEF FlowInv, Shapes, FlowShape, objVars
  <2>4. BeliefsTrue'
    BY <1>3, <2>2, BeliefsKept DEF FlowTypes
  <2>5. KnownUnlessPulled'
    <3>1. Returned' = Returned
      BY <2>1 DEF Returned, Svc
    <3> QED BY <1>3, <2>1, <3>1, TrackKept
  <2>6. \A f \in Running' \ overlaps' : Undisturbed(f)'
    BY <1>3, <2>1, <2>2, AloneNow DEF FlowInv, Undisturbed, objVars
  <2> QED BY <2>2, <2>3, <2>4, <2>5, <2>6 DEF FlowInv
<1>4. CASE UNCHANGED allVars
  BY <1>4 DEF allVars, vars, coreVars, threadVars, gpuVars, objVars, history, FlowInv,
    FlowTypes, Pool, Shapes, FlowShape, Running, BeliefsTrue, NoneBelieves,
    KnownUnlessPulled, Undisturbed, Svc
<1> QED BY <1>1, <1>2, <1>3, <1>4 DEF FlowNext

LEMMA FlowInvAlways == FlowSpec => []FlowInv
BY FlowInvInit, FlowInvNext, PTL DEF FlowSpec

\* What pipelines put on the GPU through a proxy (load of services/forge_proxy.py)
\* belongs to a service the Forge has in _loaded, unless a request has unloaded
\* native under a running one; what the ledger books for it is not claimed. No
\* lock is assumed, nor that the clients behave: it follows from how the proxies
\* learn that native is loaded.
THEOREM KnownUnlessPulledHolds == FlowSpec => []KnownUnlessPulled
<1>1. FlowInv => KnownUnlessPulled
  BY DEF FlowInv
<1> QED BY <1>1, FlowInvAlways, PTL

\* A pipeline beside which no other ran gets its services from the core it has
\* set (get_service of services/workflows/base.py), whatever else the Forge does.
THEOREM AloneIsProxiedHolds == FlowSpec => []AloneIsProxied
<1>1. FlowInv => AloneIsProxied
  BY DEF FlowInv, Undisturbed, AloneIsProxied
<1> QED BY <1>1, FlowInvAlways, PTL
=============================================================================
