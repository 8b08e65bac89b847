------------------------- MODULE ForgeLedgerProofs -------------------------
(***************************************************************************)
(* The ledger of the Forge adds up, and says what the GPU holds, for every *)
(* set of services, every VRAM budget and any number of requests, when     *)
(* nothing blurs it: no unlocked operation, no service that measures or    *)
(* switches its models, a driver that frees in time, and no service small  *)
(* enough to hide in the tolerance of _do_unload.                          *)
(***************************************************************************)
EXTENDS ForgeProofs

\* An amount the polling loop of _do_unload cannot mistake for slack.
Sizeable(m) == m = 0 \/ m > Slack

ClearLedger ==
  /\ EverythingLocked
  /\ ~StatusPolled /\ ~SlowDriver
  /\ Measured = {} /\ Switching = {}
  /\ \A s \in Services : \A m \in Footprint[s] : Sizeable(m)

InFlight == {"running", "returned"}

\* What the ledger and the GPU say of one service: memory that belongs to no
\* loaded service belongs to a load in flight or is being given back.
LedgerRow(s) ==
  /\ loaded[s] => alloc[s] \in {used[s], used[s] + Foreign}
  /\ ~loaded[s] /\ alloc[s] > 0 =>
       \E c \in Calls : thr[c] \in InFlight /\ Svc(c) = s
  /\ ~loaded[s] /\ used[s] > 0 =>
       \E c \in Calls : thr[c] = "returned" /\ Svc(c) = s
  /\ drain[s] > 0 => \E c \in Calls : pc[c] = "settling" /\ loc[c].victim = s
  /\ Sizeable(used[s]) /\ Sizeable(drain[s])

\* What a call's variables say of them.
LedgerCall(c) ==
  /\ thr[c] \in InFlight \cup {"queued"} => ~loaded[Svc(c)]
  /\ thr[c] \in InFlight => est[c] = alloc[Svc(c)]
  /\ Op(c) = "preload" /\ pc[c] \in {"unload", "clean", "admit", "evict", "ready",
                                     "freeing", "settling"} => ~loaded[Svc(c)]
  /\ pc[c] = "freeing" => loc[c].mark = RealFree
  /\ pc[c] = "settling" =>
       loc[c].mark - (RealFree + drain[loc[c].victim]) \in {0, Foreign}

\* The foreign memory is charged once.
OneSurcharge ==
  \A s, t \in Services :
    loaded[s] /\ loaded[t] /\ alloc[s] # used[s] /\ alloc[t] # used[t] => s = t

LedgerInv ==
  /\ ExclusiveInv
  /\ LedgerConserved
  /\ OneSurcharge
  /\ \A s \in Services : LedgerRow(s)
  /\ \A c \in Calls : LedgerCall(c)

-----------------------------------------------------------------------------
(* Consequences of the invariant.                                          *)

\* The others and the one.
LEMMA TotalSplits ==
  ASSUME NEW f, \A s \in Services : f[s] \in Nat, NEW v \in Services
  PROVE  Total(f, Services) = Total(f, Services \ {v}) + f[v]
<1> DEFINE R == Services \ {v}
<1>1. /\ IsFiniteSet(R) /\ IsFiniteSet({v}) /\ R \cap {v} = {}
      /\ Services = R \cup {v}
  BY ConstantTypes, FS_Subset, FS_Singleton
<1>2. Total(f, R \cup {v}) = Total(f, R) + Total(f, {v})
  BY <1>1, TotalUnion
<1>3. Blocks(f, {v}) = BlocksOf(f, v)
  BY DEF Blocks
<1>4. Total(f, {v}) = f[v]
  BY <1>3, BlocksOfOne DEF Total
<1> QED BY <1>1, <1>2, <1>4

\* Types, and who can be busy.
LEMMA LedgerTypes ==
  ASSUME LedgerInv
  PROVE  /\ TypeOK /\ LockInv
         /\ \A c \in Calls : CallShape(c) /\ Behaves(c) /\ Exclusive(c)
         /\ Total(used, Services) \in Nat /\ Total(drain, Services) \in Nat
         /\ Allocated \in Nat /\ free \in Int /\ RealFree \in Int
<1>1. TypeOK /\ LockInv
  BY DEF LedgerInv, ExclusiveInv, LockInv, TypeInv
<1>2. \A c \in Calls : CallShape(c) /\ Behaves(c) /\ Exclusive(c)
  BY DEF LedgerInv, ExclusiveInv, LockInv, TypeInv
<1> QED BY <1>1, <1>2, TotalTypes, RealTypes DEF TypeOK

\* Beside a call that holds the lock, nobody has a thread or unloads anything.
LEMMA OthersQuiet ==
  ASSUME LedgerInv, NEW c \in Calls, pc[c] \notin {"idle", "begin"},
         NEW d \in Calls, d # c
  PROVE  pc[d] \in {"idle", "begin"} /\ thr[d] = "none"
<1>1. pc[d] \in {"idle", "begin"}
  BY OthersParked, LedgerTypes
<1> QED BY <1>1, LedgerTypes DEF Behaves

\* A call that enters finds all calls, itself included, at rest.
LEMMA EntersAlone ==
  ASSUME ClearLedger, LedgerInv, NEW c \in Calls, Enter(c), NEW d \in Calls
  PROVE  pc[d] \in {"idle", "begin"} /\ thr[d] = "none"
<1>1. pc[c] = "begin" /\ Op(c) \in LockedOps
  BY LedgerTypes DEF Enter, CallShape, ClearLedger, EverythingLocked, Op
<1>2. holder = Nobody
  BY <1>1 DEF Enter
<1> QED BY <1>2, NobodyIsNoCall, LedgerTypes DEF Behaves

\* The driver has nothing left to free unless some call waits for it.
LEMMA NothingDrains ==
  ASSUME LedgerInv, \A c \in Calls : pc[c] # "settling"
  PROVE  /\ \A s \in Services : drain[s] = 0
         /\ Total(drain, Services) = 0
<1>1. \A s \in Services : drain[s] = 0
  BY LedgerTypes DEF LedgerInv, LedgerRow, TypeOK
<1> QED BY <1>1, TotalZero

\* Without a load in flight there is no stale reservation to clean up.
LEMMA CleanupFindsNothing ==
  ASSUME LedgerInv, CleanupStale, \A c \in Calls : thr[c] \notin InFlight
  PROVE  alloc' = alloc /\ free' = free
<1>1. \A s \in Stale : alloc[s] = 0
  BY LedgerTypes DEF LedgerInv, LedgerRow, TypeOK, Stale
<1>2. Total(alloc, Stale) = 0
  BY <1>1, TotalZero
<1>3. alloc \in [Services -> Nat]
  BY LedgerTypes DEF TypeOK
<1> QED BY <1>1, <1>2, <1>3, LedgerTypes DEF CleanupStale

-----------------------------------------------------------------------------
(* Steps.                                                                  *)

\* A step of a call that has no load in flight and waits for no driver, and
\* that moves no memory.
LEMMA QuietStep ==
  ASSUME LedgerInv, ExclusiveInv', NEW c \in Calls,
         UNCHANGED <<loaded, alloc, free, used, drain, est>>,
         thr[c] \notin InFlight, pc[c] # "settling", LedgerCall(c)',
         \A d \in Calls \ {c} : /\ pc'[d] = pc[d] /\ thr'[d] = thr[d]
                                /\ req'[d] = req[d] /\ loc'[d] = loc[d]
  PROVE  LedgerInv'
<1>1. LedgerConserved'
  BY DEF LedgerInv, LedgerConserved, Allocated
<1>2. RealFree' = RealFree
  BY DEF RealFree, RealUsed
<1>3. ASSUME NEW s \in Services PROVE LedgerRow(s)'
  BY <1>3 DEF LedgerInv, LedgerRow, Svc, InFlight, Sizeable
<1>4. ASSUME NEW d \in Calls, d # c PROVE LedgerCall(d)'
  BY <1>2, <1>4 DEF LedgerInv, LedgerCall, Svc, Op
<1>5. OneSurcharge'
  BY DEF LedgerInv, OneSurcharge
<1> QED BY <1>1, <1>3, <1>4, <1>5 DEF LedgerInv

\* Where neither memory nor a load is at stake, a call claims nothing.
LEMMA ClaimsNothing ==
  ASSUME NEW c \in Calls, thr'[c] \notin InFlight \cup {"queued"},
         pc'[c] \notin {"unload", "clean", "admit", "evict", "ready", "freeing",
                     "settling"}
  PROVE  LedgerCall(c)'
BY DEF LedgerCall

\* A step that brings a call to such a place.
LEMMA RestingStep ==
  ASSUME LedgerInv, ExclusiveInv', NEW c \in Calls,
         UNCHANGED <<loaded, alloc, free, used, drain, est>>,
         thr[c] \notin InFlight, pc[c] # "settling",
         thr'[c] \notin InFlight \cup {"queued"},
         pc'[c] \notin {"unload", "clean", "admit", "evict", "ready", "freeing",
                     "settling"},
         \A d \in Calls \ {c} : /\ pc'[d] = pc[d] /\ thr'[d] = thr[d]
                                /\ req'[d] = req[d] /\ loc'[d] = loc[d]
  PROVE  LedgerInv'
<1>1. LedgerCall(c)'
  BY ClaimsNothing
<1> QED BY <1>1, QuietStep

LEMMA LedgerInit == ClearLedger /\ Init => LedgerInv
<1> SUFFICES ASSUME ClearLedger, Init PROVE LedgerInv
  OBVIOUS
<1>1. ExclusiveInv
  BY ExclusiveInit
<1>2. Allocated = 0
  BY TotalZero DEF Init, Allocated
<1>3. LedgerConserved
  BY <1>2, ConstantTypes DEF Init, LedgerConserved
<1>4. ASSUME NEW s \in Services PROVE LedgerRow(s)
  BY <1>4 DEF Init, LedgerRow, Sizeable
<1>5. ASSUME NEW c \in Calls PROVE LedgerCall(c)
  BY <1>5 DEF Init, LedgerCall, InFlight
<1>6. OneSurcharge
  BY DEF Init, OneSurcharge
<1> QED BY <1>1, <1>3, <1>4, <1>5, <1>6 DEF LedgerInv

\* The handlers up to their first await.
LEMMA BeginKeepsLedger ==
  ASSUME ClearLedger, LedgerInv, ExclusiveInv', NEW c \in Calls,
         \/ Submit(c) \/ InvokeBegin(c) \/ PreloadLoaded(c) \/ PreloadBegin(c)
         \/ ReleaseBegin(c)
  PROVE  LedgerInv'
<1> USE DEF Go, Continue, Await, coreVars, threadVars, gpuVars
<1>0. /\ TypeOK
      /\ \A d \in Calls : Enter(c) =>
           pc[d] \in {"idle", "begin"} /\ thr[d] = "none" /\ thr[d] \notin InFlight
  BY LedgerTypes, EntersAlone DEF InFlight
<1>1. CASE Submit(c)
  BY <1>0, <1>1, RestingStep DEF Submit, TypeOK, InFlight
<1>2. CASE InvokeBegin(c)
  <2>1. /\ thr' = thr /\ req' = req /\ \A d \in Calls \ {c} : loc'[d] = loc[d]
        /\ \A d \in Calls \ {c} : pc'[d] = pc[d]
        /\ pc'[c] \in {"unload", "infer", "clean"} /\ Enter(c) /\ Op(c) = "invoke"
        /\ UNCHANGED <<loaded, alloc, free, used, drain, est>>
    BY <1>0, <1>2 DEF InvokeBegin, TypeOK
  <2>2. thr[c] \notin InFlight \cup {"queued"} /\ pc[c] # "settling"
    BY <1>0, <2>1
  <2>3. LedgerCall(c)'
    BY <2>1, <2>2 DEF LedgerCall, Op
  <2> QED BY <2>1, <2>2, <2>3, QuietStep
<1>3. CASE PreloadLoaded(c)
  <2>1. /\ thr' = thr /\ pc'[c] = "idle" /\ Enter(c)
        /\ \A d \in Calls \ {c} : pc'[d] = pc[d] /\ req'[d] = req[d] /\ loc'[d] = loc[d]
        /\ UNCHANGED <<loaded, alloc, free, used, drain, est>>
    BY <1>0, <1>3 DEF PreloadLoaded, Finish, TypeOK
  <2>2. thr[c] \notin InFlight \cup {"queued"} /\ pc[c] # "settling"
    BY <1>0, <2>1
  <2> QED BY <2>1, <2>2, RestingStep
<1>4. CASE PreloadBegin(c)
  <2>1. /\ thr' = thr /\ req' = req /\ loc' = loc /\ pc'[c] = "admit" /\ Enter(c)
        /\ \A d \in Calls \ {c} : pc'[d] = pc[d]
        /\ UNCHANGED <<loaded, used, drain, est>> /\ CleanupStale /\ ~loaded[Svc(c)]
    BY <1>0, <1>4 DEF PreloadBegin, TypeOK
  <2>2. /\ thr[c] \notin InFlight \cup {"queued"} /\ pc[c] # "settling"
        /\ \A d \in Calls : thr[d] \notin InFlight
    BY <1>0, <2>1
  <2>3. UNCHANGED <<alloc, free>>
    BY <2>1, <2>2, CleanupFindsNothing
  <2>4. LedgerCall(c)'
    BY <2>1, <2>2 DEF LedgerCall, Svc
  <2> QED BY <2>1, <2>2, <2>3, <2>4, QuietStep
<1>5. CASE ReleaseBegin(c)
  <2>1. /\ thr' = thr /\ req' = req /\ pc'[c] = "unload" /\ Enter(c)
        /\ Op(c) # "preload"
        /\ \A d \in Calls \ {c} : pc'[d] = pc[d] /\ loc'[d] = loc[d]
        /\ UNCHANGED <<loaded, used, drain, est>> /\ CleanupStale
    BY <1>0, <1>5 DEF ReleaseBegin, TypeOK
  <2>2. /\ thr[c] \notin InFlight \cup {"queued"} /\ pc[c] # "settling"
        /\ \A d \in Calls : thr[d] \notin InFlight
    BY <1>0, <2>1
  <2>3. UNCHANGED <<alloc, free>>
    BY <2>1, <2>2, CleanupFindsNothing
  <2>4. LedgerCall(c)'
    BY <2>1, <2>2 DEF LedgerCall, Op
  <2> QED BY <2>1, <2>2, <2>3, <2>4, QuietStep
<1> QED BY <1>1, <1>2, <1>3, <1>4, <1>5

\* The handlers between the unloads and the load.
LEMMA AdmissionKeepsLedger ==
  ASSUME ClearLedger, LedgerInv, ExclusiveInv', NEW c \in Calls,
         \/ GpuNotReady(c) \/ GpuReady(c) \/ Clean(c) \/ Admit(c)
         \/ EvictDone(c)
  PROVE  LedgerInv'
<1> USE DEF Go, Continue, Await, coreVars, threadVars, gpuVars, Op, Svc
<1>0. /\ TypeOK /\ CallShape(c) /\ Behaves(c) /\ Exclusive(c) /\ LedgerCall(c)
      /\ pc[c] \in {"gpuwait", "clean", "admit", "evict", "ready"}
  BY LedgerTypes DEF GpuNotReady, GpuReady, Clean, Admit, EvictDone, EvictOver,
                     LedgerInv
<1>1. thr[c] = "none" /\ Op(c) \in Loads
  BY <1>0 DEF Behaves, CallShape, LoadPCs, TypeOK
<1>2. /\ \A d \in Calls : thr[d] \notin InFlight
      /\ \A d \in Calls \ {c} : thr[d] = "none"
  BY <1>0, <1>1, OthersQuiet DEF InFlight
<1>3. /\ \A d \in Calls \ {c} : /\ pc'[d] = pc[d] /\ thr'[d] = thr[d]
                                /\ req'[d] = req[d] /\ loc'[d] = loc[d]
      /\ UNCHANGED <<loaded, used, drain, est, req>>
  BY <1>0 DEF GpuNotReady, GpuReady, Clean, Admit, EvictDone, TypeOK
<1>4. UNCHANGED <<alloc, free>>
  <2>1. CASE Clean(c)
    BY <1>2, <2>1, CleanupFindsNothing DEF Clean
  <2> QED BY <2>1 DEF GpuNotReady, GpuReady, Admit, EvictDone
<1>5. Svc(c) \in Services
  BY <1>0, <1>1, LoadsNameServices DEF CallShape
<1>6. pc[c] \in {"clean", "admit", "evict", "ready"} => ~loaded[Svc(c)]
  BY <1>0, <1>1, <1>5 DEF Exclusive, LedgerCall, Loads, Loaded
<1>7. LedgerCall(c)'
  <2>1. /\ pc'[c] \in {"gpuwait", "infer", "clean", "admit", "evict", "ready", "loading"}
        /\ thr'[c] \in {"none", "queued"}
        /\ thr'[c] = "queued" => pc[c] = "ready"
        /\ pc[c] = "gpuwait" => pc'[c] \in {"gpuwait", "infer", "clean"}
    BY <1>0, <1>1 DEF GpuNotReady, GpuReady, Clean, Admit, EvictDone, EvictOver, TypeOK
  <2>2. pc[c] = "gpuwait" => Op(c) # "preload"
    BY <1>0 DEF Exclusive
  <2>3. /\ thr'[c] = "queued" => ~loaded[Svc(c)]
        /\ Op(c) = "preload" /\ pc'[c] \in {"clean", "admit", "evict", "ready"}
             => ~loaded[Svc(c)]
    BY <1>0, <1>6, <2>1, <2>2
  <2>4. thr'[c] \notin InFlight /\ pc'[c] \notin {"unload", "freeing", "settling"}
    BY <2>1 DEF InFlight
  <2> QED BY <1>3, <2>3, <2>4 DEF LedgerCall
<1> QED BY <1>0, <1>2, <1>3, <1>4, <1>7, QuietStep

\* The loops that hand services to _do_unload.
LEMMA UnloadLoopKeepsLedger ==
  ASSUME ClearLedger, LedgerInv, ExclusiveInv', NEW c \in Calls,
         UnloadNext(c) \/ UnloadsDone(c) \/ EvictNext(c)
  PROVE  LedgerInv'
<1> USE DEF Go, Continue, Await, coreVars, threadVars, gpuVars, Op, Svc
<1>0. /\ TypeOK /\ Behaves(c) /\ Exclusive(c) /\ LedgerCall(c)
      /\ pc[c] \in {"unload", "evict"}
  BY LedgerTypes DEF UnloadNext, UnloadsDone, EvictNext, LedgerInv
<1>1. thr[c] = "none" /\ thr[c] \notin InFlight
  BY <1>0 DEF Behaves, TypeOK, InFlight
<1>2. /\ UNCHANGED <<loaded, alloc, free, used, drain, est, thr>>
      /\ \A d \in Calls \ {c} : /\ pc'[d] = pc[d] /\ thr'[d] = thr[d]
                                /\ req'[d] = req[d] /\ loc'[d] = loc[d]
  BY <1>0 DEF UnloadNext, UnloadsDone, EvictNext, StartUnload, Finish, TypeOK
<1>3. RealFree' = RealFree
  BY <1>2 DEF RealFree, RealUsed
<1>4. CASE UnloadNext(c)
  <2>1. PICK v \in loc[c].todo : StartUnload(c, v)
    BY <1>4 DEF UnloadNext
  <2>2. loc'[c].mark = RealFree
    BY <1>0, <2>1 DEF StartUnload, TypeOK, Locals
  <2>3. pc[c] = "unload" /\ pc'[c] = "freeing" /\ req' = req
    BY <1>0, <1>4 DEF UnloadNext, TypeOK
  <2>4. Op(c) = "preload" => ~loaded[Svc(c)]
    BY <1>0, <2>3 DEF LedgerCall
  <2>5. LedgerCall(c)'
    BY <1>1, <1>2, <1>3, <2>2, <2>3, <2>4 DEF LedgerCall
  <2> QED BY <1>0, <1>1, <1>2, <2>5, QuietStep
<1>5. CASE UnloadsDone(c)
  <2>1. pc'[c] \in {"gpuwait", "idle"}
    BY <1>0, <1>5 DEF UnloadsDone, Finish, TypeOK
  <2> QED BY <1>0, <1>1, <1>2, <2>1, RestingStep
<1>6. CASE EvictNext(c)
  <2>1. /\ req' = req /\ pc[c] = "evict" /\ pc'[c] \in {"evict", "freeing"}
        /\ pc'[c] = "freeing" => \E v \in loc[c].todo : StartUnload(c, v)
    BY <1>0, <1>6 DEF EvictNext, NextCandidates, TypeOK
  <2>2. pc'[c] = "freeing" => loc'[c].mark = RealFree
    <3>1. SUFFICES ASSUME NEW v \in loc[c].todo, StartUnload(c, v)
                   PROVE  loc'[c].mark = RealFree
      BY <2>1
    <3> QED BY <1>0, <3>1 DEF StartUnload, TypeOK, Locals
  <2>3. Op(c) = "preload" => ~loaded[Svc(c)]
    BY <1>0, <2>1 DEF LedgerCall
  <2>4. LedgerCall(c)'
    BY <1>1, <1>2, <1>3, <2>1, <2>2, <2>3 DEF LedgerCall
  <2> QED BY <1>0, <1>1, <1>2, <2>4, QuietStep
<1> QED BY <1>4, <1>5, <1>6

\* The handler ends, with its load or its unload over.
LEMMA EndKeepsLedger ==
  ASSUME ClearLedger, LedgerInv, ExclusiveInv', NEW c \in Calls,
         \/ Refuse(c) \/ LoadJoined(c) \/ LoadFailed(c) \/ InferReturns(c)
         \/ UnloadRaises(c)
  PROVE  LedgerInv'
<1> USE DEF Go, Continue, Await, coreVars, threadVars, gpuVars, Op, Svc
<1>0. /\ TypeOK /\ Behaves(c)
      /\ pc[c] \in {"evict", "loading", "infer", "freeing"}
      /\ pc[c] = "loading" => thr[c] \in {"ok", "failed"}
  BY LedgerTypes DEF Refuse, EvictOver, LoadJoined, LoadFailed, InferReturns,
                     UnloadRaises
<1>1. thr[c] \notin InFlight \cup {"queued"}
  BY <1>0 DEF Behaves, InFlight
<1>2. \A d \in Calls : thr[d] \notin InFlight
  BY <1>0, <1>1, OthersQuiet DEF InFlight
<1>3. /\ pc'[c] \in {"idle", "infer"} /\ thr'[c] \in {thr[c], "none"}
      /\ UNCHANGED <<loaded, drain, est>>
      /\ \A d \in Calls \ {c} : /\ pc'[d] = pc[d] /\ thr'[d] = thr[d]
                                /\ req'[d] = req[d] /\ loc'[d] = loc[d]
  BY <1>0 DEF Refuse, LoadJoined, LoadFailed, InferReturns, UnloadRaises, Finish,
              TypeOK
<1>4. UNCHANGED used
  BY DEF Refuse, LoadJoined, LoadFailed, InferReturns, UnloadRaises, ClearLedger
<1>5. UNCHANGED <<alloc, free>>
  <2>1. CASE LoadFailed(c)
    BY <1>2, <2>1, CleanupFindsNothing DEF LoadFailed
  <2> QED BY <2>1 DEF Refuse, LoadJoined, InferReturns, UnloadRaises
<1>6. thr'[c] \notin InFlight \cup {"queued"}
  BY <1>1, <1>3 DEF InFlight
<1> QED BY <1>0, <1>1, <1>3, <1>4, <1>5, <1>6, RestingStep

\* svc.unload() returns: the ledger takes back exactly what the driver will.
LEMMA UnloadedKeepsLedger ==
  ASSUME ClearLedger, LedgerInv, ExclusiveInv', NEW c \in Calls, Unloaded(c)
  PROVE  LedgerInv'
<1> DEFINE v == loc[c].victim
<1> USE DEF Go
<1>0. /\ TypeOK /\ Behaves(c) /\ CallShape(c) /\ LedgerCall(c) /\ LedgerConserved
      /\ pc[c] = "freeing"
  BY LedgerTypes DEF Unloaded, LedgerInv
<1>1. v \in Services /\ LedgerRow(v) /\ IsFiniteSet(Services)
  BY <1>0, ConstantTypes DEF CallShape, LedgerInv
<1>2. \A d \in Calls : thr[d] \notin InFlight /\ pc[d] # "settling"
  BY <1>0, OthersQuiet DEF Behaves, InFlight
<1>3. (\A s \in Services : drain[s] = 0) /\ Total(drain, Services) = 0
  BY <1>2, NothingDrains
<1>4. \A s \in Services : /\ alloc[s] \in Nat /\ used[s] \in Nat /\ drain[s] \in Nat
                          /\ loaded[s] \in BOOLEAN
  BY <1>0 DEF TypeOK
<1>5. ~loaded[v] => alloc[v] = 0 /\ used[v] = 0
  BY <1>1, <1>2, <1>4 DEF LedgerRow, InFlight
<1>6. alloc[v] - used[v] \in {0, Foreign}
  BY <1>1, <1>4, <1>5, ConstantTypes DEF LedgerRow
<1>7. /\ used' = [used EXCEPT ![v] = 0]
      /\ drain' = [drain EXCEPT ![v] = used[v]]
      /\ alloc' = [alloc EXCEPT ![v] = 0]
      /\ free' = free + alloc[v]
      /\ loaded' = [loaded EXCEPT ![v] = FALSE]
  <2> DEFINE u == IF loaded[v] THEN 0 ELSE used[v]
             d == IF loaded[v] THEN drain[v] + used[v] ELSE drain[v]
  <2>1. /\ used' = [used EXCEPT ![v] = u] /\ drain' = [drain EXCEPT ![v] = d]
        /\ alloc' = [alloc EXCEPT ![v] = 0] /\ free' = free + alloc[v]
        /\ loaded' = [loaded EXCEPT ![v] = FALSE]
    BY <1>0, <1>1 DEF Unloaded, TypeOK
  <2>2. u = 0 /\ d = used[v]
    BY <1>1, <1>3, <1>4, <1>5
  <2> QED BY <2>1, <2>2
<1>8. /\ pc' = [pc EXCEPT ![c] = "settling"] /\ UNCHANGED <<req, thr, est>>
      /\ loc' = [loc EXCEPT ![c].mark = @ + alloc[v]]
  BY DEF Unloaded, threadVars
<1>9. /\ Total(alloc', Services) = Total(alloc, Services) - alloc[v]
      /\ Total(used', Services) = Total(used, Services) - used[v]
      /\ Total(drain', Services) = used[v]
  <2> HIDE DEF v
  <2>0. /\ v \in Services /\ IsFiniteSet(Services)
        /\ alloc'[v] = 0 /\ used'[v] = 0 /\ drain'[v] = used[v]
        /\ \A s \in Services : /\ alloc'[s] \in Nat /\ used'[s] \in Nat
                               /\ drain'[s] \in Nat
        /\ \A s \in Services \ {v} : /\ alloc'[s] = alloc[s] /\ used'[s] = used[s]
                                     /\ drain'[s] = drain[s]
    BY <1>0, <1>1, <1>4, <1>7 DEF TypeOK
  <2>1. Total(alloc', Services) = Total(alloc, Services) - alloc[v] + alloc'[v]
    BY <1>4, <2>0, TotalUpdate
  <2>2. Total(used', Services) = Total(used, Services) - used[v] + used'[v]
    BY <1>4, <2>0, TotalUpdate
  <2>3. Total(drain', Services) = Total(drain, Services) - drain[v] + drain'[v]
    BY <1>4, <2>0, TotalUpdate
  <2>4. Total(alloc, Services) \in Nat /\ Total(used, Services) \in Nat
    BY LedgerTypes DEF Allocated
  <2> QED BY <1>3, <1>4, <1>7, <2>0, <2>1, <2>2, <2>3, <2>4
<1>10. LedgerConserved'
  BY <1>0, <1>1, <1>4, <1>7, <1>9, LedgerTypes DEF LedgerConserved, Allocated
<1>11. RealFree' = RealFree
  BY <1>1, <1>3, <1>4, <1>9, LedgerTypes, ConstantTypes DEF RealFree, RealUsed
<1>12. /\ pc'[c] = "settling" /\ loc'[c].victim = v
       /\ loc'[c].mark = loc[c].mark + alloc[v]
  BY <1>0, <1>8 DEF TypeOK, Locals
<1>13. ASSUME NEW s \in Services PROVE LedgerRow(s)'
  <2>1. CASE s = v
    BY <1>0, <1>1, <1>4, <1>5, <1>6, <1>7, <1>12, <2>1
    DEF LedgerRow, Sizeable, TypeOK
  <2>2. CASE s # v
    <3>1. /\ alloc'[s] = alloc[s] /\ used'[s] = used[s] /\ drain'[s] = 0
          /\ loaded'[s] = loaded[s] /\ drain[s] = 0
      BY <1>0, <1>1, <1>3, <1>7, <2>2 DEF TypeOK
    <3>2. LedgerRow(s)
      BY DEF LedgerInv
    <3> QED BY <1>8, <3>1, <3>2 DEF LedgerRow, Svc, Sizeable
  <2> QED BY <2>1, <2>2
<1>14. ASSUME NEW d \in Calls PROVE LedgerCall(d)'
  <2>1. CASE d = c
    <3>1. thr'[c] \notin InFlight \cup {"queued"}
      BY <1>0, <1>8 DEF Behaves, InFlight
    <3>2. Op(c) = "preload" => ~loaded'[Svc(c)]
      BY <1>0, <1>1, <1>7, LoadsNameServices
      DEF LedgerCall, TypeOK, CallShape, Loads, Op, Svc
    <3>3. drain'[v] = used[v]
      BY <1>0, <1>1, <1>7 DEF TypeOK
    <3>4. loc'[c].mark - (RealFree' + drain'[loc'[c].victim]) = alloc[v] - used[v]
      BY <1>0, <1>1, <1>4, <1>11, <1>12, <3>3, LedgerTypes DEF LedgerCall
    <3> QED BY <1>6, <1>8, <1>12, <2>1, <3>1, <3>2, <3>4 DEF LedgerCall, Op, Svc
  <2>2. CASE d # c
    <3>1. pc[d] \in {"idle", "begin"} /\ thr[d] = "none"
      BY <1>0, <2>2, OthersQuiet
    <3>2. pc'[d] = pc[d] /\ thr'[d] = "none"
      BY <1>0, <1>8, <2>2, <3>1 DEF TypeOK
    <3> QED BY <3>1, <3>2, ClaimsNothing DEF InFlight
  <2> QED BY <2>1, <2>2
<1>15. OneSurcharge'
  <2>1. \A s \in Services : loaded'[s] => /\ loaded[s]
                                         /\ alloc'[s] = alloc[s] /\ used'[s] = used[s]
    BY <1>0, <1>1, <1>7 DEF TypeOK
  <2> QED BY <2>1 DEF LedgerInv, OneSurcharge
<1> QED BY <1>10, <1>13, <1>14, <1>15 DEF LedgerInv

\* The polling loop ends only when everything is free, and credits nothing.
LEMMA SettledKeepsLedger ==
  ASSUME ClearLedger, LedgerInv, ExclusiveInv', NEW c \in Calls, Settled(c)
  PROVE  LedgerInv'
<1> DEFINE v == loc[c].victim
<1> USE DEF Go
<1>0. /\ TypeOK /\ Behaves(c) /\ CallShape(c) /\ LedgerCall(c) /\ LedgerConserved
      /\ pc[c] = "settling"
  BY LedgerTypes DEF Settled, LedgerInv
<1>1. v \in Services /\ LedgerRow(v) /\ drain[v] \in Nat
  BY <1>0 DEF CallShape, LedgerInv, TypeOK
<1>2. loc[c].mark >= RealFree + drain[v] /\ loc[c].mark \in Int
  BY <1>0, <1>1, LedgerTypes, ConstantTypes DEF LedgerCall, TypeOK, Locals
<1>3. drain[v] = 0
  <2>1. CASE RealFree >= loc[c].mark - Slack
    BY <1>1, <1>2, <2>1, LedgerTypes, ConstantTypes DEF LedgerRow, Sizeable
  <2>2. CASE Waited
    BY <1>1, <2>2 DEF Waited, ClearLedger
  <2> QED BY <2>1, <2>2 DEF Settled
<1>4. \A s \in Services : drain[s] = 0
  <2>1. \A d \in Calls \ {c} : pc[d] # "settling"
    BY <1>0, OthersQuiet
  <2>2. SUFFICES ASSUME NEW s \in Services, drain[s] # 0 PROVE s = v
    BY <1>3
  <2>3. drain[s] > 0
    BY <1>0, <2>2 DEF TypeOK
  <2> QED BY <2>1, <2>3 DEF LedgerInv, LedgerRow
<1>5. free' = free
  BY <1>2, <1>3, LedgerTypes DEF Settled, Larger
<1>6. /\ UNCHANGED <<loaded, alloc, used, drain, est, thr, req>>
      /\ pc'[c] \in {"evict", "unload"}
      /\ \A d \in Calls \ {c} : pc'[d] = pc[d] /\ loc'[d] = loc[d]
  BY <1>0 DEF Settled, coreVars, threadVars, gpuVars, TypeOK
<1>7. LedgerConserved'
  BY <1>0, <1>5, <1>6 DEF LedgerConserved, Allocated
<1>8. ASSUME NEW s \in Services PROVE LedgerRow(s)'
  BY <1>4, <1>6 DEF LedgerInv, LedgerRow, Svc, InFlight, Sizeable
<1>9. ASSUME NEW d \in Calls PROVE LedgerCall(d)'
  <2>1. CASE d = c
    <3>1. thr'[c] \notin InFlight \cup {"queued"}
      BY <1>0, <1>6 DEF Behaves, InFlight
    <3> QED BY <1>0, <1>6, <2>1, <3>1 DEF LedgerCall, Op, Svc
  <2>2. CASE d # c
    <3>1. pc[d] \in {"idle", "begin"} /\ thr[d] = "none"
      BY <1>0, <2>2, OthersQuiet
    <3> QED BY <1>6, <2>2, <3>1, ClaimsNothing DEF InFlight
  <2> QED BY <2>1, <2>2
<1>10. OneSurcharge'
  BY <1>6 DEF LedgerInv, OneSurcharge
<1> QED BY <1>7, <1>8, <1>9, <1>10 DEF LedgerInv

\* Around a load thread: its service is not loaded yet, of the others only the
\* loaded ones are booked, and the driver has nothing left to free.
LEMMA AroundALoad ==
  ASSUME ClearLedger, LedgerInv, NEW c \in Calls, thr[c] \in InFlight \cup {"queued"}
  PROVE  /\ pc[c] = "loading" /\ Svc(c) \in Services /\ ~loaded[Svc(c)]
         /\ thr[c] # "returned" => used[Svc(c)] = 0
         /\ thr[c] = "queued" => alloc[Svc(c)] = 0
         /\ thr[c] # "queued" => est[c] = alloc[Svc(c)]
         /\ \A s \in Services \ {Svc(c)} : ~loaded[s] => alloc[s] = 0 /\ used[s] = 0
         /\ \A s \in Services : drain[s] = 0
         /\ Total(drain, Services) = 0
         /\ \A d \in Calls \ {c} : pc[d] \in {"idle", "begin"} /\ thr[d] = "none"
<1>0. TypeOK /\ Behaves(c) /\ CallShape(c) /\ LedgerCall(c)
  BY LedgerTypes DEF LedgerInv
<1>1. pc[c] = "loading" /\ Svc(c) \in Services
  BY <1>0, LoadsNameServices DEF Behaves, CallShape, Loads, Op, Svc, InFlight
<1>2. \A d \in Calls \ {c} : pc[d] \in {"idle", "begin"} /\ thr[d] = "none"
  BY <1>1, OthersQuiet
<1>3. (\A s \in Services : drain[s] = 0) /\ Total(drain, Services) = 0
  BY <1>1, <1>2, NothingDrains
<1>4. \A s \in Services : alloc[s] \in Nat /\ used[s] \in Nat
  BY <1>0 DEF TypeOK
<1>5. ASSUME NEW s \in Services, ~loaded[s]
      PROVE  /\ s # Svc(c) => alloc[s] = 0 /\ used[s] = 0
             /\ thr[c] # "returned" => used[s] = 0
             /\ thr[c] = "queued" => alloc[s] = 0
  BY <1>2, <1>4, <1>5 DEF LedgerInv, LedgerRow, InFlight
<1>7. ~loaded[Svc(c)] /\ (thr[c] # "queued" => est[c] = alloc[Svc(c)])
  BY <1>0 DEF LedgerCall
<1> QED BY <1>1, <1>2, <1>3, <1>5, <1>7

\* Of the other services, one at most is booked for the foreign memory as well.
LEMMA OthersBooked ==
  ASSUME ClearLedger, LedgerInv, NEW c \in Calls, thr[c] \in InFlight \cup {"queued"}
  PROVE  LET R == Services \ {Svc(c)}
         IN  \/ /\ \A s \in R : alloc[s] = used[s]
                /\ Total(alloc, R) = Total(used, R)
             \/ Total(alloc, R) = Total(used, R) + Foreign
<1> DEFINE R == Services \ {Svc(c)}
<1>0. /\ TypeOK /\ IsFiniteSet(R) /\ Foreign \in Nat
      /\ \A s \in R : alloc[s] \in Nat /\ used[s] \in Nat
  BY LedgerTypes, ConstantTypes, FS_Subset DEF TypeOK
<1>1. \A s \in R : \/ alloc[s] = used[s]
                   \/ loaded[s] /\ alloc[s] = used[s] + Foreign
  BY AroundALoad DEF LedgerInv, LedgerRow
<1>2. CASE \A s \in R : alloc[s] = used[s]
  BY <1>2, TotalSame
<1>3. CASE ~\A s \in R : alloc[s] = used[s]
  <2>1. PICK t \in R : loaded[t] /\ alloc[t] # used[t]
    BY <1>1, <1>3
  <2>2. \A s \in R \ {t} : alloc[s] = used[s]
    BY <1>1, <2>1 DEF LedgerInv, OneSurcharge
  <2>3. Total(alloc, R) = Total(used, R) - used[t] + alloc[t]
    BY <1>0, <2>1, <2>2, TotalUpdate
  <2>4. Total(used, R) \in Nat
    BY <1>0, TotalTypes
  <2> QED BY <1>0, <1>1, <2>1, <2>3, <2>4
<1> QED BY <1>2, <1>3

\* A step of a load thread that books a and occupies u for its service keeps
\* the ledger if it pays for what it books.
LEMMA LoadStep ==
  ASSUME ClearLedger, LedgerInv, ExclusiveInv', NEW c \in Calls,
         thr[c] \in InFlight \cup {"queued"}, NEW a \in Nat, NEW u \in Nat,
         Sizeable(u),
         alloc'[Svc(c)] = a, used'[Svc(c)] = u,
         \A s \in Services \ {Svc(c)} : alloc'[s] = alloc[s] /\ used'[s] = used[s],
         free' = free - (a - alloc[Svc(c)]),
         UNCHANGED <<drain, pc, loc, req>>,
         \A d \in Calls \ {c} : thr'[d] = thr[d],
         \A s \in Services \ {Svc(c)} : loaded'[s] = loaded[s],
         \/ /\ loaded'[Svc(c)] /\ thr'[c] = "ok"
            /\ \/ a = u
               \/ a = u + Foreign /\ \A s \in Services \ {Svc(c)} : alloc[s] = used[s]
         \/ ~loaded'[Svc(c)] /\ a = 0 /\ u = 0 /\ thr'[c] = "failed"
         \/ ~loaded'[Svc(c)] /\ u = 0 /\ thr'[c] = "running" /\ est'[c] = a
         \/ ~loaded'[Svc(c)] /\ thr'[c] = "returned" /\ est'[c] = a
  PROVE  LedgerInv'
<1> DEFINE v == Svc(c)
<1>0. /\ TypeOK /\ LedgerConserved /\ v \in Services /\ IsFiniteSet(Services)
      /\ pc[c] = "loading"
  BY LedgerTypes, AroundALoad, ConstantTypes DEF LedgerInv
<1>1. /\ \A s \in Services \ {v} : ~loaded[s] => alloc[s] = 0 /\ used[s] = 0
      /\ \A s \in Services : drain[s] = 0
      /\ \A d \in Calls \ {c} : pc[d] \in {"idle", "begin"} /\ thr[d] = "none"
  BY AroundALoad
<1>2. /\ \A s \in Services : alloc[s] \in Nat /\ alloc'[s] \in Nat
      /\ alloc'[v] = a /\ used'[v] = u
      /\ \A s \in Services \ {v} : alloc'[s] = alloc[s] /\ used'[s] = used[s]
  BY <1>0 DEF TypeOK
<1>3. Total(alloc', Services) = Total(alloc, Services) - alloc[v] + a
  <2>1. Total(alloc', Services) = Total(alloc, Services) - alloc[v] + alloc'[v]
    BY <1>0, <1>2, TotalUpdate
  <2> QED BY <1>2, <2>1
<1>4. LedgerConserved'
  BY <1>0, <1>2, <1>3, LedgerTypes, ConstantTypes DEF LedgerConserved, Allocated
<1>5. ASSUME NEW s \in Services PROVE LedgerRow(s)'
  <2>1. CASE s = v
    BY <1>1, <1>2, <2>1 DEF LedgerRow, Sizeable, InFlight, Svc
  <2>2. CASE s # v
    <3>1. Sizeable(used[s]) /\ (loaded[s] => alloc[s] \in {used[s], used[s] + Foreign})
      BY DEF LedgerInv, LedgerRow
    <3> QED BY <1>1, <1>2, <2>2, <3>1 DEF LedgerRow, Sizeable
  <2> QED BY <2>1, <2>2
<1>6. ASSUME NEW d \in Calls PROVE LedgerCall(d)'
  <2>1. CASE d = c
    BY <1>0, <1>2, <2>1 DEF LedgerCall, InFlight, Svc
  <2>2. CASE d # c
    BY <1>1, <2>2, ClaimsNothing DEF InFlight
  <2> QED BY <2>1, <2>2
<1>7. OneSurcharge'
  <2>1. ASSUME NEW s \in Services \ {v}, loaded'[s], alloc'[s] # used'[s]
        PROVE  loaded[s] /\ alloc[s] # used[s]
    BY <1>2, <2>1
  <2>2. loaded'[v] /\ alloc'[v] # used'[v] =>
          \A s \in Services \ {v} : alloc'[s] = used'[s]
    BY <1>2
  <2> QED BY <2>1, <2>2 DEF LedgerInv, OneSurcharge
<1> QED BY <1>4, <1>5, <1>6, <1>7 DEF LedgerInv

LEMMA LoadKeepsLedger ==
  ASSUME ClearLedger, LedgerInv, ExclusiveInv', NEW c \in Calls,
         Reserve(c) \/ LoadReturns(c) \/ LoadRaises(c) \/ MarkLoaded(c)
  PROVE  LedgerInv'
<1> DEFINE v == Svc(c)
<1>0. TypeOK /\ thr[c] \in InFlight \cup {"queued"}
  BY LedgerTypes DEF Reserve, LoadReturns, LoadRaises, MarkLoaded, InFlight
<1>1. /\ pc[c] = "loading" /\ v \in Services /\ ~loaded[v]
      /\ alloc[v] \in Nat /\ used[v] \in Nat /\ vram[v] \in Nat /\ Sizeable(used[v])
  BY <1>0, AroundALoad DEF TypeOK, LedgerInv, LedgerRow
<1>2. CASE Reserve(c)
  <2>1. alloc[v] = 0 /\ used[v] = 0
    BY <1>0, <1>2, AroundALoad DEF Reserve
  <2>2. /\ alloc'[v] = vram[v] /\ used'[v] = 0
        /\ \A s \in Services \ {v} : alloc'[s] = alloc[s] /\ used'[s] = used[s]
    BY <1>0, <1>1, <1>2, <2>1 DEF Reserve, gpuVars, TypeOK
  <2>3. free' = free - (vram[v] - alloc[v])
    BY <1>1, <1>2, <2>1, LedgerTypes DEF Reserve
  <2>4. /\ thr'[c] = "running" /\ est'[c] = vram[v]
        /\ \A d \in Calls \ {c} : thr'[d] = thr[d]
        /\ UNCHANGED <<loaded, drain, pc, loc, req>>
    BY <1>0, <1>2 DEF Reserve, gpuVars, TypeOK
  <2>5. Sizeable(0)
    BY DEF Sizeable
  <2> QED BY <1>0, <1>1, <2>2, <2>3, <2>4, <2>5, LoadStep
<1>3. CASE LoadReturns(c)
  <2>1. PICK m \in Footprint[v] : used' = [used EXCEPT ![v] = m]
    BY <1>3 DEF LoadReturns
  <2>2. m \in Nat /\ Sizeable(m)
    BY <1>1, <2>1, ConstantTypes DEF ClearLedger
  <2>3. /\ alloc' = alloc /\ used'[v] = m
        /\ \A s \in Services \ {v} : used'[s] = used[s]
        /\ free' = free - (alloc[v] - alloc[v])
    BY <1>0, <1>1, <1>3, <2>1, LedgerTypes DEF LoadReturns, TypeOK
  <2>4. /\ thr'[c] = "returned" /\ est'[c] = alloc[v]
        /\ \A d \in Calls \ {c} : thr'[d] = thr[d]
        /\ UNCHANGED <<loaded, drain, pc, loc, req>>
    BY <1>0, <1>3, AroundALoad DEF LoadReturns, TypeOK
  <2> QED BY <1>0, <1>1, <2>1, <2>2, <2>3, <2>4, LoadStep
<1>4. CASE LoadRaises(c)
  <2>1. used[v] = 0 /\ est[c] = alloc[v]
    BY <1>0, <1>4, AroundALoad DEF LoadRaises
  <2>2. /\ alloc'[v] = 0 /\ used'[v] = 0
        /\ \A s \in Services \ {v} : alloc'[s] = alloc[s] /\ used'[s] = used[s]
    BY <1>0, <1>1, <1>4, <2>1 DEF LoadRaises, gpuVars, TypeOK
  <2>3. free' = free - (0 - alloc[v])
    BY <1>1, <1>4, <2>1, LedgerTypes DEF LoadRaises
  <2>4. /\ thr'[c] = "failed" /\ req' = req
        /\ \A d \in Calls \ {c} : thr'[d] = thr[d]
        /\ UNCHANGED <<loaded, drain, pc, loc>>
    BY <1>0, <1>1, <1>4 DEF LoadRaises, ThreadEnds, gpuVars, TypeOK
  <2>5. Sizeable(0)
    BY DEF Sizeable
  <2> QED BY <1>0, <1>1, <2>2, <2>3, <2>4, <2>5, LoadStep
<1>5. CASE MarkLoaded(c)
  <2> DEFINE R == Services \ {v}
             actual == Larger(0, RealUsed - Total(alloc, R))
  <2>1. /\ actual \in Nat
        /\ \/ actual = used[v]
           \/ actual = used[v] + Foreign /\ \A s \in R : alloc[s] = used[s]
    <3>1. RealUsed = Foreign + Total(used, Services)
      BY <1>0, AroundALoad, LedgerTypes, ConstantTypes DEF RealUsed
    <3>2. Total(used, Services) = Total(used, R) + used[v]
      BY <1>0, <1>1, TotalSplits DEF TypeOK
    <3>3. Total(used, R) \in Nat /\ Foreign \in Nat
      BY <1>0, TotalTypes, ConstantTypes
    <3>4. CASE Total(alloc, R) = Total(used, R) /\ \A s \in R : alloc[s] = used[s]
      <4>1. actual = used[v] + Foreign
        BY <1>1, <3>1, <3>2, <3>3, <3>4 DEF Larger
      <4> QED BY <1>1, <3>3, <3>4, <4>1
    <3>5. CASE Total(alloc, R) = Total(used, R) + Foreign
      <4>1. actual = used[v]
        BY <1>1, <3>1, <3>2, <3>3, <3>5 DEF Larger
      <4> QED BY <1>1, <4>1
    <3> QED BY <1>0, <3>4, <3>5, OthersBooked
  <2> HIDE DEF actual
  <2>2. est[c] = alloc[v]
    BY <1>0, <1>5, AroundALoad DEF MarkLoaded
  <2>3. /\ alloc' = [alloc EXCEPT ![v] = actual]
        /\ free' = free - (actual - alloc[v])
    BY <1>5, <2>2 DEF MarkLoaded, actual
  <2>4. /\ alloc'[v] = actual /\ used' = used
        /\ \A s \in Services \ {v} : alloc'[s] = alloc[s]
    BY <1>0, <1>1, <1>5, <2>3 DEF MarkLoaded, gpuVars, TypeOK
  <2>5. /\ thr'[c] = "ok" /\ req' = req /\ loaded'[v]
        /\ \A d \in Calls \ {c} : thr'[d] = thr[d]
        /\ \A s \in Services \ {v} : loaded'[s] = loaded[s]
        /\ UNCHANGED <<drain, pc, loc>>
    BY <1>0, <1>1, <1>5 DEF MarkLoaded, ThreadEnds, gpuVars, TypeOK
  <2> QED BY <1>0, <1>1, <2>1, <2>3, <2>4, <2>5, LoadStep
<1> QED BY <1>2, <1>3, <1>4, <1>5

\* The driver gives memory back.
LEMMA DriverKeepsLedger ==
  ASSUME LedgerInv, ExclusiveInv', NEW s \in Services, DriverFrees(s)
  PROVE  LedgerInv'
<1>0. TypeOK /\ LedgerRow(s) /\ s \in Services /\ IsFiniteSet(Services)
  BY LedgerTypes, ConstantTypes DEF LedgerInv
<1>1. PICK c \in Calls : pc[c] = "settling" /\ loc[c].victim = s
  BY <1>0 DEF LedgerRow, DriverFrees
<1>2. /\ drain' = [drain EXCEPT ![s] = 0]
      /\ UNCHANGED <<loaded, alloc, free, used, pc, req, loc, thr, est>>
  BY DEF DriverFrees, coreVars, threadVars
<1>3. /\ \A r \in Services : drain[r] \in Nat /\ drain'[r] \in Nat
      /\ drain'[s] = 0 /\ \A r \in Services \ {s} : drain'[r] = drain[r]
  BY <1>0, <1>2 DEF TypeOK
<1>4. Total(drain', Services) = Total(drain, Services) - drain[s] + drain'[s]
  BY <1>0, <1>3, TotalUpdate
<1>5. RealFree' = RealFree + drain[s]
  BY <1>0, <1>2, <1>3, <1>4, LedgerTypes, ConstantTypes DEF RealFree, RealUsed
<1>6. LedgerConserved'
  BY <1>2 DEF LedgerInv, LedgerConserved, Allocated
<1>7. ASSUME NEW r \in Services PROVE LedgerRow(r)'
  BY <1>2, <1>3 DEF LedgerInv, LedgerRow, Svc, InFlight, Sizeable
<1>8. ASSUME NEW d \in Calls PROVE LedgerCall(d)'
  <2>1. CASE d = c
    <3>1. LedgerCall(c)
      BY DEF LedgerInv
    <3> QED BY <1>1, <1>2, <1>3, <1>5, <2>1, <3>1, LedgerTypes DEF LedgerCall, Op, Svc
  <2>2. CASE d # c
    <3>1. pc[d] \in {"idle", "begin"} /\ thr[d] = "none"
      BY <1>1, <2>2, OthersQuiet
    <3> QED BY <1>2, <3>1, ClaimsNothing DEF InFlight
  <2> QED BY <2>1, <2>2
<1>9. OneSurcharge'
  BY <1>2 DEF LedgerInv, OneSurcharge, DriverFrees
<1> QED BY <1>6, <1>7, <1>8, <1>9 DEF LedgerInv

LEMMA LedgerNext ==
  ASSUME ClearLedger, LedgerInv, [Next]_vars
  PROVE  LedgerInv'
<1>1. ExclusiveInv'
  BY ExclusiveNext DEF LedgerInv, ClearLedger
<1>2. ASSUME NEW c \in Calls, LoopStep(c) PROVE LedgerInv'
  BY <1>1, <1>2, BeginKeepsLedger, AdmissionKeepsLedger, UnloadLoopKeepsLedger,
     EndKeepsLedger DEF LoopStep
<1>3. ASSUME NEW c \in Calls, ThreadStep(c) \/ LoadEnds(c) PROVE LedgerInv'
  BY <1>1, <1>3, UnloadedKeepsLedger, SettledKeepsLedger, LoadKeepsLedger,
     EndKeepsLedger DEF ThreadStep, LoadEnds
<1>4. ASSUME NEW c \in Calls PROVE ~LoadTimesOut(c)
  <2>1. Svc(c) \notin SlowLoads
    BY DEF ClearLedger, EverythingLocked
  <2> QED BY <2>1 DEF LoadTimesOut
<1>5. ~Status
  BY DEF Status, ClearLedger
<1>6. CASE UNCHANGED vars
  BY <1>1, <1>6 DEF vars, coreVars, threadVars, gpuVars, LedgerInv, LedgerConserved,
     Allocated, OneSurcharge, LedgerRow, LedgerCall, RealFree, RealUsed, Svc, Op, InFlight, Sizeable
<1> QED
  BY <1>1, <1>2, <1>3, <1>4, <1>5, <1>6, BeginKeepsLedger, DriverKeepsLedger DEF Next

LEMMA LedgerAlways == ASSUME ClearLedger PROVE Spec => []LedgerInv
<1>1. Init => LedgerInv
  BY LedgerInit
<1>2. LedgerInv /\ [Next]_vars => LedgerInv'
  BY LedgerNext
<1> QED BY <1>1, <1>2, PTL DEF Spec

\* "Total allocated + free always equals AVAILABLE_MB": through loads that
\* fail, evictions and refusals (services/forge.py).
THEOREM LedgerConservedHolds ==
  ASSUME ClearLedger
  PROVE  Spec => []LedgerConserved
<1>1. LedgerInv => LedgerConserved
  BY DEF LedgerInv
<1> QED BY <1>1, LedgerAlways, PTL

\* What _reconcile_vram books for a loaded service is what it occupies, and the
\* memory of CUDA contexts and other programs, which the driver counts as well,
\* is charged as a whole to one service at most.
THEOREM LedgerIsRealHolds ==
  ASSUME ClearLedger
  PROVE  Spec => []LedgerIsReal
<1>1. LedgerInv => LedgerIsReal
  BY DEF LedgerInv, LedgerRow, OneSurcharge, LedgerIsReal, Loaded
<1> QED BY <1>1, LedgerAlways, PTL

\* Every reservation belongs to a loaded service or to a load in flight.
THEOREM NoLeakedReservationHolds ==
  ASSUME ClearLedger
  PROVE  Spec => []NoLeakedReservation
<1>1. LedgerInv => NoLeakedReservation
  BY DEF LedgerInv, LedgerRow, NoLeakedReservation, InFlight
<1> QED BY <1>1, LedgerAlways, PTL

-----------------------------------------------------------------------------
(* The services with a declared estimate never overcommit the GPU.         *)

Declared == {s \in Services : VramMb[s] > 0}

\* Estimates are not exceeded.
HonestEstimates ==
  ClearLedger /\ \A s \in Declared : \A m \in Footprint[s] : m <= VramMb[s]

\* A call that got past admission has room for its estimate, and a load in
\* flight has booked it within what there is.
Admitted(c) ==
  /\ (pc[c] = "ready" \/ thr[c] = "queued") /\ VramMb[Svc(c)] > 0
     => VramMb[Svc(c)] <= free
  /\ thr[c] \in InFlight => /\ est[c] = VramMb[Svc(c)]
                            /\ VramMb[Svc(c)] > 0 => Total(alloc, Declared) <= Available

AdmittedInv ==
  /\ LedgerInv
  /\ vram = VramMb
  /\ Total(alloc, Declared) <= Available + Foreign
  /\ \A s \in Declared : used[s] <= VramMb[s]
  /\ \A c \in Calls : Admitted(c)

\* The declared services are booked within the whole ledger.
LEMMA DeclaredWithinLedger ==
  ASSUME LedgerInv
  PROVE  /\ Total(alloc, Declared) \in Nat
         /\ Total(alloc, Declared) + free <= Available
         /\ (\A s \in Services \ Declared : alloc[s] = 0)
              => Total(alloc, Declared) + free = Available
<1> DEFINE R == Services \ Declared
<1>1. /\ IsFiniteSet(R) /\ IsFiniteSet(Declared) /\ R \cap Declared = {}
      /\ Services = R \cup Declared
  BY ConstantTypes, FS_Subset DEF Declared
<1>2. \A s \in Services : alloc[s] \in Nat
  BY LedgerTypes DEF TypeOK
<1>3. Total(alloc, R \cup Declared) = Total(alloc, R) + Total(alloc, Declared)
  BY <1>1, <1>2, TotalUnion
<1>4. Total(alloc, R) \in Nat /\ Total(alloc, Declared) \in Nat
  BY LedgerTypes, TotalTypes DEF Declared
<1>5. free + (Total(alloc, R) + Total(alloc, Declared)) = Available
  BY <1>1, <1>3 DEF LedgerInv, LedgerConserved, Allocated
<1>6. (\A s \in R : alloc[s] = 0) => Total(alloc, R) = 0
  BY TotalZero
<1> QED BY <1>4, <1>5, <1>6, LedgerTypes, ConstantTypes

\* Booking one service changes what the declared services are booked.
LEMMA DeclaredUpdate ==
  ASSUME LedgerInv, NEW v \in Services, alloc'[v] \in Nat,
         \A s \in Services \ {v} : alloc'[s] = alloc[s]
  PROVE  Total(alloc', Declared) =
           IF v \in Declared THEN Total(alloc, Declared) - alloc[v] + alloc'[v]
                             ELSE Total(alloc, Declared)
<1>1. \A s \in Declared : alloc[s] \in Nat /\ alloc'[s] \in Nat
  BY LedgerTypes DEF TypeOK, Declared
<1>2. IsFiniteSet(Declared)
  BY ConstantTypes, FS_Subset DEF Declared
<1>3. CASE v \in Declared
  <2>1. \A s \in Declared \ {v} : alloc'[s] = alloc[s]
    BY DEF Declared
  <2>2. Total(alloc', Declared) = Total(alloc, Declared) - alloc[v] + alloc'[v]
    BY <1>1, <1>2, <1>3, <2>1, TotalUpdate
  <2> QED BY <1>3, <2>2
<1>4. CASE v \notin Declared
  <2>1. \A s \in Declared : alloc'[s] = alloc[s]
    BY <1>4 DEF Declared
  <2>2. Total(alloc', Declared) = Total(alloc, Declared)
    BY <2>1, TotalSame
  <2> QED BY <1>4, <2>2
<1> QED BY <1>3, <1>4

\* A step that moves no booking of a declared service up needs only show what
\* its call claims; the other calls claim nothing.
LEMMA AdmittedStep ==
  ASSUME AdmittedInv, LedgerInv', NEW c \in Calls,
         \A d \in Calls \ {c} : pc[d] \in {"idle", "begin"} /\ thr[d] = "none",
         \A d \in Calls \ {c} : pc'[d] = pc[d] /\ thr'[d] = thr[d],
         vram' = vram, Total(alloc', Declared) <= Available + Foreign,
         \A s \in Declared : used'[s] <= VramMb[s],
         Admitted(c)'
  PROVE  AdmittedInv'
<1>1. ASSUME NEW d \in Calls \ {c} PROVE Admitted(d)'
  BY <1>1 DEF Admitted, InFlight
<1> QED BY <1>1 DEF AdmittedInv

LEMMA AdmittedInit ==
  ASSUME HonestEstimates, Init PROVE AdmittedInv
<1>1. LedgerInv
  BY LedgerInit DEF HonestEstimates
<1>2. Total(alloc, Declared) = 0
  BY TotalZero DEF Init, Declared
<1> QED BY <1>1, <1>2, ConstantTypes
        DEF Init, AdmittedInv, Admitted, InFlight, Declared

\* What neither books nor loads: every action of the coroutines, and unloads
\* that raise.
LEMMA CoroutineAdmitted ==
  ASSUME HonestEstimates, AdmittedInv, LedgerInv', NEW c \in Calls,
         LoopStep(c) \/ UnloadRaises(c)
  PROVE  AdmittedInv'
<1> USE DEF Go, Continue, Await, coreVars, threadVars, gpuVars
<1>0. /\ TypeOK /\ Behaves(c) /\ CallShape(c) /\ Admitted(c)
      /\ LedgerInv /\ vram = VramMb /\ ClearLedger
  BY LedgerTypes DEF AdmittedInv, HonestEstimates
<1>1. /\ UNCHANGED <<vram, est>>
      /\ \A d \in Calls \ {c} : pc'[d] = pc[d] /\ thr'[d] = thr[d]
  BY <1>0 DEF LoopStep, UnloadRaises, InvokeBegin, PreloadLoaded, PreloadBegin,
              ReleaseBegin, UnloadNext, UnloadsDone, GpuNotReady, GpuReady, Clean,
              Admit, EvictNext, EvictDone, Refuse, LoadJoined, LoadFailed,
              InferReturns, Finish, TypeOK
<1>2. UNCHANGED used
  BY <1>0 DEF LoopStep, UnloadRaises, InvokeBegin, PreloadLoaded, PreloadBegin,
              ReleaseBegin, UnloadNext, UnloadsDone, GpuNotReady, GpuReady, Clean,
              Admit, EvictNext, EvictDone, Refuse, LoadJoined, LoadFailed,
              InferReturns, ClearLedger
<1>3. Enter(c) \/ pc[c] \notin {"idle", "begin"}
  BY DEF LoopStep, UnloadRaises, InvokeBegin, PreloadLoaded, PreloadBegin,
              ReleaseBegin, UnloadNext, UnloadsDone, GpuNotReady, GpuReady, Clean,
              Admit, EvictNext, EvictDone, EvictOver, Refuse, LoadJoined, LoadFailed,
              InferReturns
<1>4. /\ thr[c] \notin InFlight /\ thr'[c] \notin InFlight
      /\ thr'[c] = "queued" => GpuReady(c) /\ pc[c] = "ready"
      /\ pc'[c] = "ready" => GpuNotReady(c) \/ Admit(c) \/ EvictDone(c)
  BY <1>0
  DEF LoopStep, UnloadRaises, InvokeBegin, PreloadLoaded, PreloadBegin,
              ReleaseBegin, UnloadNext, UnloadsDone, GpuNotReady, GpuReady, Clean,
              Admit, EvictNext, EvictDone, EvictOver, Refuse, LoadJoined, LoadFailed,
              InferReturns, Enter, Finish, TypeOK, PCs, Behaves, InFlight
<1>5. \A d \in Calls \ {c} : pc[d] \in {"idle", "begin"} /\ thr[d] = "none"
  BY <1>0, <1>3, EntersAlone, OthersQuiet
<1>6. UNCHANGED alloc
  <2>1. \A d \in Calls : thr[d] \notin InFlight
    BY <1>4, <1>5 DEF InFlight
  <2>2. CASE CleanupStale
    BY <1>0, <2>1, <2>2, CleanupFindsNothing
  <2>3. CASE ~CleanupStale
    BY <2>3 DEF LoopStep, UnloadRaises, InvokeBegin, PreloadLoaded, PreloadBegin,
              ReleaseBegin, UnloadNext, UnloadsDone, GpuNotReady, GpuReady, Clean,
              Admit, EvictNext, EvictDone, Refuse, LoadJoined, LoadFailed, InferReturns
  <2> QED BY <2>2, <2>3
<1>7. Admitted(c)'
  <2>1. SUFFICES ASSUME pc'[c] = "ready" \/ thr'[c] = "queued",
                        VramMb[Svc(c)'] > 0
                 PROVE  VramMb[Svc(c)'] <= free'
    BY <1>4 DEF Admitted
  <2>2. GpuReady(c) \/ GpuNotReady(c) \/ Admit(c) \/ EvictDone(c)
    BY <1>4, <2>1
  <2>3. UNCHANGED <<free, req>> /\ Svc(c)' = Svc(c)
    BY <2>2 DEF GpuReady, GpuNotReady, Admit, EvictDone, Svc
  <2>4. Svc(c) \in Services
    BY <1>0, <2>2, LoadsNameServices
    DEF GpuReady, GpuNotReady, Admit, EvictDone, EvictOver, CallShape, LoadPCs,
        Loads, Op, Svc
  <2>5. VramMb[Svc(c)] \in Nat /\ VramMb[Svc(c)] > 0 /\ vram[Svc(c)] = VramMb[Svc(c)]
    BY <1>0, <2>1, <2>3, <2>4, ConstantTypes
  <2>6. CASE GpuReady(c)
    BY <1>0, <1>4, <2>1, <2>3, <2>5, <2>6 DEF GpuReady, Admitted, TypeOK
  <2>7. CASE GpuNotReady(c)
    BY <1>0, <1>4, <2>1, <2>3, <2>5, <2>7 DEF GpuNotReady, Admitted, TypeOK
  <2>8. CASE Admit(c)
    <3>1. CanFit(Svc(c)) \/ pc'[c] = "evict"
      BY <1>0, <2>5, <2>8 DEF Admit, TypeOK
    <3>2. thr' = thr /\ pc[c] = "admit"
      BY <2>8 DEF Admit
    <3>3. CanFit(Svc(c))
      BY <1>0, <2>1, <3>1, <3>2 DEF Behaves
    <3> QED BY <2>3, <2>5, <3>3 DEF CanFit
  <2>9. CASE EvictDone(c)
    BY <2>3, <2>4, <2>5, <2>9, LedgerTypes, <1>0 DEF EvictDone, Refused, Needed
  <2> QED BY <2>2, <2>6, <2>7, <2>8, <2>9
<1> QED BY <1>0, <1>1, <1>2, <1>5, <1>6, <1>7, AdmittedStep DEF AdmittedInv

\* Worker threads and the driver.
LEMMA WorkerAdmitted ==
  ASSUME HonestEstimates, AdmittedInv, LedgerInv', NEW c \in Calls,
         \/ Unloaded(c) \/ Settled(c) \/ Reserve(c) \/ LoadReturns(c) \/ LoadRaises(c)
         \/ MarkLoaded(c)
  PROVE  AdmittedInv'
<1> USE DEF Go, coreVars, threadVars, gpuVars
<1>0. /\ TypeOK /\ TypeOK' /\ Behaves(c) /\ CallShape(c) /\ Admitted(c)
      /\ LedgerInv /\ vram = VramMb /\ ClearLedger
      /\ \A s \in Declared : used[s] <= VramMb[s] /\ s \in Services
      /\ Total(alloc, Declared) <= Available + Foreign /\ Foreign \in Nat
  BY LedgerTypes, ConstantTypes DEF AdmittedInv, HonestEstimates, LedgerInv, ExclusiveInv, LockInv,
                     TypeInv, Declared
<1>1. pc[c] \in {"freeing", "settling", "loading"}
  BY <1>0 DEF Unloaded, Settled, Reserve, LoadReturns, LoadRaises, MarkLoaded, Behaves
<1>2. \A d \in Calls \ {c} : /\ pc[d] \in {"idle", "begin"} /\ thr[d] = "none"
                             /\ pc'[d] = pc[d] /\ thr'[d] = thr[d]
  BY <1>0, <1>1, OthersQuiet
  DEF Unloaded, Settled, Reserve, LoadReturns, LoadRaises, MarkLoaded, ThreadEnds, TypeOK
<1>3. vram' = vram
  BY <1>0 DEF Unloaded, Settled, Reserve, LoadReturns, LoadRaises, MarkLoaded,
              ClearLedger, TypeOK
<1>4. \A s \in Services : alloc[s] \in Nat /\ alloc'[s] \in Nat
  BY <1>0 DEF TypeOK
<1>5. CASE Unloaded(c) \/ Settled(c)
  <2> DEFINE v == loc[c].victim
  <2>1. v \in Services /\ pc[c] \in {"freeing", "settling"} /\ thr' = thr
        /\ pc'[c] # "ready"
    BY <1>0, <1>5 DEF Unloaded, Settled, CallShape, TypeOK
  <2>2. /\ \A s \in Services \ {v} : alloc'[s] = alloc[s]
        /\ alloc'[v] \in {0, alloc[v]}
    BY <1>0, <1>5, <2>1 DEF Unloaded, Settled, TypeOK
  <2>3. Total(alloc', Declared) = IF v \in Declared
                                  THEN Total(alloc, Declared) - alloc[v] + alloc'[v]
                                  ELSE Total(alloc, Declared)
    BY <1>0, <1>4, <2>1, <2>2, DeclaredUpdate
  <2>4. Total(alloc', Declared) <= Available + Foreign
    BY <1>0, <1>4, <2>1, <2>2, <2>3, DeclaredWithinLedger, ConstantTypes
  <2>5. \A s \in Declared : used'[s] <= VramMb[s]
    BY <1>0, <1>5, <2>1, ConstantTypes DEF Unloaded, Settled, TypeOK, Declared
  <2>6. Admitted(c)'
    BY <1>0, <2>1 DEF Admitted, Behaves, InFlight
  <2> QED BY <1>2, <1>3, <2>4, <2>5, <2>6, AdmittedStep
<1>6. CASE Reserve(c) \/ LoadReturns(c) \/ LoadRaises(c) \/ MarkLoaded(c)
  <2> DEFINE v == Svc(c)
  <2>1. thr[c] \in InFlight \cup {"queued"} /\ pc'[c] # "ready"
    BY <1>0, <1>6 DEF Reserve, LoadReturns, LoadRaises, MarkLoaded, InFlight, Behaves
  <2>2. /\ v \in Services /\ VramMb[v] \in Nat /\ alloc[v] \in Nat /\ used[v] \in Nat
        /\ thr[c] # "queued" => est[c] = alloc[v]
        /\ thr[c] = "queued" => alloc[v] = 0
        /\ v \in Declared <=> VramMb[v] > 0
    BY <1>0, <2>1, AroundALoad, ConstantTypes DEF TypeOK, Declared
  <2>3. \A s \in Services \ {v} : alloc'[s] = alloc[s]
    BY <1>0, <1>6 DEF Reserve, LoadReturns, LoadRaises, MarkLoaded, TypeOK
  <2>4. Total(alloc', Declared) = IF v \in Declared
                                  THEN Total(alloc, Declared) - alloc[v] + alloc'[v]
                                  ELSE Total(alloc, Declared)
    BY <1>0, <1>4, <2>2, <2>3, DeclaredUpdate
  <2>5. /\ \A s \in Declared : used'[s] <= VramMb[s]
        /\ loaded'[v] => alloc'[v] <= used'[v] + Foreign
    <3>1. \A s \in Services : loaded'[s] => alloc'[s] <= used'[s] + Foreign
      BY <1>0 DEF LedgerInv, LedgerRow, TypeOK
    <3>2. CASE LoadReturns(c)
      BY <1>0, <2>2, <3>1, <3>2 DEF LoadReturns, HonestEstimates, TypeOK
    <3>3. CASE ~LoadReturns(c)
      BY <1>0, <1>6, <2>2, <3>1, <3>3 DEF Reserve, LoadRaises, MarkLoaded
    <3> QED BY <3>2, <3>3
  <2>6. /\ Total(alloc', Declared) <= Available + Foreign
        /\ thr'[c] \in InFlight /\ v \in Declared => Total(alloc', Declared) <= Available
    <3>1. CASE Reserve(c)
      <4>1. v \in Declared => VramMb[v] <= free /\ alloc'[v] = VramMb[v] /\ alloc[v] = 0
        BY <1>0, <2>2, <3>1 DEF Reserve, Admitted, TypeOK
      <4> QED BY <1>0, <2>2, <2>4, <4>1, DeclaredWithinLedger, LedgerTypes, ConstantTypes
    <3>2. CASE ~Reserve(c)
      <4>1. /\ v \in Declared => Total(alloc, Declared) <= Available
            /\ Total(alloc, Declared) \in Nat
        BY <1>0, <2>2, <1>6, <3>2, DeclaredWithinLedger
        DEF LoadReturns, LoadRaises, MarkLoaded, Admitted, InFlight
      <4>2. CASE LoadReturns(c)
        BY <1>0, <2>2, <2>4, <4>1, <4>2, ConstantTypes DEF LoadReturns, TypeOK
      <4>3. CASE LoadRaises(c)
        BY <1>0, <1>4, <2>2, <2>4, <4>1, <4>3, ConstantTypes DEF LoadRaises, TypeOK
      <4>4. CASE MarkLoaded(c)
        <5>1. loaded'[v] /\ thr'[c] = "ok" /\ thr[c] \in InFlight
          BY <1>0, <2>2, <4>4 DEF MarkLoaded, ThreadEnds, Behaves, InFlight, TypeOK
        <5>2. v \in Declared => alloc'[v] <= alloc[v] + Foreign
          BY <1>0, <2>2, <2>5, <5>1 DEF Admitted, TypeOK, InFlight
        <5> QED BY <1>0, <1>4, <2>2, <2>4, <4>1, <5>1, <5>2, ConstantTypes DEF InFlight
      <4> QED BY <1>6, <3>2, <4>2, <4>3, <4>4
    <3> QED BY <3>1, <3>2
  <2>7. Admitted(c)'
    BY <1>0, <1>6, <2>1, <2>2, <2>6
    DEF Admitted, Reserve, LoadReturns, LoadRaises, MarkLoaded, ThreadEnds, InFlight,
        Svc, TypeOK
  <2> QED BY <1>2, <1>3, <2>5, <2>6, <2>7, AdmittedStep
<1> QED BY <1>5, <1>6

LEMMA AdmittedNext ==
  ASSUME HonestEstimates, AdmittedInv, [Next]_vars
  PROVE  AdmittedInv'
<1>1. LedgerInv'
  BY LedgerNext DEF AdmittedInv, HonestEstimates
<1>2. ASSUME NEW c \in Calls, LoopStep(c) PROVE AdmittedInv'
  BY <1>1, <1>2, CoroutineAdmitted
<1>3. ASSUME NEW c \in Calls, ThreadStep(c) \/ LoadEnds(c) PROVE AdmittedInv'
  BY <1>1, <1>3, CoroutineAdmitted, WorkerAdmitted DEF ThreadStep, LoadEnds
<1>4. ASSUME NEW c \in Calls PROVE ~LoadTimesOut(c)
  <2>1. Svc(c) \notin SlowLoads
    BY DEF HonestEstimates, ClearLedger, EverythingLocked
  <2> QED BY <2>1 DEF LoadTimesOut
<1>5. ~Status
  BY DEF Status, HonestEstimates, ClearLedger
<1>6. ASSUME NEW c \in Calls, Submit(c) PROVE AdmittedInv'
  <2>1. TypeOK /\ Behaves(c) /\ thr[c] = "none"
    BY <1>6, LedgerTypes DEF AdmittedInv, Submit
  <2>2. /\ UNCHANGED <<alloc, free, vram, used, est, thr>>
        /\ pc'[c] = "begin" /\ \A d \in Calls \ {c} : pc'[d] = pc[d] /\ req'[d] = req[d]
    BY <1>6, <2>1 DEF Submit, Go, coreVars, threadVars, gpuVars, TypeOK
  <2>3. ASSUME NEW d \in Calls PROVE Admitted(d)'
    BY <2>1, <2>2 DEF AdmittedInv, Admitted, InFlight, Svc
  <2> QED BY <1>1, <2>2, <2>3 DEF AdmittedInv
<1>7. ASSUME NEW s \in Services, DriverFrees(s) PROVE AdmittedInv'
  BY <1>1, <1>7 DEF DriverFrees, coreVars, threadVars, AdmittedInv, Admitted, Svc
<1>8. CASE UNCHANGED vars
  BY <1>1, <1>8 DEF vars, coreVars, threadVars, gpuVars, AdmittedInv, Admitted, Svc
<1> QED BY <1>2, <1>3, <1>4, <1>5, <1>6, <1>7, <1>8 DEF Next

\* As long as no service exceeds its estimate, the services that declare one
\* never overcommit the GPU: but for the foreign memory one of them is charged,
\* free VRAM goes below zero only with a self-managed service on it (_can_fit,
\* _evict_for of services/forge.py).
THEOREM DeclaredNeverOvercommitHolds ==
  ASSUME HonestEstimates
  PROVE  Spec => []DeclaredNeverOvercommit
<1>1. ASSUME AdmittedInv PROVE DeclaredNeverOvercommit
  <2>1. SUFFICES ASSUME \A s \in Services : VramMb[s] = 0 => ~loaded[s]
                 PROVE  free >= -Foreign
    BY DEF DeclaredNeverOvercommit
  <2>2. ASSUME NEW s \in Services \ Declared PROVE alloc[s] = 0
    <3>1. VramMb[s] = 0 /\ ~loaded[s] /\ alloc[s] \in Nat
      BY <1>1, <2>1, <2>2, LedgerTypes, ConstantTypes DEF Declared, AdmittedInv, TypeOK
    <3>2. SUFFICES ASSUME alloc[s] > 0 PROVE FALSE
      BY <3>1
    <3>3. PICK c \in Calls : thr[c] \in InFlight /\ Svc(c) = s
      BY <1>1, <3>1, <3>2 DEF AdmittedInv, LedgerInv, LedgerRow
    <3>4. est[c] = alloc[s] /\ est[c] = VramMb[s]
      BY <1>1, <3>3 DEF AdmittedInv, LedgerInv, LedgerCall, Admitted
    <3> QED BY <3>1, <3>2, <3>4
  <2> QED BY <1>1, <2>2, DeclaredWithinLedger, LedgerTypes, ConstantTypes DEF AdmittedInv
<1>2. AdmittedInv /\ [Next]_vars => AdmittedInv'
  BY AdmittedNext
<1>3. Init => AdmittedInv
  BY AdmittedInit
<1> QED BY <1>1, <1>2, <1>3, PTL DEF Spec

-----------------------------------------------------------------------------
(* Who is refused.                                                         *)

\* The empty GPU has the room a service that manages its own memory needs.
Fitting ==
  /\ ClearLedger
  /\ MinCofree <= Available
  /\ MinCofree + Foreign <= Available + Reserved

\* An invoke never has to make room, for it has emptied the GPU before, unless
\* no GPU would be enough.
RoomInv ==
  /\ LedgerInv /\ OrderInv
  /\ vram = VramMb
  /\ \A c \in Calls : Op(c) = "invoke" /\ pc[c] = "evict" => VramMb[Svc(c)] > Available

\* With nothing loaded, the ledger has everything free, and the driver has
\* everything but the foreign memory.
LEMMA EmptyGpuHasRoom ==
  ASSUME Fitting, LedgerInv, vram = VramMb, Loaded = {},
         NEW c \in Calls, pc[c] \in {"admit", "evict"},
         ~(VramMb[Svc(c)] > Available)
  PROVE  /\ CanFit(Svc(c))
         /\ free >= Needed(Svc(c)) /\ RealFree >= MinCofree
<1>1. \A d \in Calls : pc[d] # "settling" /\ thr[d] = "none"
  BY OthersQuiet, LedgerTypes DEF Behaves
<1>2. \A s \in Services : ~loaded[s]
  BY DEF Loaded
<1>3. \A s \in Services : alloc[s] = 0 /\ used[s] = 0
  BY <1>1, <1>2, LedgerTypes DEF LedgerInv, LedgerRow, TypeOK, InFlight
<1>4. Total(alloc, Services) = 0 /\ Total(used, Services) = 0
      /\ Total(drain, Services) = 0
  BY <1>1, <1>3, TotalZero, NothingDrains
<1>5. /\ Available \in Nat /\ Reserved \in Nat /\ MinCofree \in Nat /\ Foreign \in Nat
      /\ MinCofree <= Available /\ MinCofree + Foreign <= Available + Reserved
  BY ConstantTypes DEF Fitting
<1>6. free = Available /\ RealFree = Available + Reserved - Foreign
  BY <1>4, <1>5, LedgerTypes DEF LedgerInv, LedgerConserved, Allocated, RealFree, RealUsed
<1>7. Svc(c) \in Services /\ VramMb[Svc(c)] <= Available /\ VramMb[Svc(c)] \in Nat
  <2>1. req[c] \in Requests /\ req[c].op \in Loads
    BY LedgerTypes DEF CallShape, LoadPCs, Op
  <2> QED BY <1>5, <2>1, LoadsNameServices, ConstantTypes DEF Svc
<1>8. Allocated = 0
  BY <1>4 DEF Allocated
<1>9. RealFree >= MinCofree
  BY <1>5, <1>6
<1> QED BY <1>2, <1>5, <1>6, <1>7, <1>8, <1>9 DEF CanFit, Needed, Loaded

LEMMA RoomNext ==
  ASSUME Fitting, RoomInv, LedgerInv', OrderInv', [Next]_vars
  PROVE  RoomInv'
<1> USE DEF Go, Continue, Await, coreVars, threadVars, gpuVars
<1>0. TypeOK /\ \A d \in Calls : Exclusive(d) /\ Behaves(d) /\ CallShape(d)
  BY LedgerTypes DEF RoomInv
<1>1. vram' = vram
  <2>1. Measured = {}
    BY DEF Fitting, ClearLedger
  <2>2. ASSUME NEW c \in Calls, Unloaded(c) \/ LoadReturns(c) PROVE vram' = vram
    BY <1>0, <2>1, <2>2 DEF Unloaded, LoadReturns, TypeOK
  <2> QED BY <2>2
    DEF Next, LoopStep, ThreadStep, LoadEnds, Submit, Status, DriverFrees,
        InvokeBegin, PreloadLoaded, PreloadBegin, ReleaseBegin, UnloadNext,
        UnloadsDone, GpuNotReady, GpuReady, Clean, Admit, EvictNext, EvictDone,
        Refuse, LoadJoined, LoadFailed, InferReturns, UnloadRaises, Settled,
        Reserve, MarkLoaded, LoadRaises, LoadTimesOut, vars
<1>2. ASSUME NEW d \in Calls, pc'[d] = "evict"
      PROVE  Op(d)' = Op(d) /\ req'[d] = req[d] /\ (pc[d] = "evict" \/ Admit(d) \/ Settled(d))
  <2>1. ASSUME NEW c \in Calls, LoopStep(c)
        PROVE  /\ \A e \in Calls \ {c} : pc'[e] = pc[e] /\ req'[e] = req[e]
               /\ pc'[c] = "evict" =>
                    req'[c] = req[c] /\ (pc[c] = "evict" \/ Admit(c))
    BY <1>0, <2>1, SMTT(30)
    DEF LoopStep, Finish, InvokeBegin, PreloadLoaded, PreloadBegin, ReleaseBegin,
        UnloadNext, UnloadsDone, GpuNotReady, GpuReady, Clean, Admit, EvictNext,
        EvictDone, Refuse, LoadJoined, LoadFailed, InferReturns, TypeOK
  <2>2. ASSUME NEW c \in Calls, ThreadStep(c) \/ LoadEnds(c)
        PROVE  /\ \A e \in Calls \ {c} : pc'[e] = pc[e] /\ req'[e] = req[e]
               /\ pc'[c] = "evict" =>
                    req'[c] = req[c] /\ (pc[c] = "evict" \/ Settled(c))
    <3>1. CASE MarkLoaded(c) \/ LoadRaises(c)
      BY <1>0, <3>1 DEF MarkLoaded, LoadRaises, ThreadEnds, Behaves, TypeOK
    <3>2. CASE Unloaded(c) \/ UnloadRaises(c) \/ Settled(c) \/ Reserve(c) \/ LoadReturns(c)
      BY <1>0, <3>2
      DEF Unloaded, UnloadRaises, Finish, Settled, Reserve, LoadReturns, TypeOK
    <3> QED BY <2>2, <3>1, <3>2 DEF ThreadStep, LoadEnds
  <2>3. ASSUME NEW c \in Calls, LoadTimesOut(c) PROVE FALSE
    <3>1. Svc(c) \notin SlowLoads
      BY DEF Fitting, ClearLedger, EverythingLocked
    <3> QED BY <2>3, <3>1 DEF LoadTimesOut
  <2>4. ASSUME NEW c \in Calls, Submit(c)
        PROVE  \A e \in Calls : pc'[e] = "evict" => pc[e] = "evict" /\ req'[e] = req[e]
    BY <1>0, <2>4 DEF Submit, TypeOK
  <2>5. CASE \/ Status \/ UNCHANGED vars \/ \E s \in Services : DriverFrees(s)
    BY <1>2, <2>5 DEF Status, DriverFrees, vars, Op
  <2> QED BY <1>2, <2>1, <2>2, <2>3, <2>4, <2>5 DEF Next, Op
<1>3. ASSUME NEW d \in Calls, Op(d)' = "invoke", pc'[d] = "evict"
      PROVE  VramMb[Svc(d)'] > Available
  <2>0. Svc(d)' = Svc(d)
    BY <1>2, <1>3 DEF Svc
  <2> SUFFICES ASSUME ~(VramMb[Svc(d)] > Available) PROVE FALSE
    BY <2>0
  <2>1. Op(d) = "invoke" /\ (Admit(d) \/ Settled(d))
    BY <1>2, <1>3 DEF RoomInv
  <2>2. CASE Admit(d)
    <3>1. pc[d] = "admit" /\ Loaded = {}
      BY <1>0, <2>1, <2>2 DEF Admit, Exclusive
    <3>2. CanFit(Svc(d))
      BY <3>1, EmptyGpuHasRoom DEF RoomInv
    <3>3. pc' = [pc EXCEPT ![d] = "ready"]
      BY <2>2, <3>2 DEF Admit
    <3> QED BY <1>0, <1>3, <3>3 DEF TypeOK
  <2>3. CASE Settled(d)
    <3>1. evloop # d
      BY <1>0, <2>1, <2>3 DEF Settled, Exclusive
    <3> QED BY <1>0, <1>3, <2>3, <3>1 DEF Settled, TypeOK
  <2> QED BY <2>1, <2>2, <2>3
<1> QED BY <1>1, <1>3 DEF RoomInv

\* A request is refused only because its service declares more than the whole
\* of AVAILABLE_MB, or, a preload, because a PIPELINE_LOCKED service holds the
\* GPU ("Cannot free enough VRAM", services/forge.py).
THEOREM RefusalJustifiedHolds ==
  ASSUME Fitting
  PROVE  Spec => RefusalJustified
<1> DEFINE Reason(c) ==
      \/ VramMb[Svc(c)] > Available
      \/ /\ Op(c) = "preload"
         /\ \E s \in Loaded : Priority(s) >= PIPELINE_LOCKED
<1> DEFINE Justified == \A c \in Calls : Refuse(c) => Reason(c)
<1>1. ASSUME RoomInv PROVE Justified
  <2>1. SUFFICES ASSUME NEW c \in Calls, Refuse(c), ~(VramMb[Svc(c)] > Available)
                 PROVE  /\ Op(c) = "preload"
                        /\ \E s \in Loaded : Priority(s) >= PIPELINE_LOCKED
    OBVIOUS
  <2>2. pc[c] = "evict" /\ loc[c].todo = {} /\ ~Enough(c)
    <3>1. Svc(c) \in Services
      <4>1. req[c] \in Requests /\ req[c].op \in Loads
        BY <1>1, <2>1, LedgerTypes
        DEF RoomInv, Refuse, EvictOver, CallShape, LoadPCs, Op
      <4> QED BY <4>1, LoadsNameServices DEF Svc
    <3>2. /\ free \in Int /\ RealFree \in Int /\ MinCofree \in Nat
          /\ Needed(Svc(c)) \in Nat
      BY <1>1, <3>1, LedgerTypes, ConstantTypes DEF RoomInv, Needed
    <3>3. ~Enough(c)
      BY <2>1, <3>2 DEF Refuse, Refused, Enough
    <3> QED BY <2>1, <3>3 DEF Refuse, EvictOver
  <2>3. Op(c) = "preload"
    BY <1>1, <2>1, <2>2, LedgerTypes DEF RoomInv, CallShape, LoadPCs, Loads
  <2>4. \A s \in Loaded : Priority(s) >= PIPELINE_LOCKED
    BY <1>1, <2>2, <2>3 DEF RoomInv, OrderInv, InOrder
  <2>5. Loaded # {}
    <3> SUFFICES ASSUME Loaded = {} PROVE FALSE
      OBVIOUS
    <3>1. free >= Needed(Svc(c)) /\ RealFree >= MinCofree
      BY <1>1, <2>1, <2>2, EmptyGpuHasRoom DEF RoomInv
    <3> QED BY <2>2, <3>1 DEF Enough
  <2> QED BY <2>3, <2>4, <2>5
<1>2. Init => RoomInv
  <2>1. ASSUME Init PROVE vram = VramMb /\ \A c \in Calls : pc[c] # "evict"
    BY <2>1 DEF Init
  <2> QED BY <2>1, LedgerInit, OrderInit DEF RoomInv, Fitting
<1>3. RoomInv /\ [Next]_vars => RoomInv'
  BY RoomNext, LedgerNext, OrderNext DEF RoomInv, Fitting, ClearLedger
<1>4. RoomInv /\ [Next]_vars => [Justified]_vars
  BY <1>1
<1> QED BY <1>2, <1>3, <1>4, PTL DEF Spec, RefusalJustified
=============================================================================
