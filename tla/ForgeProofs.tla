---------------------------- MODULE ForgeProofs ----------------------------
(***************************************************************************)
(* What holds of the Forge for every set of services, every VRAM budget    *)
(* and any number of concurrent requests.                                  *)
(***************************************************************************)
EXTENDS Forge, FiniteSetTheorems, FunctionTheorems, TLAPS

-----------------------------------------------------------------------------
(* The arithmetic of Total, from the theorems on cardinality.              *)

\* The blocks of finitely many services with natural amounts are finite, so
\* their total is a natural number (sum() in _total_allocated).
LEMMA TotalType ==
  ASSUME NEW S, IsFiniteSet(S), NEW f, \A s \in S : f[s] \in Nat
  PROVE  IsFiniteSet(Blocks(f, S)) /\ Total(f, S) \in Nat
<1>1. \A s \in S : IsFiniteSet(BlocksOf(f, s))
  <2>1. TAKE s \in S
  <2>2. IsFiniteSet({s}) BY FS_Singleton
  <2>3. IsFiniteSet(1..f[s]) BY FS_Interval
  <2> QED BY <2>2, <2>3, FS_Product DEF BlocksOf
<1>2. IsFiniteSet({BlocksOf(f, s) : s \in S})
  <2> DEFINE h == [s \in S |-> BlocksOf(f, s)]
             I == {BlocksOf(f, s) : s \in S}
  <2>1. h \in [S -> I] /\ \A b \in I : \E s \in S : h[s] = b
    OBVIOUS
  <2>2. h \in Surjection(S, I)
    BY <2>1 DEF Surjection
  <2> QED BY <2>2, FS_Surjection
<1>3. IsFiniteSet(Blocks(f, S))
  BY <1>1, <1>2, FS_UNION DEF Blocks
<1> QED BY <1>3, FS_CardinalityType DEF Total

\* A table without entries holds nothing.
LEMMA TotalZero ==
  ASSUME NEW S, NEW f, \A s \in S : f[s] = 0
  PROVE  Total(f, S) = 0
<1>1. Blocks(f, S) = {}
  BY SMT DEF Blocks, BlocksOf
<1> QED BY <1>1, FS_EmptySet DEF Total

\* The amount of one service is its number of blocks.
LEMMA BlocksOfOne ==
  ASSUME NEW f, NEW s, f[s] \in Nat
  PROVE  IsFiniteSet(BlocksOf(f, s)) /\ Cardinality(BlocksOf(f, s)) = f[s]
<1>1. IsFiniteSet({s}) /\ Cardinality({s}) = 1
  BY FS_Singleton
<1>2. IsFiniteSet(1..f[s]) /\ Cardinality(1..f[s]) = f[s]
  BY FS_Interval
<1>3. /\ IsFiniteSet({s} \X (1..f[s]))
      /\ Cardinality({s} \X (1..f[s])) = Cardinality({s}) * Cardinality(1..f[s])
  BY <1>1, <1>2, FS_Product
<1> QED BY <1>1, <1>2, <1>3 DEF BlocksOf

\* A total splits along disjoint sets of services.
LEMMA TotalUnion ==
  ASSUME NEW S, IsFiniteSet(S), NEW T, IsFiniteSet(T), S \cap T = {},
         NEW f, \A s \in S \cup T : f[s] \in Nat
  PROVE  Total(f, S \cup T) = Total(f, S) + Total(f, T)
<1>1. Blocks(f, S \cup T) = Blocks(f, S) \cup Blocks(f, T)
  BY DEF Blocks
<1>2. Blocks(f, S) \cap Blocks(f, T) = {}
  BY DEF Blocks, BlocksOf
<1>3. IsFiniteSet(Blocks(f, S)) /\ IsFiniteSet(Blocks(f, T))
  BY TotalType
<1>4. Total(f, S) \in Nat /\ Total(f, T) \in Nat
  BY TotalType
<1>5. Cardinality(Blocks(f, S) \cap Blocks(f, T)) = 0
  BY <1>2, FS_EmptySet
<1>6. Cardinality(Blocks(f, S) \cup Blocks(f, T))
        = Cardinality(Blocks(f, S)) + Cardinality(Blocks(f, T))
          - Cardinality(Blocks(f, S) \cap Blocks(f, T))
  BY <1>3, FS_Union
<1>7. Total(f, S \cup T) = Total(f, S) + Total(f, T) - 0
  BY <1>1, <1>5, <1>6 DEF Total
<1> QED BY <1>4, <1>7

\* Tables that agree on S have the same total there.
LEMMA TotalSame ==
  ASSUME NEW S, NEW f, NEW g, \A s \in S : f[s] = g[s]
  PROVE  Total(f, S) = Total(g, S)
<1>1. \A s \in S : BlocksOf(f, s) = BlocksOf(g, s)
  BY DEF BlocksOf
<1>2. Blocks(f, S) = Blocks(g, S)
  BY <1>1 DEF Blocks
<1> QED BY <1>2 DEF Total

\* Changing the entry of one service changes the total by the difference: the
\* step every reservation, reconciliation and release of the ledger takes.
THEOREM TotalUpdate ==
  ASSUME NEW S, IsFiniteSet(S), NEW f, NEW g, \A r \in S : f[r] \in Nat /\ g[r] \in Nat,
         NEW s \in S, \A r \in S \ {s} : g[r] = f[r]
  PROVE  Total(g, S) = Total(f, S) - f[s] + g[s]
<1> DEFINE R == S \ {s}
<1>1. IsFiniteSet(R) /\ IsFiniteSet({s}) /\ R \cap {s} = {} /\ S = R \cup {s}
  BY FS_Subset, FS_Singleton
<1>2. g[s] \in Nat /\ \A r \in R : g[r] = f[r]
  OBVIOUS
<1>3. Total(f, S) = Total(f, R) + Total(f, {s})
  BY <1>1, TotalUnion
<1>4. Total(g, S) = Total(g, R) + Total(g, {s})
  BY <1>1, <1>2, TotalUnion
<1>5. Total(f, R) = Total(g, R)
  BY <1>2, TotalSame
<1>6. Total(f, {s}) = f[s] /\ Total(g, {s}) = g[s]
  <2>1. Blocks(f, {s}) = BlocksOf(f, s) /\ Blocks(g, {s}) = BlocksOf(g, s)
    BY DEF Blocks
  <2> QED BY <1>2, <2>1, BlocksOfOne DEF Total
<1>7. Total(f, R) \in Nat
  BY <1>1, TotalType
<1> QED BY <1>3, <1>4, <1>5, <1>6, <1>7

-----------------------------------------------------------------------------
(* Where the calls are.                                                    *)

Loads == {"invoke", "preload"}

LoadPCs == {"gpuwait", "clean", "admit", "evict", "ready", "loading", "infer"}

\* Where a call can be tells what its request and its loop variables are.
CallShape(c) ==
  /\ pc[c] # "idle" \/ thr[c] # "none" => req[c] \in Requests
  /\ pc[c] \in LoadPCs \/ thr[c] # "none" => Op(c) \in Loads
  /\ thr[c] # "none" => pc[c] \in {"idle", "loading"}
  /\ pc[c] \in {"freeing", "settling"} =>
       /\ loc[c].victim \in Services
       /\ evloop = c => Op(c) \in Loads

TypeInv == TypeOK /\ \A c \in Calls : CallShape(c)

-----------------------------------------------------------------------------
(* Typing of the helpers.                                                  *)

LEMMA LoadsNameServices ==
  ASSUME NEW r \in Requests, r.op \in Loads
  PROVE  r.svc \in Services
BY ForgeConstants DEF Loads, Ops

LEMMA NobodyIsNoCall == Nobody \notin Calls /\ Nobody \notin Services
BY ForgeConstants

LEMMA ConstantTypes ==
  /\ IsFiniteSet(Services)
  /\ VramMb \in [Services -> Nat]
  /\ Footprint \in [Services -> SUBSET Nat]
  /\ Available \in Nat /\ Reserved \in Nat /\ MinCofree \in Nat /\ Slack \in Nat
  /\ Foreign \in Nat
BY ForgeConstants

LEMMA TotalTypes ==
  ASSUME TypeOK, NEW S \in SUBSET Services
  PROVE  /\ Total(alloc, S) \in Nat
         /\ Total(used, S) \in Nat
         /\ Total(drain, S) \in Nat
<1>1. IsFiniteSet(S)
  BY ConstantTypes, FS_Subset
<1> QED BY <1>1, TotalType DEF TypeOK

LEMMA RealTypes ==
  ASSUME TypeOK
  PROVE  RealUsed \in Nat /\ RealFree \in Int /\ Allocated \in Nat
<1>1. RealUsed \in Nat /\ Allocated \in Nat
  BY TotalTypes, ConstantTypes DEF RealUsed, Allocated
<1> QED BY <1>1, ConstantTypes DEF RealFree

LEMMA CleanupTypes ==
  ASSUME TypeOK, CleanupStale
  PROVE  alloc' \in [Services -> Nat] /\ free' \in Int
<1>1. Total(alloc, Stale) \in Nat
  BY TotalTypes DEF Stale
<1> QED BY <1>1 DEF CleanupStale, TypeOK

-----------------------------------------------------------------------------
(* Type correctness.                                                       *)

LEMMA LocalsVictim ==
  ASSUME loc \in [Calls -> Locals], NEW c \in Calls,
         NEW v \in Services \cup {Nobody}, NEW m \in Int
  PROVE  /\ [loc EXCEPT ![c].victim = v, ![c].mark = m] \in [Calls -> Locals]
         /\ [loc EXCEPT ![c].todo = @ \ {v}, ![c].victim = v,
                        ![c].evicted = TRUE, ![c].mark = m] \in [Calls -> Locals]
<1>1. loc[c] \in Locals
  OBVIOUS
<1>2. loc[c].todo \ {v} \in SUBSET Services
  BY <1>1 DEF Locals
<1>3. [loc[c] EXCEPT !.victim = v, !.mark = m] \in Locals
  BY <1>1 DEF Locals
<1>4. [loc[c] EXCEPT !.todo = @ \ {v}, !.victim = v, !.evicted = TRUE, !.mark = m]
        \in Locals
  BY <1>1, <1>2 DEF Locals
<1>5. [loc EXCEPT ![c].victim = v, ![c].mark = m] \in [Calls -> Locals]
  BY <1>3
<1>6. [loc EXCEPT ![c].todo = @ \ {v}, ![c].victim = v,
                  ![c].evicted = TRUE, ![c].mark = m] \in [Calls -> Locals]
  BY <1>4
<1> QED
  BY <1>5, <1>6

LEMMA LocalsTodo ==
  ASSUME loc \in [Calls -> Locals], NEW c \in Calls,
         NEW T \in SUBSET Services, NEW h \in BOOLEAN
  PROVE  /\ [loc EXCEPT ![c].hot = h, ![c].todo = T] \in [Calls -> Locals]
         /\ [loc EXCEPT ![c].todo = T, ![c].evicted = h] \in [Calls -> Locals]
<1>1. loc[c] \in Locals
  OBVIOUS
<1>2. /\ [loc[c] EXCEPT !.hot = h, !.todo = T] \in Locals
      /\ [loc[c] EXCEPT !.todo = T, !.evicted = h] \in Locals
  BY <1>1 DEF Locals
<1> QED
  BY <1>2

LEMMA StartUnloadTypes ==
  ASSUME TypeOK, NEW c \in Calls, NEW v \in Services, StartUnload(c, v)
  PROVE  loc' \in [Calls -> Locals]
<1>1. RealFree \in Int
  BY RealTypes
<1> QED BY <1>1, LocalsVictim DEF StartUnload, TypeOK

-----------------------------------------------------------------------------
(* Type correctness.                                                       *)

LEMMA TypeInit == Init => TypeInv
<1> SUFFICES ASSUME Init PROVE TypeInv OBVIOUS
<1>1. NoLocals \in Locals
  BY DEF NoLocals, Locals
<1>2. TypeOK
  BY <1>1, ConstantTypes DEF Init, TypeOK, PCs
<1>3. \A c \in Calls : CallShape(c)
  BY DEF Init, CallShape, LoadPCs
<1> QED BY <1>2, <1>3 DEF TypeInv

LEMMA TypeNext == TypeInv /\ [Next]_vars => TypeInv'
<1> SUFFICES ASSUME TypeInv, [Next]_vars PROVE TypeInv'
  OBVIOUS
<1> USE DEF TypeInv, Op, Svc, Go, Continue, Await, coreVars, threadVars, gpuVars
<1>0. NoLocals \in Locals /\ Nobody \notin Calls
  BY NobodyIsNoCall DEF NoLocals, Locals
<1>1. ASSUME NEW c \in Calls, Submit(c) PROVE TypeInv'
  <2>1. TypeOK'
    BY <1>0, <1>1, SMTT(20)
    DEF Submit, TypeOK, CallShape, PCs, LoadPCs, Loads, Locals
  <2>2. ASSUME NEW d \in Calls PROVE CallShape(d)'
    BY <1>0, <1>1, SMTT(20)
    DEF Submit, TypeOK, CallShape, PCs, LoadPCs, Loads
  <2> QED BY <2>1, <2>2
<1>2. ASSUME NEW c \in Calls, InvokeBegin(c) PROVE TypeInv'
  <2>1. TypeOK'
    <3>1. loaded[Svc(c)] \in BOOLEAN
      BY <1>2, LoadsNameServices DEF InvokeBegin, Enter, TypeOK, CallShape, Loads
    <3>2. loc' \in [Calls -> Locals]
      BY <1>2, <3>1, LocalsTodo DEF InvokeBegin, TypeOK, Loaded
    <3> QED BY <1>2, <3>2, SMTT(20) DEF InvokeBegin, Lock, TypeOK, PCs
  <2>2. ASSUME NEW d \in Calls PROVE CallShape(d)'
    BY <1>0, <1>2, SMTT(20)
    DEF InvokeBegin, Enter, Lock, Loaded, TypeOK, CallShape, PCs, LoadPCs, Loads
  <2> QED BY <2>1, <2>2
<1>3. ASSUME NEW c \in Calls, PreloadLoaded(c) PROVE TypeInv'
  <2>1. TypeOK'
    BY <1>0, <1>3, SMTT(20)
    DEF PreloadLoaded, Enter, Finish, TypeOK, CallShape, PCs, LoadPCs, Loads, Locals
  <2>2. ASSUME NEW d \in Calls PROVE CallShape(d)'
    BY <1>0, <1>3, SMTT(20)
    DEF PreloadLoaded, Enter, Finish, TypeOK, CallShape, PCs, LoadPCs, Loads
  <2> QED BY <2>1, <2>2
<1>4. ASSUME NEW c \in Calls, PreloadBegin(c) PROVE TypeInv'
  <2>1. TypeOK'
    BY <1>0, <1>4, CleanupTypes, SMTT(20)
    DEF PreloadBegin, Enter, Lock, TypeOK, CallShape, PCs, LoadPCs, Loads, Locals
  <2>2. ASSUME NEW d \in Calls PROVE CallShape(d)'
    BY <1>0, <1>4, SMTT(20)
    DEF PreloadBegin, Enter, Lock, TypeOK, CallShape, PCs, LoadPCs, Loads
  <2> QED BY <2>1, <2>2
<1>5. ASSUME NEW c \in Calls, ReleaseBegin(c) PROVE TypeInv'
  <2>1. TypeOK'
    <3>1. PICK T \in SUBSET Services : loc' = [loc EXCEPT ![c].todo = T]
      BY <1>5 DEF ReleaseBegin, Loaded
    <3>2. loc' \in [Calls -> Locals]
      BY <3>1 DEF TypeOK, Locals
    <3> QED BY <1>5, <3>2, CleanupTypes, SMTT(20)
            DEF ReleaseBegin, Lock, TypeOK, PCs
  <2>2. ASSUME NEW d \in Calls PROVE CallShape(d)'
    BY <1>0, <1>5, SMTT(20)
    DEF ReleaseBegin, Enter, Lock, Loaded, TypeOK, CallShape, PCs, LoadPCs, Loads
  <2> QED BY <2>1, <2>2
<1>6. ASSUME NEW c \in Calls, UnloadNext(c) PROVE TypeInv'
  <2>1. TypeOK'
    <3>1. loc[c].todo \subseteq Services
      BY DEF TypeOK, Locals
    <3>2. loc' \in [Calls -> Locals]
      BY <1>6, <3>1, StartUnloadTypes DEF UnloadNext
    <3>3. /\ pc' \in [Calls -> PCs] /\ evloop' = Nobody
          /\ UNCHANGED <<coreVars, holder, req, threadVars, gpuVars>>
      BY <1>6 DEF UnloadNext, TypeOK, PCs
    <3> QED BY <3>2, <3>3 DEF TypeOK
  <2>2. ASSUME NEW d \in Calls PROVE CallShape(d)'
    BY <1>0, <1>6, SMTT(20)
    DEF UnloadNext, OnLoop, StartUnload, Locals, TypeOK, CallShape, PCs, LoadPCs, Loads
  <2> QED BY <2>1, <2>2
<1>7. ASSUME NEW c \in Calls, UnloadsDone(c) PROVE TypeInv'
  <2>1. TypeOK'
    <3>1. loc' \in [Calls -> Locals]
      BY <1>0, <1>7, SMTT(20) DEF UnloadsDone, TypeOK, Finish
    <3> QED BY <1>7, <3>1, SMTT(20) DEF UnloadsDone, Finish, TypeOK, PCs
  <2>2. ASSUME NEW d \in Calls PROVE CallShape(d)'
    BY <1>0, <1>7, SMTT(20)
    DEF UnloadsDone, OnLoop, Finish, TypeOK, CallShape, PCs, LoadPCs, Loads
  <2> QED BY <2>1, <2>2
<1>8. ASSUME NEW c \in Calls, Unloaded(c) PROVE TypeInv'
  <2>1. TypeOK'
    BY <1>0, <1>8, SMTT(20)
    DEF Unloaded, TypeOK, CallShape, PCs, LoadPCs, Loads, Locals
  <2>2. ASSUME NEW d \in Calls PROVE CallShape(d)'
    BY <1>0, <1>8, SMTT(20)
    DEF Unloaded, TypeOK, CallShape, PCs, LoadPCs, Loads
  <2> QED BY <2>1, <2>2
<1>9. ASSUME NEW c \in Calls, UnloadRaises(c) PROVE TypeInv'
  <2>1. TypeOK'
    BY <1>0, <1>9, SMTT(20)
    DEF UnloadRaises, OnLoop, Finish, TypeOK, CallShape, PCs, LoadPCs, Loads, Locals
  <2>2. ASSUME NEW d \in Calls PROVE CallShape(d)'
    BY <1>0, <1>9, SMTT(20)
    DEF UnloadRaises, OnLoop, Finish, TypeOK, CallShape, PCs, LoadPCs, Loads
  <2> QED BY <2>1, <2>2
<1>10. ASSUME NEW c \in Calls, Settled(c) PROVE TypeInv'
  <2>1. TypeOK'
    <3>1. /\ loc[c].mark \in Int /\ loc \in [Calls -> Locals]
          /\ Nobody \in Services \cup {Nobody} /\ 0 \in Int
      BY DEF TypeOK, Locals
    <3>2. [loc EXCEPT ![c].victim = Nobody, ![c].mark = 0] \in [Calls -> Locals]
      BY <3>1, LocalsVictim, Zenon
    <3>3. loc' \in [Calls -> Locals]
      BY <1>10, <3>2 DEF Settled
    <3>4. free' \in Int
      BY <1>10, <3>1, RealTypes DEF Settled, Larger, TypeOK
    <3> QED BY <1>10, <3>3, <3>4, SMTT(20) DEF Settled, TypeOK, PCs
  <2>2. ASSUME NEW d \in Calls PROVE CallShape(d)'
    BY <1>0, <1>10, SMTT(20)
    DEF Settled, Larger, TypeOK, CallShape, PCs, LoadPCs, Loads
  <2> QED BY <2>1, <2>2
<1>11. ASSUME NEW c \in Calls, GpuNotReady(c) PROVE TypeInv'
  <2>1. TypeOK'
    BY <1>0, <1>11, SMTT(20)
    DEF GpuNotReady, TypeOK, CallShape, PCs, LoadPCs, Loads, Locals
  <2>2. ASSUME NEW d \in Calls PROVE CallShape(d)'
    BY <1>0, <1>11, SMTT(20)
    DEF GpuNotReady, TypeOK, CallShape, PCs, LoadPCs, Loads
  <2> QED BY <2>1, <2>2
<1>12. ASSUME NEW c \in Calls, GpuReady(c) PROVE TypeInv'
  <2>1. TypeOK'
    BY <1>0, <1>12, SMTT(20)
    DEF GpuReady, OnLoop, TypeOK, CallShape, PCs, LoadPCs, Loads, Locals
  <2>2. ASSUME NEW d \in Calls PROVE CallShape(d)'
    BY <1>0, <1>12, SMTT(20)
    DEF GpuReady, OnLoop, TypeOK, CallShape, PCs, LoadPCs, Loads
  <2> QED BY <2>1, <2>2
<1>13. ASSUME NEW c \in Calls, Clean(c) PROVE TypeInv'
  <2>1. TypeOK'
    BY <1>0, <1>13, CleanupTypes, SMTT(20)
    DEF Clean, OnLoop, TypeOK, CallShape, PCs, LoadPCs, Loads, Locals
  <2>2. ASSUME NEW d \in Calls PROVE CallShape(d)'
    BY <1>0, <1>13, SMTT(20)
    DEF Clean, OnLoop, TypeOK, CallShape, PCs, LoadPCs, Loads
  <2> QED BY <2>1, <2>2
<1>14. ASSUME NEW c \in Calls, Admit(c) PROVE TypeInv'
  <2>1. TypeOK'
    <3>1. /\ loc \in [Calls -> Locals] /\ Loaded \in SUBSET Services
          /\ FALSE \in BOOLEAN
      BY DEF TypeOK, Loaded
    <3>2. [loc EXCEPT ![c].todo = Loaded, ![c].evicted = FALSE]
            \in [Calls -> Locals]
      BY <3>1, LocalsTodo, Zenon
    <3>3. loc' \in [Calls -> Locals]
      BY <1>14, <3>1, <3>2 DEF Admit
    <3> QED BY <1>14, <3>3, SMTT(20) DEF Admit, TypeOK, PCs
  <2>2. ASSUME NEW d \in Calls PROVE CallShape(d)'
    BY <1>0, <1>14, SMTT(20)
    DEF Admit, OnLoop, Loaded, TypeOK, CallShape, PCs, LoadPCs, Loads
  <2> QED BY <2>1, <2>2
<1>15. ASSUME NEW c \in Calls, EvictNext(c) PROVE TypeInv'
  <2>1. TypeOK'
    <3>1. loc[c] \in Locals /\ loc \in [Calls -> Locals]
      BY DEF TypeOK
    <3>2. PICK v \in Services : \/ loc' = [loc EXCEPT ![c].todo = @ \ {v}]
                                \/ StartUnload(c, v)
      BY <3>1, <1>15 DEF EvictNext, NextCandidates, Locals
    <3>3. [loc EXCEPT ![c].todo = @ \ {v}] \in [Calls -> Locals]
      BY <3>1 DEF Locals
    <3>4. loc' \in [Calls -> Locals]
      BY <3>2, <3>3, StartUnloadTypes
    <3>5. /\ pc' \in [Calls -> PCs] /\ evloop' = c
          /\ UNCHANGED <<coreVars, holder, req, threadVars, gpuVars>>
      BY <1>15 DEF EvictNext, TypeOK, PCs
    <3> QED BY <3>4, <3>5 DEF TypeOK
  <2>2. ASSUME NEW d \in Calls PROVE CallShape(d)'
    BY <1>0, <1>15, SMTT(20)
    DEF EvictNext, OnLoop, StartUnload, Locals, NextCandidates, TypeOK, CallShape, PCs, LoadPCs, Loads
  <2> QED BY <2>1, <2>2
<1>16. ASSUME NEW c \in Calls, EvictDone(c) PROVE TypeInv'
  <2>1. TypeOK'
    BY <1>0, <1>16, SMTT(20)
    DEF EvictDone, EvictOver, OnLoop, TypeOK, CallShape, PCs, LoadPCs, Loads, Locals
  <2>2. ASSUME NEW d \in Calls PROVE CallShape(d)'
    BY <1>0, <1>16, SMTT(20)
    DEF EvictDone, EvictOver, OnLoop, TypeOK, CallShape, PCs, LoadPCs, Loads
  <2> QED BY <2>1, <2>2
<1>17. ASSUME NEW c \in Calls, Refuse(c) PROVE TypeInv'
  <2>1. TypeOK'
    BY <1>0, <1>17, SMTT(20)
    DEF Refuse, EvictOver, OnLoop, Finish, TypeOK, CallShape, PCs, LoadPCs, Loads, Locals
  <2>2. ASSUME NEW d \in Calls PROVE CallShape(d)'
    BY <1>0, <1>17, SMTT(20)
    DEF Refuse, EvictOver, OnLoop, Finish, TypeOK, CallShape, PCs, LoadPCs, Loads
  <2> QED BY <2>1, <2>2
<1>18. ASSUME NEW c \in Calls, LoadJoined(c) PROVE TypeInv'
  <2>1. TypeOK'
    <3>1. loc' \in [Calls -> Locals]
      BY <1>0, <1>18, SMTT(20) DEF LoadJoined, TypeOK, Finish
    <3>2. /\ pc' \in [Calls -> PCs] /\ evloop' = Nobody
          /\ req' \in [Calls -> Requests \cup {NoRequest}]
          /\ holder' \in Calls \cup {Nobody}
      BY <1>18 DEF LoadJoined, TypeOK, Finish, PCs
    <3>3. thr' \in [Calls -> {"none", "queued", "running", "returned", "ok",
                             "failed"}]
      BY <1>18 DEF LoadJoined, TypeOK
    <3> QED BY <1>18, <3>1, <3>2, <3>3, SMTT(20) DEF LoadJoined, TypeOK
  <2>2. ASSUME NEW d \in Calls PROVE CallShape(d)'
    BY <1>0, <1>18, SMTT(20)
    DEF LoadJoined, OnLoop, Finish, TypeOK, CallShape, PCs, LoadPCs, Loads
  <2> QED BY <2>1, <2>2
<1>19. ASSUME NEW c \in Calls, LoadFailed(c) PROVE TypeInv'
  <2>1. TypeOK'
    BY <1>0, <1>19, CleanupTypes, SMTT(20)
    DEF LoadFailed, OnLoop, Finish, TypeOK, CallShape, PCs, LoadPCs, Loads, Locals
  <2>2. ASSUME NEW d \in Calls PROVE CallShape(d)'
    BY <1>0, <1>19, SMTT(20)
    DEF LoadFailed, OnLoop, Finish, TypeOK, CallShape, PCs, LoadPCs, Loads
  <2> QED BY <2>1, <2>2
<1>20. ASSUME NEW c \in Calls, InferReturns(c) PROVE TypeInv'
  <2>1. TypeOK'
    <3>1. loc' \in [Calls -> Locals]
      BY <1>0, <1>20, SMTT(20) DEF InferReturns, TypeOK, Finish
    <3>2. used' \in [Services -> Nat]
      BY <1>20, ConstantTypes DEF InferReturns, TypeOK
    <3> QED BY <1>20, <3>1, <3>2, SMTT(20) DEF InferReturns, Finish, TypeOK, PCs
  <2>2. ASSUME NEW d \in Calls PROVE CallShape(d)'
    BY <1>0, <1>20, SMTT(20)
    DEF InferReturns, OnLoop, Finish, TypeOK, CallShape, PCs, LoadPCs, Loads
  <2> QED BY <2>1, <2>2
<1>21. ASSUME NEW c \in Calls, Reserve(c) PROVE TypeInv'
  <2>1. TypeOK'
    BY <1>0, <1>21, LoadsNameServices, SMTT(20)
    DEF Reserve, TypeOK, CallShape, PCs, LoadPCs, Loads, Locals
  <2>2. ASSUME NEW d \in Calls PROVE CallShape(d)'
    BY <1>0, <1>21, SMTT(20)
    DEF Reserve, TypeOK, CallShape, PCs, LoadPCs, Loads
  <2> QED BY <2>1, <2>2
<1>22. ASSUME NEW c \in Calls, MarkLoaded(c) PROVE TypeInv'
  <2>1. TypeOK'
    BY <1>0, <1>22, LoadsNameServices, RealTypes, TotalTypes, SMTT(20)
    DEF MarkLoaded, ThreadEnds, Larger, TypeOK, CallShape, PCs, LoadPCs, Loads, Locals
  <2>2. ASSUME NEW d \in Calls PROVE CallShape(d)'
    <3>1. /\ thr[c] # "none" /\ pc' = pc /\ evloop' = evloop /\ loc' = loc
          /\ IF pc[c] = "loading" THEN req' = req
             ELSE thr' = [thr EXCEPT ![c] = "none"]
          /\ \A e \in Calls \ {c} : req'[e] = req[e] /\ thr'[e] = thr[e]
      BY <1>22 DEF MarkLoaded, ThreadEnds, TypeOK
    <3>2. CASE d # c
      BY <3>1, <3>2 DEF CallShape
    <3>3. CASE d = c /\ pc[c] = "loading"
      BY <3>1, <3>3 DEF CallShape, LoadPCs
    <3>4. CASE d = c /\ pc[c] # "loading"
      <4>1. pc[c] = "idle" /\ thr'[c] = "none"
        BY <3>1, <3>4 DEF CallShape, TypeOK
      <4> QED BY <3>1, <3>4, <4>1 DEF CallShape, LoadPCs
    <3> QED BY <3>2, <3>3, <3>4
  <2> QED BY <2>1, <2>2
<1>23. ASSUME NEW c \in Calls, LoadReturns(c) PROVE TypeInv'
  <2>1. TypeOK'
    <3>1. Svc(c) \in Services
      BY <1>23, LoadsNameServices DEF LoadReturns, CallShape, Loads
    <3>2. PICK m \in Nat :
            /\ used' = [used EXCEPT ![Svc(c)] = m]
            /\ vram' = [vram EXCEPT ![Svc(c)] = IF Svc(c) \in Measured
                          THEN Larger(0, m - used[Svc(c)]) ELSE @]
      BY <1>23, <3>1, ConstantTypes DEF LoadReturns
    <3>3. Larger(0, m - used[Svc(c)]) \in Nat
      BY <3>1 DEF Larger, TypeOK
    <3>4. used' \in [Services -> Nat] /\ vram' \in [Services -> Nat]
      BY <3>1, <3>2, <3>3 DEF TypeOK
    <3> QED BY <1>23, <3>4, SMTT(20) DEF LoadReturns, TypeOK
  <2>2. ASSUME NEW d \in Calls PROVE CallShape(d)'
    BY <1>0, <1>23, SMTT(20)
    DEF LoadReturns, Larger, TypeOK, CallShape, PCs, LoadPCs, Loads
  <2> QED BY <2>1, <2>2
<1>24. ASSUME NEW c \in Calls, LoadRaises(c) PROVE TypeInv'
  <2>1. TypeOK'
    BY <1>0, <1>24, LoadsNameServices, SMTT(20)
    DEF LoadRaises, ThreadEnds, TypeOK, CallShape, PCs, LoadPCs, Loads, Locals
  <2>2. ASSUME NEW d \in Calls PROVE CallShape(d)'
    <3>1. /\ thr[c] # "none" /\ pc' = pc /\ evloop' = evloop /\ loc' = loc
          /\ IF pc[c] = "loading" THEN req' = req
             ELSE thr' = [thr EXCEPT ![c] = "none"]
          /\ \A e \in Calls \ {c} : req'[e] = req[e] /\ thr'[e] = thr[e]
      BY <1>24 DEF LoadRaises, ThreadEnds, TypeOK
    <3>2. CASE d # c
      BY <3>1, <3>2 DEF CallShape
    <3>3. CASE d = c /\ pc[c] = "loading"
      BY <3>1, <3>3 DEF CallShape, LoadPCs
    <3>4. CASE d = c /\ pc[c] # "loading"
      <4>1. pc[c] = "idle" /\ thr'[c] = "none"
        BY <3>1, <3>4 DEF CallShape, TypeOK
      <4> QED BY <3>1, <3>4, <4>1 DEF CallShape, LoadPCs
    <3> QED BY <3>2, <3>3, <3>4
  <2> QED BY <2>1, <2>2
<1>25. ASSUME NEW c \in Calls, LoadTimesOut(c) PROVE TypeInv'
  <2>1. TypeOK'
    BY <1>0, <1>25, CleanupTypes, SMTT(20)
    DEF LoadTimesOut, OnLoop, Finish, TypeOK, CallShape, PCs, LoadPCs, Loads, Locals
  <2>2. ASSUME NEW d \in Calls PROVE CallShape(d)'
    BY <1>0, <1>25, SMTT(20)
    DEF LoadTimesOut, OnLoop, Finish, TypeOK, CallShape, PCs, LoadPCs, Loads
  <2> QED BY <2>1, <2>2
<1>26. ASSUME Status PROVE TypeInv'
  <2>1. TypeOK'
    BY <1>26, CleanupTypes, ConstantTypes DEF Status, TypeOK
  <2> QED BY <1>26, <2>1 DEF Status, CallShape
<1>27. ASSUME NEW s \in Services, DriverFrees(s) PROVE TypeInv'
  BY <1>27 DEF DriverFrees, TypeOK, CallShape
<1>28. ASSUME NEW c \in Calls, LoopStep(c) PROVE TypeInv'
  BY <1>28, <1>2, <1>3, <1>4, <1>5, <1>6, <1>7, <1>11, <1>12, <1>13, <1>14, <1>15, <1>16, <1>17, <1>18, <1>19, <1>20
  DEF LoopStep
<1>29. ASSUME NEW c \in Calls, ThreadStep(c) \/ LoadEnds(c) PROVE TypeInv'
  BY <1>29, <1>8, <1>9, <1>10, <1>21, <1>22, <1>23, <1>24
  DEF ThreadStep, LoadEnds
<1>30. CASE UNCHANGED vars
  BY <1>30 DEF vars, TypeOK, CallShape
<1> QED
  BY <1>1, <1>25, <1>26, <1>27, <1>28, <1>29, <1>30 DEF Next

\* The ledger, the threads and every coroutine's variables stay within their
\* types whatever requests arrive, and however many (services/forge.py).
THEOREM TypeCorrect == Spec => []TypeOK
<1>1. TypeInv => TypeOK
  BY DEF TypeInv
<1> QED BY <1>1, TypeInit, TypeNext, PTL DEF Spec

-----------------------------------------------------------------------------
(* The lock.                                                               *)

\* The wrapper of services/forge.py:676-688, and no load that outlives its call.
EverythingLocked == (\A r \in Requests : r.op \in LockedOps) /\ SlowLoads = {}

\* A call beyond its begin holds the lock, and its thread does not outlive it.
Behaves(c) ==
  /\ pc[c] \notin {"idle", "begin"} => holder = c
  /\ thr[c] # "none" => pc[c] = "loading"

LockInv == TypeInv /\ \A c \in Calls : Behaves(c)

LEMMA LockInit == Init => LockInv
BY TypeInit DEF Init, LockInv, Behaves

LEMMA LockNext ==
  ASSUME EverythingLocked, LockInv, [Next]_vars
  PROVE  LockInv'
<1> USE DEF Go, Continue, Await, coreVars, threadVars, gpuVars
<1>0. TypeInv' /\ TypeOK
  BY TypeNext DEF LockInv, TypeInv
<1>1. \A c \in Calls : pc[c] = "begin" => Op(c) \in LockedOps
  BY DEF LockInv, TypeInv, CallShape, EverythingLocked, Op
<1>2. ASSUME NEW c \in Calls, Submit(c), NEW d \in Calls PROVE Behaves(d)'
  BY <1>0, <1>2 DEF Submit, LockInv, Behaves, TypeOK
<1>3. ASSUME NEW c \in Calls, Enter(c), Lock(c)
      PROVE  /\ pc[c] = "begin" /\ holder' = c
             /\ \A d \in Calls : pc[d] \in {"idle", "begin"} /\ thr[d] = "none"
  <2>1. pc[c] = "begin" /\ holder = Nobody /\ holder' = c
    BY <1>1, <1>3 DEF Enter, Lock
  <2> QED BY <2>1, NobodyIsNoCall DEF LockInv, Behaves
<1>4. ASSUME NEW c \in Calls, InvokeBegin(c), NEW d \in Calls PROVE Behaves(d)'
  BY <1>0, <1>3, <1>4, SMTT(20) DEF InvokeBegin, Behaves, TypeOK
<1>5. ASSUME NEW c \in Calls, PreloadLoaded(c), NEW d \in Calls PROVE Behaves(d)'
  BY <1>0, <1>1, <1>5, SMTT(20)
  DEF PreloadLoaded, Enter, Finish, LockInv, Behaves, TypeOK
<1>6. ASSUME NEW c \in Calls, PreloadBegin(c), NEW d \in Calls PROVE Behaves(d)'
  BY <1>0, <1>3, <1>6, SMTT(20) DEF PreloadBegin, Behaves, TypeOK
<1>7. ASSUME NEW c \in Calls, ReleaseBegin(c), NEW d \in Calls PROVE Behaves(d)'
  BY <1>0, <1>3, <1>7, SMTT(20) DEF ReleaseBegin, Behaves, TypeOK
<1>8. ASSUME NEW c \in Calls, UnloadNext(c), NEW d \in Calls PROVE Behaves(d)'
  BY <1>0, <1>1, <1>8, SMTT(20)
  DEF UnloadNext, LockInv, Behaves, TypeOK
<1>9. ASSUME NEW c \in Calls, UnloadsDone(c), NEW d \in Calls PROVE Behaves(d)'
  BY <1>0, <1>1, <1>9, SMTT(20)
  DEF UnloadsDone, Finish, LockInv, Behaves, TypeOK
<1>10. ASSUME NEW c \in Calls, GpuNotReady(c), NEW d \in Calls PROVE Behaves(d)'
  BY <1>0, <1>1, <1>10, SMTT(20)
  DEF GpuNotReady, LockInv, Behaves, TypeOK
<1>11. ASSUME NEW c \in Calls, GpuReady(c), NEW d \in Calls PROVE Behaves(d)'
  BY <1>0, <1>1, <1>11, SMTT(20)
  DEF GpuReady, LockInv, Behaves, TypeOK
<1>12. ASSUME NEW c \in Calls, Clean(c), NEW d \in Calls PROVE Behaves(d)'
  BY <1>0, <1>1, <1>12, SMTT(20)
  DEF Clean, LockInv, Behaves, TypeOK
<1>13. ASSUME NEW c \in Calls, Admit(c), NEW d \in Calls PROVE Behaves(d)'
  BY <1>0, <1>1, <1>13, SMTT(20)
  DEF Admit, LockInv, Behaves, TypeOK
<1>14. ASSUME NEW c \in Calls, EvictNext(c), NEW d \in Calls PROVE Behaves(d)'
  BY <1>0, <1>1, <1>14, SMTT(20)
  DEF EvictNext, LockInv, Behaves, TypeOK
<1>15. ASSUME NEW c \in Calls, EvictDone(c), NEW d \in Calls PROVE Behaves(d)'
  BY <1>0, <1>1, <1>15, SMTT(20)
  DEF EvictDone, EvictOver, LockInv, Behaves, TypeOK
<1>16. ASSUME NEW c \in Calls, Refuse(c), NEW d \in Calls PROVE Behaves(d)'
  BY <1>0, <1>1, <1>16, SMTT(20)
  DEF Refuse, EvictOver, Finish, LockInv, Behaves, TypeOK
<1>17. ASSUME NEW c \in Calls, LoadJoined(c), NEW d \in Calls PROVE Behaves(d)'
  BY <1>0, <1>1, <1>17, SMTT(20)
  DEF LoadJoined, Finish, LockInv, Behaves, TypeOK
<1>18. ASSUME NEW c \in Calls, LoadFailed(c), NEW d \in Calls PROVE Behaves(d)'
  BY <1>0, <1>1, <1>18, SMTT(20)
  DEF LoadFailed, Finish, LockInv, Behaves, TypeOK
<1>19. ASSUME NEW c \in Calls, InferReturns(c), NEW d \in Calls PROVE Behaves(d)'
  BY <1>0, <1>1, <1>19, SMTT(20)
  DEF InferReturns, Finish, LockInv, Behaves, TypeOK
<1>20. ASSUME NEW c \in Calls, Unloaded(c), NEW d \in Calls PROVE Behaves(d)'
  BY <1>0, <1>1, <1>20, SMTT(20)
  DEF Unloaded, LockInv, Behaves, TypeOK
<1>21. ASSUME NEW c \in Calls, UnloadRaises(c), NEW d \in Calls PROVE Behaves(d)'
  BY <1>0, <1>1, <1>21, SMTT(20)
  DEF UnloadRaises, Finish, LockInv, Behaves, TypeOK
<1>22. ASSUME NEW c \in Calls, Settled(c), NEW d \in Calls PROVE Behaves(d)'
  BY <1>0, <1>1, <1>22, SMTT(20)
  DEF Settled, LockInv, Behaves, TypeOK
<1>23. ASSUME NEW c \in Calls, Reserve(c), NEW d \in Calls PROVE Behaves(d)'
  BY <1>0, <1>1, <1>23, SMTT(20)
  DEF Reserve, LockInv, Behaves, TypeOK
<1>24. ASSUME NEW c \in Calls, MarkLoaded(c), NEW d \in Calls PROVE Behaves(d)'
  BY <1>0, <1>1, <1>24, SMTT(20)
  DEF MarkLoaded, ThreadEnds, LockInv, Behaves, TypeOK
<1>25. ASSUME NEW c \in Calls, LoadReturns(c), NEW d \in Calls PROVE Behaves(d)'
  BY <1>0, <1>1, <1>25, SMTT(20)
  DEF LoadReturns, LockInv, Behaves, TypeOK
<1>26. ASSUME NEW c \in Calls, LoadRaises(c), NEW d \in Calls PROVE Behaves(d)'
  BY <1>0, <1>1, <1>26, SMTT(20)
  DEF LoadRaises, ThreadEnds, LockInv, Behaves, TypeOK
<1>27. ASSUME NEW c \in Calls PROVE ~LoadTimesOut(c)
  <2>1. Svc(c) \notin SlowLoads
    BY DEF EverythingLocked
  <2> QED BY <2>1 DEF LoadTimesOut
<1>28. ASSUME Status \/ \E s \in Services : DriverFrees(s), NEW d \in Calls
      PROVE  Behaves(d)'
  BY <1>28 DEF Status, DriverFrees, LockInv, Behaves
<1>29. CASE UNCHANGED vars
  BY <1>0, <1>29 DEF vars, LockInv, Behaves
<1>30. ASSUME NEW c \in Calls, LoopStep(c), NEW d \in Calls PROVE Behaves(d)'
  BY <1>30, <1>4, <1>5, <1>6, <1>7, <1>8, <1>9, <1>10, <1>11, <1>12, <1>13, <1>14, <1>15, <1>16, <1>17, <1>18, <1>19
  DEF LoopStep
<1>31. ASSUME NEW c \in Calls, ThreadStep(c) \/ LoadEnds(c), NEW d \in Calls
      PROVE  Behaves(d)'
  BY <1>31, <1>20, <1>21, <1>22, <1>23, <1>24, <1>25, <1>26 DEF ThreadStep, LoadEnds
<1> QED
  BY <1>0, <1>2, <1>27, <1>28, <1>29, <1>30, <1>31 DEF Next, LockInv

\* One request at a time loads or unloads (comment of _load_lock).
THEOREM OneAtATimeHolds ==
  ASSUME EverythingLocked
  PROVE  Spec => []OneAtATime
<1>1. LockInv => OneAtATime
  BY NobodyIsNoCall DEF LockInv, Behaves, OneAtATime, InTransition
<1>2. LockInv /\ [Next]_vars => LockInv'
  BY LockNext
<1> QED BY <1>1, <1>2, LockInit, PTL DEF Spec

-----------------------------------------------------------------------------
(* An invoke empties the GPU before it loads or infers.                    *)

\* What the for-loop of an invoke will leave loaded.
Keeps(c) == IF loc[c].hot THEN {Svc(c)} ELSE {}

\* Where an invoke is tells what is loaded.
Exclusive(c) ==
  /\ pc[c] \in {"gpuwait", "infer"} => Op(c) = "invoke"
  /\ Op(c) = "invoke" =>
       /\ pc[c] \in {"unload", "settling"} =>
            Loaded = Keeps(c) \cup loc[c].todo /\ Svc(c) \notin loc[c].todo
       /\ pc[c] = "freeing" =>
            /\ Loaded = Keeps(c) \cup loc[c].todo \cup {loc[c].victim}
            /\ loc[c].victim \notin loc[c].todo \cup {Svc(c)}
            /\ Svc(c) \notin loc[c].todo
            /\ evloop # c
       /\ pc[c] = "settling" => evloop # c
       /\ pc[c] = "gpuwait" => Loaded = Keeps(c)
       /\ pc[c] \in {"clean", "admit", "ready"} => Loaded = {}
       /\ pc[c] = "evict" => Loaded = {} /\ loc[c].todo = {}
       /\ pc[c] = "loading" => Loaded \subseteq {Svc(c)}
       /\ pc[c] = "infer" => Loaded = {Svc(c)}

ExclusiveInv == LockInv /\ \A c \in Calls : Exclusive(c)

\* A call at rest imposes nothing.
LEMMA ParkedExclusive ==
  ASSUME NEW c \in Calls, pc'[c] \in {"idle", "begin"}
  PROVE  Exclusive(c)'
BY DEF Exclusive

\* While one call holds the lock the others are at rest.
LEMMA OthersParked ==
  ASSUME LockInv, NEW c \in Calls, pc[c] \notin {"idle", "begin"},
         NEW d \in Calls, d # c
  PROVE  pc[d] \in {"idle", "begin"}
BY DEF LockInv, Behaves

LEMMA ExclusiveInit == Init => ExclusiveInv
BY LockInit DEF Init, ExclusiveInv, Exclusive

LEMMA ExclusiveNext ==
  ASSUME EverythingLocked, ExclusiveInv, [Next]_vars
  PROVE  ExclusiveInv'
<1> USE DEF Go, Continue, Await, coreVars, threadVars, gpuVars, Op, Svc
<1>0. TypeOK /\ LockInv /\ LockInv' /\ \A c \in Calls : CallShape(c) /\ Exclusive(c)
  BY LockNext DEF ExclusiveInv, LockInv, TypeInv
<1>1. \A c \in Calls : pc[c] = "begin" => Op(c) \in LockedOps
  BY <1>0 DEF CallShape, EverythingLocked
<1>2. ASSUME NEW c \in Calls, NEW d \in Calls, d # c, pc'[d] = pc[d],
             pc[c] \notin {"idle", "begin"} \/ Enter(c)
      PROVE  Exclusive(d)'
  <2>1. CASE pc[c] \notin {"idle", "begin"}
    BY <1>0, <1>2, <2>1, OthersParked, ParkedExclusive
  <2>2. CASE Enter(c)
    <3>1. holder = Nobody
      BY <1>1, <2>2 DEF Enter
    <3>2. pc[d] \in {"idle", "begin"}
      BY <1>0, <3>1, NobodyIsNoCall DEF LockInv, Behaves
    <3> QED BY <1>2, <3>2, ParkedExclusive
  <2> QED BY <1>2, <2>1, <2>2
<1>3. ASSUME NEW c \in Calls, InvokeBegin(c), NEW d \in Calls PROVE Exclusive(d)'
  <2>1. /\ pc[c] \notin {"idle", "begin"} \/ Enter(c)
        /\ \A e \in Calls \ {c} : pc'[e] = pc[e]
    BY <1>0, <1>3 DEF InvokeBegin, LockInv, Behaves, TypeOK
  <2>2. Exclusive(c)'
    <3>1. /\ Op(c) = "invoke" /\ Svc(c) \in Services /\ req' = req
          /\ Loaded' = Loaded /\ loaded' = loaded
      BY <1>0, <1>3, LoadsNameServices
      DEF InvokeBegin, Enter, CallShape, Loads, Loaded
    <3>2. /\ loc'[c].hot = loaded[Svc(c)]
          /\ loc'[c].todo = Loaded \ {Svc(c)}
      BY <1>0, <1>3 DEF InvokeBegin, TypeOK, Locals
    <3>3. \/ pc'[c] = "unload"
          \/ pc'[c] = "infer" /\ Loaded \ {Svc(c)} = {} /\ loaded[Svc(c)]
          \/ pc'[c] = "clean" /\ Loaded \ {Svc(c)} = {} /\ ~loaded[Svc(c)]
      BY <1>0, <1>3 DEF InvokeBegin, TypeOK
    <3>4. Svc(c) \in Loaded <=> loaded[Svc(c)]
      BY <3>1 DEF Loaded
    <3> QED BY <3>1, <3>2, <3>3, <3>4 DEF Exclusive, Keeps
  <2> QED BY <1>2, <2>1, <2>2
<1>4. ASSUME NEW c \in Calls, PreloadLoaded(c), NEW d \in Calls PROVE Exclusive(d)'
  <2>1. /\ pc[c] \notin {"idle", "begin"} \/ Enter(c)
        /\ \A e \in Calls \ {c} : pc'[e] = pc[e]
    BY <1>0, <1>4 DEF PreloadLoaded, Finish, LockInv, Behaves, TypeOK
  <2>2. pc'[c] = "idle"
    BY <1>0, <1>4 DEF PreloadLoaded, Finish, TypeOK
  <2> QED BY <1>2, <2>1, <2>2, ParkedExclusive
<1>5. ASSUME NEW c \in Calls, PreloadBegin(c), NEW d \in Calls PROVE Exclusive(d)'
  <2>1. /\ pc[c] \notin {"idle", "begin"} \/ Enter(c)
        /\ \A e \in Calls \ {c} : pc'[e] = pc[e]
    BY <1>0, <1>5 DEF PreloadBegin, LockInv, Behaves, TypeOK
  <2>2. Exclusive(c)'
    BY <1>0, <1>5, SMTT(20) DEF PreloadBegin, Enter, Exclusive, Keeps, Loaded, TypeOK, CallShape, Loads, LoadPCs, Locals
  <2> QED BY <1>2, <2>1, <2>2
<1>6. ASSUME NEW c \in Calls, ReleaseBegin(c), NEW d \in Calls PROVE Exclusive(d)'
  <2>1. /\ pc[c] \notin {"idle", "begin"} \/ Enter(c)
        /\ \A e \in Calls \ {c} : pc'[e] = pc[e]
    BY <1>0, <1>6 DEF ReleaseBegin, LockInv, Behaves, TypeOK
  <2>2. Exclusive(c)'
    BY <1>0, <1>6, SMTT(20) DEF ReleaseBegin, Enter, Exclusive, Keeps, Loaded, TypeOK, CallShape, Loads, LoadPCs, Locals
  <2> QED BY <1>2, <2>1, <2>2
<1>7. ASSUME NEW c \in Calls, UnloadNext(c), NEW d \in Calls PROVE Exclusive(d)'
  <2>1. /\ pc[c] \notin {"idle", "begin"} \/ Enter(c)
        /\ \A e \in Calls \ {c} : pc'[e] = pc[e]
    BY <1>0, <1>7 DEF UnloadNext, StartUnload, OnLoop, LockInv, Behaves, TypeOK
  <2>2. Exclusive(c)'
    <3>1. PICK v \in loc[c].todo : StartUnload(c, v)
      BY <1>7 DEF UnloadNext
    <3>2. /\ loc'[c].todo = loc[c].todo \ {v} /\ loc'[c].victim = v
          /\ loc'[c].hot = loc[c].hot
      BY <1>0, <3>1 DEF StartUnload, TypeOK, Locals
    <3>3. /\ pc[c] = "unload" /\ pc'[c] = "freeing" /\ evloop' # c
          /\ req' = req /\ Loaded' = Loaded
      BY <1>0, <1>7, NobodyIsNoCall DEF UnloadNext, TypeOK, Loaded
    <3> QED BY <1>0, <3>1, <3>2, <3>3 DEF Exclusive, Keeps
  <2> QED BY <1>2, <2>1, <2>2
<1>8. ASSUME NEW c \in Calls, UnloadsDone(c), NEW d \in Calls PROVE Exclusive(d)'
  <2>1. /\ pc[c] \notin {"idle", "begin"} \/ Enter(c)
        /\ \A e \in Calls \ {c} : pc'[e] = pc[e]
    BY <1>0, <1>8 DEF UnloadsDone, Finish, LockInv, Behaves, TypeOK
  <2>2. Exclusive(c)'
    BY <1>0, <1>8, SMTT(20) DEF UnloadsDone, Finish, Exclusive, Keeps, Loaded, TypeOK, CallShape, Loads, LoadPCs, Locals
  <2> QED BY <1>2, <2>1, <2>2
<1>9. ASSUME NEW c \in Calls, GpuNotReady(c), NEW d \in Calls PROVE Exclusive(d)'
  <2>1. /\ pc[c] \notin {"idle", "begin"} \/ Enter(c)
        /\ \A e \in Calls \ {c} : pc'[e] = pc[e]
    BY <1>0, <1>9 DEF GpuNotReady, LockInv, Behaves, TypeOK
  <2>2. Exclusive(c)'
    BY <1>0, <1>9, SMTT(20) DEF GpuNotReady, Exclusive, Keeps, Loaded, TypeOK, CallShape, Loads, LoadPCs, Locals
  <2> QED BY <1>2, <2>1, <2>2
<1>10. ASSUME NEW c \in Calls, GpuReady(c), NEW d \in Calls PROVE Exclusive(d)'
  <2>1. /\ pc[c] \notin {"idle", "begin"} \/ Enter(c)
        /\ \A e \in Calls \ {c} : pc'[e] = pc[e]
    BY <1>0, <1>10 DEF GpuReady, LockInv, Behaves, TypeOK
  <2>2. Exclusive(c)'
    BY <1>0, <1>10, SMTT(20) DEF GpuReady, Exclusive, Keeps, Loaded, TypeOK, CallShape, Loads, LoadPCs, Locals
  <2> QED BY <1>2, <2>1, <2>2
<1>11. ASSUME NEW c \in Calls, Clean(c), NEW d \in Calls PROVE Exclusive(d)'
  <2>1. /\ pc[c] \notin {"idle", "begin"} \/ Enter(c)
        /\ \A e \in Calls \ {c} : pc'[e] = pc[e]
    BY <1>0, <1>11 DEF Clean, OnLoop, LockInv, Behaves, TypeOK
  <2>2. Exclusive(c)'
    BY <1>0, <1>11, SMTT(20) DEF Clean, OnLoop, Exclusive, Keeps, Loaded, TypeOK, CallShape, Loads, LoadPCs, Locals
  <2> QED BY <1>2, <2>1, <2>2
<1>12. ASSUME NEW c \in Calls, Admit(c), NEW d \in Calls PROVE Exclusive(d)'
  <2>1. /\ pc[c] \notin {"idle", "begin"} \/ Enter(c)
        /\ \A e \in Calls \ {c} : pc'[e] = pc[e]
    BY <1>0, <1>12 DEF Admit, LockInv, Behaves, TypeOK
  <2>2. Exclusive(c)'
    BY <1>0, <1>12, SMTT(20) DEF Admit, Exclusive, Keeps, Loaded, TypeOK, CallShape, Loads, LoadPCs, Locals
  <2> QED BY <1>2, <2>1, <2>2
<1>13. ASSUME NEW c \in Calls, EvictNext(c), NEW d \in Calls PROVE Exclusive(d)'
  <2>1. /\ pc[c] \notin {"idle", "begin"} \/ Enter(c)
        /\ \A e \in Calls \ {c} : pc'[e] = pc[e]
    BY <1>0, <1>13 DEF EvictNext, NextCandidates, LockInv, Behaves, TypeOK
  <2>2. Exclusive(c)'
    BY <1>0, <1>13, SMTT(20) DEF EvictNext, NextCandidates, Exclusive, Keeps, Loaded, TypeOK, CallShape, Loads, LoadPCs, Locals
  <2> QED BY <1>2, <2>1, <2>2
<1>14. ASSUME NEW c \in Calls, EvictDone(c), NEW d \in Calls PROVE Exclusive(d)'
  <2>1. /\ pc[c] \notin {"idle", "begin"} \/ Enter(c)
        /\ \A e \in Calls \ {c} : pc'[e] = pc[e]
    BY <1>0, <1>14 DEF EvictDone, EvictOver, LockInv, Behaves, TypeOK
  <2>2. Exclusive(c)'
    BY <1>0, <1>14, SMTT(20) DEF EvictDone, EvictOver, Exclusive, Keeps, Loaded, TypeOK, CallShape, Loads, LoadPCs, Locals
  <2> QED BY <1>2, <2>1, <2>2
<1>15. ASSUME NEW c \in Calls, Refuse(c), NEW d \in Calls PROVE Exclusive(d)'
  <2>1. /\ pc[c] \notin {"idle", "begin"} \/ Enter(c)
        /\ \A e \in Calls \ {c} : pc'[e] = pc[e]
    BY <1>0, <1>15 DEF Refuse, Finish, EvictOver, LockInv, Behaves, TypeOK
  <2>2. pc'[c] = "idle"
    BY <1>0, <1>15 DEF Refuse, Finish, EvictOver, TypeOK
  <2> QED BY <1>2, <2>1, <2>2, ParkedExclusive
<1>16. ASSUME NEW c \in Calls, LoadJoined(c), NEW d \in Calls PROVE Exclusive(d)'
  <2>1. /\ pc[c] \notin {"idle", "begin"} \/ Enter(c)
        /\ \A e \in Calls \ {c} : pc'[e] = pc[e]
    BY <1>0, <1>16 DEF LoadJoined, Finish, LockInv, Behaves, TypeOK
  <2>2. Exclusive(c)'
    <3>1. CASE Op(c) = "invoke" /\ loaded[Svc(c)]
      <4>1. Svc(c) \in Services
        BY <1>0, <1>16, LoadsNameServices DEF LoadJoined, CallShape, Loads
      <4>2. pc[c] = "loading" /\ pc'[c] = "infer" /\ req' = req
            /\ Loaded' = Loaded
        BY <1>0, <1>16, <3>1 DEF LoadJoined, TypeOK, Loaded
      <4>3. Svc(c) \in Loaded
        BY <3>1, <4>1 DEF Loaded
      <4> QED BY <1>0, <3>1, <4>2, <4>3 DEF Exclusive
    <3>2. CASE ~(Op(c) = "invoke" /\ loaded[Svc(c)])
      <4>1. pc'[c] = "idle"
        BY <1>0, <1>16, <3>2 DEF LoadJoined, Finish, TypeOK
      <4> QED BY <4>1, ParkedExclusive
    <3> QED BY <3>1, <3>2
  <2> QED BY <1>2, <2>1, <2>2
<1>17. ASSUME NEW c \in Calls, LoadFailed(c), NEW d \in Calls PROVE Exclusive(d)'
  <2>1. /\ pc[c] \notin {"idle", "begin"} \/ Enter(c)
        /\ \A e \in Calls \ {c} : pc'[e] = pc[e]
    BY <1>0, <1>17 DEF LoadFailed, Finish, LockInv, Behaves, TypeOK
  <2>2. pc'[c] = "idle"
    BY <1>0, <1>17 DEF LoadFailed, Finish, TypeOK
  <2> QED BY <1>2, <2>1, <2>2, ParkedExclusive
<1>18. ASSUME NEW c \in Calls, InferReturns(c), NEW d \in Calls PROVE Exclusive(d)'
  <2>1. /\ pc[c] \notin {"idle", "begin"} \/ Enter(c)
        /\ \A e \in Calls \ {c} : pc'[e] = pc[e]
    BY <1>0, <1>18 DEF InferReturns, Finish, LockInv, Behaves, TypeOK
  <2>2. pc'[c] = "idle"
    BY <1>0, <1>18 DEF InferReturns, Finish, TypeOK
  <2> QED BY <1>2, <2>1, <2>2, ParkedExclusive
<1>19. ASSUME NEW c \in Calls, Unloaded(c), NEW d \in Calls PROVE Exclusive(d)'
  <2>1. /\ pc[c] \notin {"idle", "begin"} \/ Enter(c)
        /\ \A e \in Calls \ {c} : pc'[e] = pc[e]
    BY <1>0, <1>19 DEF Unloaded, LockInv, Behaves, TypeOK
  <2>2. Exclusive(c)'
    BY <1>0, <1>19, SMTT(20) DEF Unloaded, Exclusive, Keeps, Loaded, TypeOK, CallShape, Loads, LoadPCs, Locals
  <2> QED BY <1>2, <2>1, <2>2
<1>20. ASSUME NEW c \in Calls, UnloadRaises(c), NEW d \in Calls PROVE Exclusive(d)'
  <2>1. /\ pc[c] \notin {"idle", "begin"} \/ Enter(c)
        /\ \A e \in Calls \ {c} : pc'[e] = pc[e]
    BY <1>0, <1>20 DEF UnloadRaises, Finish, LockInv, Behaves, TypeOK
  <2>2. pc'[c] = "idle"
    BY <1>0, <1>20 DEF UnloadRaises, Finish, TypeOK
  <2> QED BY <1>2, <2>1, <2>2, ParkedExclusive
<1>21. ASSUME NEW c \in Calls, Settled(c), NEW d \in Calls PROVE Exclusive(d)'
  <2>1. /\ pc[c] \notin {"idle", "begin"} \/ Enter(c)
        /\ \A e \in Calls \ {c} : pc'[e] = pc[e]
    BY <1>0, <1>21 DEF Settled, LockInv, Behaves, TypeOK
  <2>2. Exclusive(c)'
    BY <1>0, <1>21, SMTT(20) DEF Settled, Exclusive, Keeps, Loaded, TypeOK, CallShape, Loads, LoadPCs, Locals
  <2> QED BY <1>2, <2>1, <2>2
<1>22. ASSUME NEW c \in Calls, Reserve(c), NEW d \in Calls PROVE Exclusive(d)'
  <2>1. /\ pc[c] \notin {"idle", "begin"} \/ Enter(c)
        /\ \A e \in Calls \ {c} : pc'[e] = pc[e]
    BY <1>0, <1>22 DEF Reserve, LockInv, Behaves, TypeOK
  <2>2. Exclusive(c)'
    BY <1>0, <1>22, SMTT(20) DEF Reserve, Exclusive, Keeps, Loaded, TypeOK, CallShape, Loads, LoadPCs, Locals
  <2> QED BY <1>2, <2>1, <2>2
<1>23. ASSUME NEW c \in Calls, MarkLoaded(c), NEW d \in Calls PROVE Exclusive(d)'
  <2>1. /\ pc[c] \notin {"idle", "begin"} \/ Enter(c)
        /\ \A e \in Calls \ {c} : pc'[e] = pc[e]
    BY <1>0, <1>23 DEF MarkLoaded, ThreadEnds, LockInv, Behaves, TypeOK
  <2>2. Exclusive(c)'
    BY <1>0, <1>23, SMTT(20) DEF MarkLoaded, ThreadEnds, Exclusive, Keeps, Loaded, TypeOK, CallShape, Loads, LoadPCs, Locals
  <2> QED BY <1>2, <2>1, <2>2
<1>24. ASSUME NEW c \in Calls, LoadReturns(c), NEW d \in Calls PROVE Exclusive(d)'
  <2>1. /\ pc[c] \notin {"idle", "begin"} \/ Enter(c)
        /\ \A e \in Calls \ {c} : pc'[e] = pc[e]
    BY <1>0, <1>24 DEF LoadReturns, LockInv, Behaves, TypeOK
  <2>2. Exclusive(c)'
    BY <1>0, <1>24, SMTT(20) DEF LoadReturns, Exclusive, Keeps, Loaded, TypeOK, CallShape, Loads, LoadPCs, Locals
  <2> QED BY <1>2, <2>1, <2>2
<1>25. ASSUME NEW c \in Calls, LoadRaises(c), NEW d \in Calls PROVE Exclusive(d)'
  <2>1. /\ pc[c] \notin {"idle", "begin"} \/ Enter(c)
        /\ \A e \in Calls \ {c} : pc'[e] = pc[e]
    BY <1>0, <1>25 DEF LoadRaises, ThreadEnds, LockInv, Behaves, TypeOK
  <2>2. Exclusive(c)'
    BY <1>0, <1>25, SMTT(20) DEF LoadRaises, ThreadEnds, Exclusive, Keeps, Loaded, TypeOK, CallShape, Loads, LoadPCs, Locals
  <2> QED BY <1>2, <2>1, <2>2
<1>26. ASSUME NEW c \in Calls, Submit(c), NEW d \in Calls PROVE Exclusive(d)'
  BY <1>0, <1>26, ParkedExclusive DEF Submit, Exclusive, Keeps, Loaded, TypeOK
<1>27. ASSUME Status \/ \E s \in Services : DriverFrees(s), NEW d \in Calls
      PROVE  Exclusive(d)'
  BY <1>0, <1>27 DEF Status, DriverFrees, Exclusive, Keeps, Loaded
<1>28. CASE UNCHANGED vars
  BY <1>0, <1>28 DEF vars, ExclusiveInv, Exclusive, Keeps, Loaded
<1>29. ASSUME NEW c \in Calls PROVE ~LoadTimesOut(c)
  <2>1. Svc(c) \notin SlowLoads
    BY DEF EverythingLocked
  <2> QED BY <2>1 DEF LoadTimesOut
<1>30. ASSUME NEW c \in Calls, LoopStep(c), NEW d \in Calls PROVE Exclusive(d)'
  BY <1>30, <1>3, <1>4, <1>5, <1>6, <1>7, <1>8, <1>9, <1>10, <1>11, <1>12, <1>13, <1>14, <1>15, <1>16, <1>17, <1>18
  DEF LoopStep
<1>31. ASSUME NEW c \in Calls, ThreadStep(c) \/ LoadEnds(c), NEW d \in Calls
      PROVE  Exclusive(d)'
  BY <1>31, <1>19, <1>20, <1>21, <1>22, <1>23, <1>24, <1>25 DEF ThreadStep, LoadEnds
<1> QED
  BY <1>0, <1>26, <1>27, <1>28, <1>29, <1>30, <1>31 DEF Next, ExclusiveInv

\* While a service infers for an invoke, it is loaded and nothing else is:
\* ForgeCore.invoke "overrides all locks" (services/forge.py:461-507).
THEOREM ServedAloneHolds ==
  ASSUME EverythingLocked
  PROVE  Spec => []ServedAlone
<1>1. ExclusiveInv => ServedAlone
  <2> SUFFICES ASSUME ExclusiveInv, NEW c \in Calls, pc[c] = "infer"
               PROVE  Loaded = {Svc(c)}
    BY DEF ServedAlone
  <2> QED BY DEF ExclusiveInv, Exclusive
<1>2. ExclusiveInv /\ [Next]_vars => ExclusiveInv'
  BY ExclusiveNext
<1> QED BY <1>1, <1>2, ExclusiveInit, PTL DEF Spec

-----------------------------------------------------------------------------
(* The Forge implements the arbiter of GpuArbiter: every step of its       *)
(* handlers, threads and driver is a step of the arbiter or none, for every *)
(* set of services and any number of requests.                             *)

MovingThreads == {"queued", "running", "returned"}

\* What one call moves, and whom it serves.
MovingBy(c) ==
  IF pc[c] = "freeing" THEN loc[c].victim
  ELSE IF thr[c] \in MovingThreads THEN Svc(c) ELSE Nobody

ServingBy(c) == IF pc[c] = "infer" THEN Svc(c) ELSE Nobody

\* Nobody but c uses the GPU.
Alone(c) ==
  \A d \in Calls \ {c} : pc[d] \in {"idle", "begin"} /\ thr[d] = "none"

-----------------------------------------------------------------------------
(* What the arbiter sees is what the one busy call does.                   *)

LEMMA SeenThroughOne ==
  \A c \in Calls : Alone(c) => Moving = MovingBy(c) /\ Serving = ServingBy(c)
<1> SUFFICES ASSUME NEW c \in Calls, Alone(c)
             PROVE  Moving = MovingBy(c) /\ Serving = ServingBy(c)
  OBVIOUS
<1>1. \A d \in Calls : d # c => /\ pc[d] # "freeing" /\ pc[d] # "infer"
                                /\ thr[d] \notin MovingThreads
  BY DEF Alone, MovingThreads
<1>2. ASSUME pc[c] = "freeing" PROVE (CHOOSE d \in Calls : pc[d] = "freeing") = c
  BY <1>1, <1>2
<1>3. ASSUME pc[c] = "infer" PROVE (CHOOSE d \in Calls : pc[d] = "infer") = c
  BY <1>1, <1>3
<1>4. ASSUME thr[c] \in MovingThreads
      PROVE  (CHOOSE d \in Calls : thr[d] \in MovingThreads) = c
  BY <1>1, <1>4
<1>5. Moving = MovingBy(c)
  <2>1. CASE pc[c] = "freeing"
    BY <1>2, <2>1 DEF Moving, MovingBy
  <2>2. CASE pc[c] # "freeing" /\ thr[c] \in MovingThreads
    BY <1>1, <1>4, <2>2 DEF Moving, MovingBy, MovingThreads
  <2>3. CASE pc[c] # "freeing" /\ thr[c] \notin MovingThreads
    BY <1>1, <2>3 DEF Moving, MovingBy, MovingThreads
  <2> QED BY <2>1, <2>2, <2>3
<1>6. Serving = ServingBy(c)
  <2>1. CASE pc[c] = "infer"
    BY <1>3, <2>1 DEF Serving, ServingBy
  <2>2. CASE pc[c] # "infer"
    BY <1>1, <2>2 DEF Serving, ServingBy
  <2> QED BY <2>1, <2>2
<1> QED BY <1>5, <1>6

LEMMA SeenAfterwards ==
  (\A c \in Calls : Alone(c) => Moving = MovingBy(c) /\ Serving = ServingBy(c))'
BY SeenThroughOne, PTL

\* The call that takes a step is alone, before it and after it.
LEMMA ActorAlone ==
  ASSUME EverythingLocked, ExclusiveInv, NEW c \in Calls,
         LoopStep(c) \/ ThreadStep(c) \/ LoadEnds(c)
  PROVE  /\ Alone(c) /\ Alone(c)'
         /\ TypeOK /\ CallShape(c) /\ Behaves(c) /\ Exclusive(c)
<1> USE DEF Go, Continue, Await, coreVars, threadVars, gpuVars
<1>0. TypeOK /\ LockInv /\ \A d \in Calls : CallShape(d) /\ Behaves(d) /\ Exclusive(d)
  BY DEF ExclusiveInv, LockInv, TypeInv
<1>1. Enter(c) \/ pc[c] \notin {"idle", "begin"}
  BY <1>0 DEF LoopStep, ThreadStep, LoadEnds, InvokeBegin, PreloadLoaded, PreloadBegin,
    ReleaseBegin, UnloadNext, UnloadsDone, GpuNotReady, GpuReady, Clean, Admit,
    EvictNext, EvictDone, EvictOver, Refuse, LoadJoined, LoadFailed, InferReturns,
    Unloaded, UnloadRaises, Settled, Reserve, LoadReturns, LoadRaises, MarkLoaded,
    Behaves
<1>2. ASSUME NEW d \in Calls \ {c} PROVE pc[d] \in {"idle", "begin"} /\ thr[d] = "none"
  <2>1. CASE Enter(c)
    <3>1. holder = Nobody
      BY <1>0, <2>1 DEF Enter, CallShape, EverythingLocked, Op
    <3> QED BY <1>0, <3>1, NobodyIsNoCall DEF Behaves
  <2>2. CASE pc[c] \notin {"idle", "begin"}
    <3>1. pc[d] \in {"idle", "begin"}
      BY <1>0, <2>2, OthersParked
    <3> QED BY <1>0, <3>1 DEF Behaves
  <2> QED BY <1>1, <2>1, <2>2
<1>3. \A d \in Calls \ {c} : pc'[d] = pc[d] /\ thr'[d] = thr[d]
  BY <1>0 DEF LoopStep, ThreadStep, LoadEnds, InvokeBegin, PreloadLoaded, PreloadBegin,
    ReleaseBegin, UnloadNext, UnloadsDone, GpuNotReady, GpuReady, Clean, Admit,
    EvictNext, EvictDone, Refuse, LoadJoined, LoadFailed, InferReturns,
    Unloaded, UnloadRaises, Settled, Reserve, LoadReturns, LoadRaises, MarkLoaded,
    ThreadEnds, Finish, TypeOK
<1> QED BY <1>0, <1>2, <1>3 DEF Alone

\* What the arbiter sees of a step of c.
LEMMA SeenStep ==
  ASSUME NEW c \in Calls, Alone(c), Alone(c)'
  PROVE  /\ Moving = MovingBy(c) /\ Serving = ServingBy(c)
         /\ Moving' = MovingBy(c)' /\ Serving' = ServingBy(c)'
BY SeenThroughOne, SeenAfterwards

ArbiterStep == Arbiter!Next \/ UNCHANGED Arbiter!vars

\* The handlers: they start unloads, loads and inference.
LEMMA LoopStepMaps ==
  ASSUME EverythingLocked, ExclusiveInv, ExclusiveInv', NEW c \in Calls, LoopStep(c)
  PROVE  ArbiterStep
<1> USE DEF Go, Continue, Await, coreVars, threadVars, gpuVars
<1>0. /\ Alone(c) /\ Alone(c)' /\ TypeOK /\ CallShape(c) /\ Behaves(c) /\ Exclusive(c)
      /\ Nobody \notin Services
  BY ActorAlone, NobodyIsNoCall
<1>1. Loaded' = Loaded
  BY DEF LoopStep, InvokeBegin, PreloadLoaded, PreloadBegin, ReleaseBegin, UnloadNext,
    UnloadsDone, GpuNotReady, GpuReady, Clean, Admit, EvictNext, EvictDone, Refuse,
    LoadJoined, LoadFailed, InferReturns, Loaded
<1>2. \/ /\ MovingBy(c)' = MovingBy(c) /\ ServingBy(c)' = ServingBy(c)
      \/ /\ MovingBy(c) = Nobody /\ MovingBy(c)' \in Services
         /\ ServingBy(c) = Nobody /\ ServingBy(c)' = Nobody
      \/ /\ MovingBy(c) = Nobody /\ MovingBy(c)' = Nobody
         /\ ServingBy(c) = Nobody /\ Svc(c) \in Services
         /\ ServingBy(c)' = Svc(c) /\ Loaded = {Svc(c)}
      \/ /\ MovingBy(c) = Nobody /\ MovingBy(c)' = Nobody
         /\ ServingBy(c) \in Services /\ ServingBy(c)' = Nobody
  <2>1. MovingBy(c) = Nobody /\ (pc[c] # "infer" => ServingBy(c) = Nobody)
    BY <1>0
    DEF LoopStep, InvokeBegin, PreloadLoaded, PreloadBegin, ReleaseBegin, UnloadNext,
      UnloadsDone, GpuNotReady, GpuReady, Clean, Admit, EvictNext, EvictDone, EvictOver,
      Refuse, LoadJoined, LoadFailed, InferReturns, Enter, Behaves, MovingBy, ServingBy,
      MovingThreads
  <2>2. CASE InvokeBegin(c) \/ GpuReady(c) \/ LoadJoined(c)
    <3>1. /\ pc[c] \in {"begin", "gpuwait", "ready", "loading"}
          /\ pc'[c] \in {"unload", "infer", "clean", "loading", "idle"}
          /\ thr'[c] \in {"none", "queued"}
          /\ thr'[c] = "queued" => pc'[c] = "loading"
          /\ pc'[c] # "idle" => req' = req /\ Op(c) \in Loads /\ req[c] \in Requests
      BY <1>0, <2>2
      DEF InvokeBegin, GpuReady, LoadJoined, Enter, Finish, TypeOK, Behaves, CallShape,
          LoadPCs, Loads
    <3>2. pc'[c] # "idle" => Svc(c) \in Services /\ Svc(c)' = Svc(c)
      BY <3>1, LoadsNameServices DEF Op, Svc
    <3>3. CASE pc'[c] = "infer"
      <4>1. thr'[c] = "none" /\ Loaded' = {Svc(c)'}
        BY <3>1, <3>3 DEF ExclusiveInv, Exclusive
      <4> QED BY <1>1, <2>1, <3>1, <3>2, <3>3, <4>1 DEF MovingBy, ServingBy, MovingThreads
    <3>4. CASE pc'[c] # "infer"
      BY <2>1, <3>1, <3>2, <3>4 DEF MovingBy, ServingBy, MovingThreads
    <3> QED BY <3>3, <3>4
  <2>3. CASE UnloadNext(c) \/ EvictNext(c)
    <3>1. /\ pc[c] \in {"unload", "evict"} /\ pc'[c] \in {"evict", "freeing"}
          /\ thr' = thr /\ thr[c] = "none"
      BY <1>0, <2>3 DEF UnloadNext, EvictNext, TypeOK, Behaves
    <3>2. pc'[c] = "freeing" => loc'[c].victim \in Services
      <4>1. SUFFICES ASSUME pc'[c] = "freeing"
                     PROVE  loc'[c].victim \in Services
        OBVIOUS
      <4>2. PICK v \in loc[c].todo : StartUnload(c, v)
        BY <1>0, <2>3, <4>1 DEF UnloadNext, EvictNext, NextCandidates, TypeOK
      <4> QED BY <1>0, <4>2 DEF StartUnload, TypeOK, Locals
    <3> QED BY <2>1, <3>1, <3>2 DEF MovingBy, ServingBy, MovingThreads
  <2>4. CASE InferReturns(c)
    <3>1. /\ pc[c] = "infer" /\ pc'[c] = "idle" /\ thr[c] = "none" /\ thr'[c] = "none"
          /\ req[c] \in Requests /\ Op(c) \in Loads
      BY <1>0, <2>4 DEF InferReturns, Finish, TypeOK, Behaves, CallShape, LoadPCs
    <3>2. Svc(c) \in Services
      BY <3>1, LoadsNameServices DEF Op, Svc
    <3> QED BY <2>1, <3>1, <3>2 DEF MovingBy, ServingBy, MovingThreads
  <2>5. CASE ~(\/ InvokeBegin(c) \/ GpuReady(c) \/ LoadJoined(c) \/ UnloadNext(c)
               \/ EvictNext(c) \/ InferReturns(c))
    <3>1. /\ pc[c] # "infer" /\ pc'[c] \notin {"freeing", "infer"}
          /\ thr'[c] \notin MovingThreads
      BY <1>0, <2>5
      DEF LoopStep, PreloadLoaded, PreloadBegin, ReleaseBegin, UnloadsDone, GpuNotReady,
        Clean, Admit, EvictDone, EvictOver, Refuse, LoadFailed, Enter, Finish, TypeOK,
        Behaves, MovingThreads
    <3> QED BY <2>1, <3>1 DEF MovingBy, ServingBy
  <2> QED BY <2>2, <2>3, <2>4, <2>5
<1>3. ArbiterStep
  <2>1. /\ Moving = MovingBy(c) /\ Serving = ServingBy(c)
        /\ Moving' = MovingBy(c)' /\ Serving' = ServingBy(c)'
    BY <1>0, SeenStep
  <2> QED BY <1>0, <1>1, <1>2, <2>1
      DEF ArbiterStep, Arbiter!Next, Arbiter!BeginMove, Arbiter!Serve, Arbiter!EndServe,
          Arbiter!EndMove, Arbiter!vars
<1> QED BY <1>3

\* The worker threads: they end loads and unloads.
LEMMA WorkerStepMaps ==
  ASSUME EverythingLocked, ExclusiveInv, NEW c \in Calls, ThreadStep(c) \/ LoadEnds(c)
  PROVE  ArbiterStep
<1> USE DEF Go, Await, coreVars, threadVars, gpuVars
<1>0. /\ Alone(c) /\ Alone(c)' /\ TypeOK /\ CallShape(c) /\ Behaves(c)
      /\ Nobody \notin Services
  BY ActorAlone, NobodyIsNoCall
<1>1. /\ Moving = MovingBy(c) /\ Serving = ServingBy(c)
      /\ Moving' = MovingBy(c)' /\ Serving' = ServingBy(c)'
  BY <1>0, SeenStep
<1>2. /\ pc[c] \in {"freeing", "settling", "loading"}
      /\ pc'[c] \in {"idle", "evict", "unload", "settling", "loading"}
      /\ ServingBy(c) = Nobody /\ ServingBy(c)' = Nobody
  BY <1>0 DEF ThreadStep, LoadEnds, Unloaded, UnloadRaises, Settled, Reserve,
    LoadReturns, LoadRaises, MarkLoaded, Finish, Behaves, ServingBy, TypeOK
<1>3. CASE Unloaded(c) \/ UnloadRaises(c)
  <2>1. /\ pc[c] = "freeing" /\ loc[c].victim \in Services /\ thr' = thr
        /\ thr[c] = "none"
    BY <1>0, <1>3 DEF Unloaded, UnloadRaises, CallShape, Behaves, TypeOK
  <2>2. MovingBy(c) = loc[c].victim /\ MovingBy(c)' = Nobody
    BY <1>2, <2>1 DEF MovingBy, MovingThreads
  <2>3. Loaded' \in {Loaded, Loaded \ {loc[c].victim}}
    BY <1>0, <1>3, <2>1 DEF Unloaded, UnloadRaises, Loaded, TypeOK
  <2> QED BY <1>0, <1>1, <1>2, <2>1, <2>2, <2>3
      DEF ArbiterStep, Arbiter!Next, Arbiter!EndMove
<1>4. CASE LoadRaises(c) \/ MarkLoaded(c)
  <2>1. /\ pc[c] = "loading" /\ pc' = pc /\ thr[c] \in MovingThreads
        /\ thr'[c] \notin MovingThreads /\ Svc(c) \in Services
    BY <1>0, <1>4, LoadsNameServices
    DEF LoadRaises, MarkLoaded, ThreadEnds, Behaves, CallShape, Op, Svc, MovingThreads,
        TypeOK
  <2>2. MovingBy(c) = Svc(c) /\ MovingBy(c)' = Nobody
    BY <2>1 DEF MovingBy
  <2>3. Loaded' \in {Loaded, Loaded \cup {Svc(c)}}
    BY <1>0, <1>4, <2>1 DEF LoadRaises, MarkLoaded, Loaded, TypeOK
  <2> QED BY <1>0, <1>1, <1>2, <2>1, <2>2, <2>3
      DEF ArbiterStep, Arbiter!Next, Arbiter!EndMove
<1>5. CASE Settled(c) \/ Reserve(c) \/ LoadReturns(c)
  <2>1. /\ Loaded' = Loaded /\ req' = req
        /\ pc[c] # "freeing"
        /\ thr[c] \in MovingThreads <=> thr'[c] \in MovingThreads
    BY <1>0, <1>5 DEF Settled, Reserve, LoadReturns, Loaded, Behaves, MovingThreads,
                      TypeOK
  <2>2. MovingBy(c)' = MovingBy(c)
    BY <1>2, <2>1 DEF MovingBy, Svc
  <2> QED BY <1>1, <1>2, <2>1, <2>2 DEF ArbiterStep, Arbiter!vars
<1> QED BY <1>3, <1>4, <1>5 DEF ThreadStep, LoadEnds

\* What happens outside the handlers is not seen by the arbiter.
LEMMA OutsideMaps ==
  ASSUME ExclusiveInv,
         \/ \E c \in Calls : Submit(c)
         \/ Status
         \/ \E s \in Services : DriverFrees(s)
         \/ UNCHANGED vars
  PROVE  UNCHANGED Arbiter!vars
<1>1. CASE \E c \in Calls : Submit(c)
  <2>1. PICK c \in Calls : Submit(c)
    BY <1>1
  <2>2. /\ TypeOK /\ LockInv /\ \A d \in Calls : Behaves(d)
    BY DEF ExclusiveInv, LockInv, TypeInv
  <2>3. /\ pc[c] = "idle" /\ thr[c] = "none" /\ pc'[c] = "begin" /\ thr' = thr
        /\ loc' = loc /\ Loaded' = Loaded
        /\ \A d \in Calls \ {c} : pc'[d] = pc[d] /\ req'[d] = req[d]
    BY <2>1, <2>2 DEF Submit, Go, coreVars, threadVars, gpuVars, TypeOK, Loaded
  <2>4. PICK d \in Calls : Alone(d)
    <3>1. CASE \E d \in Calls : pc[d] \notin {"idle", "begin"}
      BY <2>2, <3>1, OthersParked DEF Alone, Behaves
    <3>2. CASE \A d \in Calls : pc[d] \in {"idle", "begin"}
      BY <2>2, <3>2 DEF Alone, Behaves
    <3> QED BY <3>1, <3>2
  <2>5. Alone(d)'
    BY <2>3, <2>4 DEF Alone
  <2>6. MovingBy(d)' = MovingBy(d) /\ ServingBy(d)' = ServingBy(d)
    BY <2>3 DEF MovingBy, ServingBy, MovingThreads, Svc
  <2>7. Moving' = Moving /\ Serving' = Serving
    BY <2>4, <2>5, <2>6, SeenStep
  <2> QED BY <2>3, <2>7 DEF Arbiter!vars
<1>2. CASE \/ Status
           \/ \E s \in Services : DriverFrees(s)
           \/ UNCHANGED vars
  <2>1. UNCHANGED <<loaded, pc, thr, loc, req>>
    BY <1>2 DEF Status, DriverFrees, vars, coreVars, threadVars, gpuVars
  <2> QED BY <2>1 DEF Arbiter!vars, Moving, Serving, Loaded, Svc
<1> QED BY <1>1, <1>2

LEMMA NextMaps ==
  ASSUME EverythingLocked, ExclusiveInv, ExclusiveInv', [Next]_vars
  PROVE  ArbiterStep
<1>1. ASSUME NEW c \in Calls PROVE ~LoadTimesOut(c)
  <2>1. Svc(c) \notin SlowLoads
    BY DEF EverythingLocked
  <2> QED BY <2>1 DEF LoadTimesOut
<1> QED BY <1>1, LoopStepMaps, WorkerStepMaps, OutsideMaps DEF Next, ArbiterStep

\* The locked Forge implements the arbiter: the GPU changes hands one service
\* at a time, never while an invoke is served, and whoever is served has it
\* alone (_load_lock and ForgeCore.invoke of services/forge.py).
THEOREM ArbiterImplemented ==
  ASSUME EverythingLocked
  PROVE  Spec => ArbiterSpec
<1>1. ASSUME Init PROVE Arbiter!Init
  <2>1. Moving = Nobody /\ Serving = Nobody /\ Loaded = {}
    BY <1>1 DEF Init, Moving, Serving, Loaded
  <2> QED BY <2>1 DEF Arbiter!Init
<1>2. Init => ExclusiveInv
  BY ExclusiveInit
<1>3. ExclusiveInv /\ [Next]_vars => ExclusiveInv'
  BY ExclusiveNext
<1>4. ExclusiveInv /\ ExclusiveInv' /\ [Next]_vars => [Arbiter!Next]_(Arbiter!vars)
  BY NextMaps DEF ArbiterStep
<1> QED BY <1>1, <1>2, <1>3, <1>4, PTL DEF Spec, ArbiterSpec, Arbiter!Spec

-----------------------------------------------------------------------------
(* The order in which a preload makes room.                                *)

\* A preload unloads on the event loop only, it has passed over nothing but
\* PIPELINE_LOCKED services, and what it unloads comes first of the others.
InOrder(c) ==
  Op(c) = "preload" =>
    /\ pc[c] # "unload"
    /\ pc[c] \in {"evict", "freeing", "settling"} => evloop = c
    /\ pc[c] \in {"evict", "settling"} =>
         \A s \in Loaded \ loc[c].todo : Priority(s) >= PIPELINE_LOCKED
    /\ pc[c] = "freeing" =>
         /\ Priority(loc[c].victim) < PIPELINE_LOCKED
         /\ \A s \in Loaded \ {loc[c].victim} :
              \/ Priority(s) >= PIPELINE_LOCKED
              \/ s \in loc[c].todo /\ Priority(loc[c].victim) <= Priority(s)

OrderInv == LockInv /\ \A c \in Calls : InOrder(c)

\* Where a call makes no room, it is in order.
LEMMA ElsewhereInOrder ==
  ASSUME NEW c \in Calls, pc'[c] \notin {"unload", "evict", "freeing", "settling"}
  PROVE  InOrder(c)'
BY DEF InOrder

LEMMA OrderInit == Init => OrderInv
BY LockInit DEF Init, OrderInv, InOrder

LEMMA PriorityTypes ==
  ASSUME NEW s \in Services
  PROVE  Priority(s) \in {TRANSIENT, PERSISTENT, PIPELINE_LOCKED}
BY ForgeConstants DEF Priority, TRANSIENT, PERSISTENT, PIPELINE_LOCKED

\* Whoever acts holds the lock or finds it free: the others are at rest.
LEMMA OthersRest ==
  ASSUME EverythingLocked, LockInv, NEW c \in Calls,
         pc[c] \notin {"idle", "begin"} \/ Enter(c), NEW d \in Calls, d # c
  PROVE  pc[d] \in {"idle", "begin"}
<1>1. CASE pc[c] \notin {"idle", "begin"}
  BY <1>1, OthersParked
<1>2. CASE Enter(c)
  <2>1. Op(c) \in LockedOps
    BY <1>2 DEF Enter, LockInv, TypeInv, CallShape, EverythingLocked, Op
  <2> QED BY <1>2, <2>1, NobodyIsNoCall DEF Enter, LockInv, Behaves
<1> QED BY <1>1, <1>2

\* What a coroutine does before and after it makes room.
LEMMA OrderElsewhere ==
  ASSUME EverythingLocked, OrderInv, NEW c \in Calls,
         \/ InvokeBegin(c) \/ PreloadLoaded(c) \/ PreloadBegin(c) \/ ReleaseBegin(c)
         \/ UnloadsDone(c) \/ GpuNotReady(c) \/ GpuReady(c) \/ Clean(c)
         \/ EvictDone(c) \/ Refuse(c) \/ LoadJoined(c) \/ LoadFailed(c)
         \/ InferReturns(c) \/ UnloadRaises(c) \/ Reserve(c) \/ MarkLoaded(c)
         \/ LoadReturns(c) \/ LoadRaises(c)
  PROVE  /\ pc[c] \notin {"idle", "begin"} \/ Enter(c)
         /\ \A d \in Calls \ {c} : pc'[d] = pc[d]
         /\ InOrder(c)'
<1> USE DEF Go, Continue, Await, coreVars, threadVars, gpuVars
<1>0. /\ pc \in [Calls -> PCs] /\ req \in [Calls -> Requests \cup {NoRequest}]
      /\ Behaves(c)
  BY DEF OrderInv, LockInv, TypeInv, TypeOK
<1>1. CASE InvokeBegin(c)
  <2>1. Op(c) = "invoke" /\ req' = req /\ \A d \in Calls \ {c} : pc'[d] = pc[d]
    BY <1>0, <1>1 DEF InvokeBegin
  <2> QED BY <1>1, <2>1 DEF InvokeBegin, InOrder, Op
<1>2. CASE ReleaseBegin(c)
  <2>1. /\ Op(c) \in {"release", "unload_service"} /\ req' = req
        /\ \A d \in Calls \ {c} : pc'[d] = pc[d]
    BY <1>0, <1>2 DEF ReleaseBegin
  <2> QED BY <1>2, <2>1 DEF ReleaseBegin, InOrder, Op
<1>3. CASE PreloadLoaded(c) \/ PreloadBegin(c)
  <2>1. /\ Enter(c) /\ pc'[c] \in {"idle", "admit"}
        /\ \A d \in Calls \ {c} : pc'[d] = pc[d]
    BY <1>0, <1>3 DEF PreloadLoaded, PreloadBegin, Finish
  <2> QED BY <2>1, ElsewhereInOrder
<1>4. CASE \/ UnloadsDone(c) \/ GpuNotReady(c) \/ GpuReady(c) \/ Clean(c)
           \/ EvictDone(c) \/ Refuse(c)
  <2>1. /\ pc[c] \notin {"idle", "begin"}
        /\ pc'[c] \in {"idle", "gpuwait", "infer", "clean", "admit", "ready", "loading"}
        /\ \A d \in Calls \ {c} : pc'[d] = pc[d]
    BY <1>0, <1>4
    DEF UnloadsDone, GpuNotReady, GpuReady, Clean, EvictOver, EvictDone, Refuse, Finish
  <2> QED BY <2>1, ElsewhereInOrder
<1>5. CASE LoadJoined(c) \/ LoadFailed(c) \/ InferReturns(c) \/ UnloadRaises(c)
  <2>1. /\ pc[c] \notin {"idle", "begin"} /\ pc'[c] \in {"idle", "infer"}
        /\ \A d \in Calls \ {c} : pc'[d] = pc[d]
    BY <1>0, <1>5 DEF LoadJoined, LoadFailed, InferReturns, UnloadRaises, Finish
  <2> QED BY <2>1, ElsewhereInOrder
<1>6. CASE Reserve(c) \/ MarkLoaded(c) \/ LoadReturns(c) \/ LoadRaises(c)
  <2>1. pc[c] = "loading" /\ pc' = pc
    BY <1>0, <1>6 DEF Reserve, MarkLoaded, LoadReturns, LoadRaises, Behaves
  <2> QED BY <2>1, ElsewhereInOrder
<1> QED BY <1>1, <1>2, <1>3, <1>4, <1>5, <1>6

\* What a preload does while it makes room.
LEMMA OrderInRoomMaking ==
  ASSUME EverythingLocked, OrderInv, NEW c \in Calls,
         UnloadNext(c) \/ Admit(c) \/ EvictNext(c) \/ Unloaded(c) \/ Settled(c)
  PROVE  /\ pc[c] \notin {"idle", "begin"}
         /\ \A d \in Calls \ {c} : pc'[d] = pc[d]
         /\ InOrder(c)'
<1> USE DEF Go, Continue, Await, coreVars, threadVars, gpuVars
<1>0. TypeOK /\ InOrder(c)
  BY DEF OrderInv, LockInv, TypeInv
<1>1. /\ pc[c] \notin {"idle", "begin"} /\ req' = req /\ override' = override
      /\ \A d \in Calls \ {c} : pc'[d] = pc[d]
  BY <1>0 DEF UnloadNext, Admit, EvictNext, Unloaded, Settled, TypeOK
<1>2. \A s \in Services : Priority(s)' = Priority(s)
  BY <1>1 DEF Priority
<1> SUFFICES ASSUME Op(c) = "preload" PROVE InOrder(c)'
  BY <1>1 DEF InOrder, Op
<1>3. CASE UnloadNext(c)
  BY <1>0, <1>3 DEF UnloadNext, InOrder
<1>4. CASE Admit(c)
  <2>1. \/ pc'[c] = "ready"
        \/ /\ pc'[c] = "evict" /\ evloop' = c
           /\ loc' = [loc EXCEPT ![c].todo = Loaded, ![c].evicted = FALSE]
    <3>1. \/ Go(c, "ready")
          \/ /\ Go(c, "evict") /\ evloop' = c
             /\ loc' = [loc EXCEPT ![c].todo = Loaded, ![c].evicted = FALSE]
      BY <1>4 DEF Admit
    <3> QED BY <1>0, <3>1 DEF TypeOK
  <2>2. Loaded' = Loaded
    BY <1>4 DEF Admit, Loaded
  <2>3. pc'[c] = "evict" => evloop' = c /\ loc'[c].todo = Loaded
    BY <1>0, <2>1 DEF TypeOK, Locals
  <2> QED BY <2>1, <2>2, <2>3 DEF InOrder
<1>5. CASE EvictNext(c)
  <2>1. Loaded' = Loaded /\ evloop' = c /\ pc[c] = "evict"
    BY <1>5 DEF EvictNext, Loaded
  <2>2. PICK v \in NextCandidates(loc[c].todo) :
          \/ /\ Priority(v) >= PIPELINE_LOCKED /\ pc'[c] = "evict"
             /\ loc'[c].todo = loc[c].todo \ {v}
          \/ /\ ~(Priority(v) >= PIPELINE_LOCKED) /\ pc'[c] = "freeing"
             /\ loc'[c].victim = v /\ loc'[c].todo = loc[c].todo \ {v}
    <3>1. PICK v \in NextCandidates(loc[c].todo) :
            \/ /\ Priority(v) >= PIPELINE_LOCKED /\ Go(c, "evict")
               /\ loc' = [loc EXCEPT ![c].todo = @ \ {v}]
            \/ /\ ~(Priority(v) >= PIPELINE_LOCKED) /\ Go(c, "freeing")
               /\ StartUnload(c, v)
      BY <1>5 DEF EvictNext
    <3>2. CASE Go(c, "evict") /\ loc' = [loc EXCEPT ![c].todo = @ \ {v}]
      <4>1. pc'[c] = "evict" /\ loc'[c].todo = loc[c].todo \ {v}
        BY <1>0, <3>2 DEF TypeOK, Locals
      <4> QED BY <1>0, <3>1, <4>1 DEF TypeOK
    <3>3. CASE Go(c, "freeing") /\ StartUnload(c, v)
      <4>1. /\ pc'[c] = "freeing" /\ loc'[c].victim = v
            /\ loc'[c].todo = loc[c].todo \ {v}
        BY <1>0, <3>3 DEF StartUnload, TypeOK, Locals
      <4> QED BY <1>0, <3>1, <4>1 DEF TypeOK
    <3> QED BY <3>1, <3>2, <3>3
  <2>3. /\ v \in loc[c].todo /\ v \in Services /\ loc[c].todo \subseteq Services
        /\ \A s \in loc[c].todo : ~(Priority(s) < Priority(v))
    <3>1. v \in loc[c].todo /\ \A s \in loc[c].todo : ~EvictsBefore(s, v)
      BY DEF NextCandidates
    <3>2. loc[c].todo \subseteq Services
      BY <1>0 DEF TypeOK, Locals
    <3> QED BY <3>1, <3>2 DEF EvictsBefore
  <2>4. \A s \in Loaded \ loc[c].todo : Priority(s) >= PIPELINE_LOCKED
    BY <1>0, <2>1 DEF InOrder
  <2>5. CASE Priority(v) >= PIPELINE_LOCKED
    BY <1>2, <2>1, <2>2, <2>4, <2>5 DEF InOrder, Loaded
  <2>6. CASE ~(Priority(v) >= PIPELINE_LOCKED)
    <3>1. ASSUME NEW s \in Loaded \ {v}
          PROVE  \/ Priority(s) >= PIPELINE_LOCKED
                 \/ (s \in loc[c].todo \ {v} /\ Priority(v) <= Priority(s))
      BY <2>3, <2>4, PriorityTypes
      DEF Loaded, TRANSIENT, PERSISTENT, PIPELINE_LOCKED
    <3>2. Priority(v) < PIPELINE_LOCKED
      BY <2>3, <2>6, PriorityTypes DEF TRANSIENT, PERSISTENT, PIPELINE_LOCKED
    <3> QED BY <1>2, <2>1, <2>2, <2>3, <2>6, <3>1, <3>2 DEF InOrder, Loaded
  <2> QED BY <2>5, <2>6
<1>6. CASE Unloaded(c)
  <2>1. /\ pc[c] = "freeing" /\ pc'[c] = "settling" /\ evloop' = evloop
        /\ loc'[c].todo = loc[c].todo
        /\ Loaded' = Loaded \ {loc[c].victim}
    BY <1>0, <1>6 DEF Unloaded, TypeOK, Locals, Loaded
  <2> QED BY <1>0, <1>2, <2>1 DEF InOrder, Loaded
<1>7. CASE Settled(c)
  <2>1. /\ pc[c] = "settling" /\ pc'[c] = "evict" /\ evloop' = evloop
        /\ loc'[c].todo = loc[c].todo /\ Loaded' = Loaded
    BY <1>0, <1>7 DEF Settled, TypeOK, Locals, Loaded, InOrder
  <2> QED BY <1>0, <1>2, <2>1 DEF InOrder, Loaded
<1> QED BY <1>3, <1>4, <1>5, <1>6, <1>7

LEMMA OrderNext ==
  ASSUME EverythingLocked, OrderInv, [Next]_vars
  PROVE  OrderInv'
<1>0. LockInv /\ LockInv' /\ TypeOK
  BY LockNext DEF OrderInv, LockInv, TypeInv
<1>1. ASSUME NEW c \in Calls, LoopStep(c) \/ ThreadStep(c) \/ LoadEnds(c),
             NEW d \in Calls
      PROVE  InOrder(d)'
  <2>1. /\ pc[c] \notin {"idle", "begin"} \/ Enter(c)
        /\ \A e \in Calls \ {c} : pc'[e] = pc[e]
        /\ InOrder(c)'
    BY <1>1, OrderElsewhere, OrderInRoomMaking DEF LoopStep, ThreadStep, LoadEnds
  <2>2. CASE d # c
    <3>1. pc'[d] \in {"idle", "begin"}
      BY <1>0, <2>1, <2>2, OthersRest
    <3> QED BY <3>1, ElsewhereInOrder
  <2> QED BY <2>1, <2>2
<1>2. ASSUME NEW c \in Calls, Submit(c), NEW d \in Calls PROVE InOrder(d)'
  <2>1. /\ pc'[c] = "begin"
        /\ \A e \in Calls \ {c} : pc'[e] = pc[e] /\ req'[e] = req[e]
        /\ UNCHANGED <<loaded, override, evloop, loc>>
    BY <1>0, <1>2 DEF Submit, Go, coreVars, TypeOK
  <2> QED BY <2>1 DEF OrderInv, InOrder, Op, Loaded, Priority
<1>3. ASSUME NEW c \in Calls PROVE ~LoadTimesOut(c)
  <2>1. Svc(c) \notin SlowLoads
    BY DEF EverythingLocked
  <2> QED BY <2>1 DEF LoadTimesOut
<1>4. ASSUME \/ Status \/ UNCHANGED vars \/ \E s \in Services : DriverFrees(s),
             NEW d \in Calls
      PROVE  InOrder(d)'
  <2>1. UNCHANGED <<loaded, override, evloop, loc, pc, req>>
    BY <1>4 DEF Status, DriverFrees, vars, coreVars
  <2> QED BY <2>1 DEF OrderInv, InOrder, Op, Loaded, Priority
<1> QED BY <1>0, <1>1, <1>2, <1>3, <1>4 DEF Next, OrderInv

\* A preload unloads a PERSISTENT service only when no TRANSIENT one is loaded
\* any more, and no PIPELINE_LOCKED one ever (_evict_for of services/forge.py).
THEOREM PreloadEvictsInOrderHolds ==
  ASSUME EverythingLocked
  PROVE  Spec => PreloadEvictsInOrder
<1> DEFINE Evicts ==
      \A s \in Services : \A c \in Calls :
        /\ loaded[s] /\ ~loaded'[s]
        /\ pc[c] = "freeing" /\ pc'[c] = "settling" /\ Op(c) = "preload"
        => /\ Priority(s) < PIPELINE_LOCKED
           /\ Priority(s) = PERSISTENT =>
                \A n \in Loaded : Priority(n) # TRANSIENT
<1>1. ASSUME EverythingLocked, OrderInv, Next PROVE Evicts
  <2>1. SUFFICES ASSUME NEW s \in Services, NEW c \in Calls, loaded[s], ~loaded'[s],
                        pc[c] = "freeing", Op(c) = "preload"
                 PROVE  /\ Priority(s) < PIPELINE_LOCKED
                        /\ Priority(s) = PERSISTENT =>
                             \A n \in Loaded : Priority(n) # TRANSIENT
    OBVIOUS
  <2>2. s = loc[c].victim
    <3>1. ASSUME NEW d \in Calls, Unloaded(d) PROVE d = c
      BY <1>1, <2>1, <3>1, OthersParked DEF Unloaded, OrderInv
    <3>2. loaded \in [Services -> BOOLEAN]
      BY <1>1 DEF OrderInv, LockInv, TypeInv, TypeOK
    <3>3. ASSUME NEW d \in Calls PROVE ~MarkLoaded(d)
      BY <2>1, <3>2 DEF MarkLoaded
    <3>4. UNCHANGED loaded \/ \E d \in Calls : Unloaded(d)
      BY <1>1, <3>3
      DEF Next, LoopStep, ThreadStep, LoadEnds, Submit, Status, DriverFrees,
          InvokeBegin, PreloadLoaded, PreloadBegin, ReleaseBegin, UnloadNext,
          UnloadsDone, GpuNotReady, GpuReady, Clean, Admit, EvictNext, EvictDone,
          Refuse, LoadJoined, LoadFailed, InferReturns, UnloadRaises, Settled,
          Reserve, LoadReturns, LoadRaises, LoadTimesOut, coreVars
    <3> QED BY <2>1, <3>1, <3>2, <3>4 DEF Unloaded
  <2>3. /\ Priority(s) < PIPELINE_LOCKED
        /\ \A n \in Loaded \ {s} :
             Priority(n) >= PIPELINE_LOCKED \/ Priority(s) <= Priority(n)
    BY <1>1, <2>1, <2>2 DEF OrderInv, InOrder
  <2> QED BY <2>1, <2>3 DEF TRANSIENT, PERSISTENT, PIPELINE_LOCKED
<1>2. OrderInv /\ [Next]_vars => OrderInv'
  BY OrderNext
<1>3. OrderInv /\ [Next]_vars => [Evicts]_vars
  BY <1>1
<1> QED BY <1>2, <1>3, OrderInit, PTL DEF Spec, PreloadEvictsInOrder
=============================================================================
