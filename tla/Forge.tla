------------------------------- MODULE Forge -------------------------------
(***************************************************************************)
(* The Forge: the VRAM-aware GPU manager of services/forge.py (ForgeCore)  *)
(* behind its deployment wrapper (Forge), which serialises some of the     *)
(* operations with one asyncio lock.                                       *)
(*                                                                         *)
(* A call is one request being handled by the actor.  Its coroutine runs   *)
(* on the event loop between two awaits; loads, unloads and inference run  *)
(* in worker threads while the coroutine awaits them.  A load thread is    *)
(* not stopped by the timeout of the call that awaits it.                  *)
(*                                                                         *)
(* Memory is counted in the unit of the constants (GB in the runs).        *)
(***************************************************************************)
EXTENDS MemoryBlocks

CONSTANTS
  Services,     \* the keys of SERVICE_MAP
  Calls,        \* slots for requests being handled at the same time
  Nobody,       \* no call, no service
  Everything,   \* release() without a service
  VramMb,       \* declared vram_mb of a service; 0 = manages its own VRAM
  Persist,      \* persistence of a service: TRANSIENT, PERSISTENT, PIPELINE_LOCKED
  Measured,     \* services whose adapter replaces vram_mb by a measurement
  Switching,    \* services whose infer() may switch models
  Footprint,    \* real memory a service may occupy once loaded
  Foreign,      \* GPU memory no service holds: CUDA contexts, other programs
  Available,    \* AVAILABLE_MB
  Reserved,     \* RESERVED_MB
  MinCofree,    \* MIN_COFREE_MB
  Slack,        \* the 1 GB tolerated by _do_unload
  Requests,     \* the requests clients send: [op |-> ..., svc |-> ...]
  LockedOps,    \* operations the wrapper runs under _load_lock
  StatusPolled, \* clients poll status
  SlowLoads,    \* services whose load may outlast the 1200 s of _load_with_cleanup
  SlowDriver    \* the driver may free memory later than the waiting loops last

TRANSIENT == 0
PERSISTENT == 1
PIPELINE_LOCKED == 2

Ops == {"invoke", "preload", "release", "unload_service"}

ASSUME ForgeConstants ==
  /\ Nobody \notin Calls \cup Services
  /\ Everything \notin Services
  /\ IsFiniteSet(Services)
  /\ VramMb \in [Services -> Nat]
  /\ Persist \in [Services -> TRANSIENT..PIPELINE_LOCKED]
  /\ Measured \subseteq Services
  /\ Switching \subseteq Services
  /\ Footprint \in [Services -> SUBSET Nat]
  /\ {Available, Reserved, MinCofree, Slack, Foreign} \subseteq Nat
  /\ Requests \subseteq [op : Ops, svc : Services \cup {Everything}]
  /\ \A r \in Requests : r.svc = Everything => r.op = "release"
  /\ LockedOps \subseteq Ops
  /\ SlowLoads \subseteq Services
  /\ {StatusPolled, SlowDriver} \subseteq BOOLEAN

VARIABLES
  loaded,    \* _loaded
  loading,   \* _loading
  alloc,     \* _vram_allocations; 0 = no entry
  free,      \* _vram_free_mb
  override,  \* services in _persistence_overrides (always PIPELINE_LOCKED)
  vram,      \* svc.vram_mb, constant except for Measured services
  holder,    \* the call that holds _load_lock
  evloop,    \* the call whose coroutine is in the middle of a section without await
  pc,        \* where each call's coroutine is
  req,       \* the request of each call
  loc,       \* the local variables of each call's coroutine, see Locals
  thr,       \* the load thread of a call: none, queued, running, returned, ok, failed
  est,       \* estimate captured by _do_load
  used,      \* GPU memory held by a loaded service
  drain      \* GPU memory of an unloaded service the driver has not freed yet

coreVars == <<loaded, loading, alloc, free, override, vram>>
threadVars == <<thr, est>>
gpuVars == <<used, drain>>
vars == <<coreVars, holder, evloop, pc, req, loc, threadVars, gpuVars>>

PCs == {"idle", "begin", "unload", "freeing", "settling", "gpuwait", "clean",
        "admit", "evict", "ready", "loading", "infer"}

NoRequest == [op |-> "none", svc |-> Nobody]

Locals == [
  todo : SUBSET Services,          \* services a for-loop has still to consider
  victim : Services \cup {Nobody}, \* the service _do_unload works on
  hot : BOOLEAN,                   \* invoke found its service loaded
  evicted : BOOLEAN,               \* the loop has unloaded something
  mark : Int]                      \* before_gpu, then before_gpu + ledger_freed

NoLocals == [todo |-> {}, victim |-> Nobody, hot |-> FALSE,
             evicted |-> FALSE, mark |-> 0]

TypeOK ==
  /\ loaded \in [Services -> BOOLEAN]
  /\ loading \subseteq Services
  /\ alloc \in [Services -> Nat]
  /\ free \in Int
  /\ override \subseteq Services
  /\ vram \in [Services -> Nat]
  /\ holder \in Calls \cup {Nobody}
  /\ evloop \in Calls \cup {Nobody}
  /\ pc \in [Calls -> PCs]
  /\ req \in [Calls -> Requests \cup {NoRequest}]
  /\ loc \in [Calls -> Locals]
  /\ thr \in [Calls -> {"none", "queued", "running", "returned", "ok", "failed"}]
  /\ est \in [Calls -> Nat]
  /\ used \in [Services -> Nat]
  /\ drain \in [Services -> Nat]

-----------------------------------------------------------------------------
(* Helpers.                                                                *)

Op(c) == req[c].op
Svc(c) == req[c].svc
Loaded == {s \in Services : loaded[s]}
Larger(a, b) == IF a > b THEN a ELSE b

Allocated == Total(alloc, Services)

\* What the driver counts as used, whoever uses it.
RealUsed == Foreign + Total(used, Services) + Total(drain, Services)

\* torch.cuda.mem_get_info: what the driver reports as free.
RealFree == Available + Reserved - RealUsed

\* A polling loop on the driver may run out only when nothing more will come,
\* or when the driver is slower than the loop.
Waited == SlowDriver \/ \A s \in Services : drain[s] = 0

Priority(s) == IF s \in override THEN PIPELINE_LOCKED ELSE Persist[s]

\* Self-managed services never appear to need room; they get MIN_COFREE.
Needed(s) == IF vram[s] = 0 THEN MinCofree ELSE vram[s]

\* Mutant: only the driver's number is consulted.
CanFitIgnoringLedger(s) == RealFree >= MinCofree

CanFit(s) ==
  IF vram[s] = 0
  THEN /\ RealFree >= MinCofree
       /\ Allocated > 0 => free >= MinCofree
  ELSE /\ vram[s] <= free
       /\ (\E n \in Loaded : vram[n] = 0) => RealFree >= vram[s] + MinCofree

\* Reservations that belong neither to a loaded service nor to a load in flight.
Stale == {s \in Services : ~loaded[s] /\ s \notin loading}

CleanupStale ==
  /\ alloc' = [s \in Services |-> IF s \in Stale THEN 0 ELSE alloc[s]]
  /\ free' = free + Total(alloc, Stale)

\* Mutant: large first, whatever the persistence.
EvictsLargestFirst(a, b) == alloc[a] > alloc[b]

\* The sort key of _evict_for: low persistence first, then large first.
EvictsBefore(a, b) ==
  LET mb(s) == IF vram[s] = 0 THEN 0 ELSE alloc[s]
  IN  \/ Priority(a) < Priority(b)
      \/ Priority(a) = Priority(b) /\ mb(a) > mb(b)

NextCandidates(S) == {v \in S : \A w \in S : ~EvictsBefore(w, v)}

-----------------------------------------------------------------------------
(* Event-loop bookkeeping.                                                 *)

\* c's coroutine can run: no other coroutine is between two awaits.
OnLoop(c) == evloop \in {Nobody, c}
Go(c, to) == pc' = [pc EXCEPT ![c] = to]

\* c goes on without an await, or awaits something.
Continue(c, to) == Go(c, to) /\ evloop' = c
Await(c, to) == Go(c, to) /\ evloop' = Nobody

\* Mutant: the lock is not released.
FinishKeepingLock(c) ==
  /\ Await(c, "idle")
  /\ loc' = [loc EXCEPT ![c] = NoLocals]
  /\ req' = [req EXCEPT ![c] = IF thr'[c] = "none" THEN NoRequest ELSE @]
  /\ UNCHANGED holder

\* c's handler returns or raises; "async with" releases the lock.  A load
\* thread the handler leaves behind keeps its arguments.
Finish(c) ==
  /\ Await(c, "idle")
  /\ holder' = IF holder = c THEN Nobody ELSE holder
  /\ loc' = [loc EXCEPT ![c] = NoLocals]
  /\ req' = [req EXCEPT ![c] = IF thr'[c] = "none" THEN NoRequest ELSE @]

\* Mutant: nobody waits for the lock.
EnterUnlocked(c) == pc[c] = "begin" /\ evloop = Nobody

\* c's handler starts; locked operations wait for the lock first.
Enter(c) ==
  /\ pc[c] = "begin"
  /\ evloop = Nobody
  /\ Op(c) \in LockedOps => holder = Nobody

\* Mutant: release runs without the lock.
LockUnlessRelease(c) ==
  holder' = IF Op(c) \in LockedOps \ {"release"} THEN c ELSE holder

Lock(c) == holder' = IF Op(c) \in LockedOps THEN c ELSE holder

-----------------------------------------------------------------------------
(* The handlers, up to their first await.                                  *)

Submit(c) ==
  /\ pc[c] = "idle" /\ thr[c] = "none"
  /\ \E r \in Requests : req' = [req EXCEPT ![c] = r]
  /\ Go(c, "begin")
  /\ UNCHANGED <<coreVars, holder, evloop, loc, threadVars, gpuVars>>

\* Mutant: a service that is already loaded is served next to the others.
InvokeBeginHot(c) ==
  LET others == IF loaded[Svc(c)] THEN {} ELSE Loaded IN
  /\ Enter(c) /\ Op(c) = "invoke"
  /\ Lock(c)
  /\ loc' = [loc EXCEPT ![c].hot = loaded[Svc(c)], ![c].todo = others]
  /\ \/ others # {} /\ Continue(c, "unload")
     \/ others = {} /\ loaded[Svc(c)] /\ Await(c, "infer")
     \/ others = {} /\ ~loaded[Svc(c)] /\ Continue(c, "clean")
  /\ UNCHANGED <<coreVars, req, threadVars, gpuVars>>

\* invoke: whatever else is loaded will be unloaded, locked or not.
InvokeBegin(c) ==
  LET others == Loaded \ {Svc(c)} IN
  /\ Enter(c) /\ Op(c) = "invoke"
  /\ Lock(c)
  /\ loc' = [loc EXCEPT ![c].hot = loaded[Svc(c)], ![c].todo = others]
  /\ \/ others # {} /\ Continue(c, "unload")
     \/ others = {} /\ loaded[Svc(c)] /\ Await(c, "infer")
     \/ others = {} /\ ~loaded[Svc(c)] /\ Continue(c, "clean")
  /\ UNCHANGED <<coreVars, req, threadVars, gpuVars>>

PreloadLoaded(c) ==
  /\ Enter(c) /\ Op(c) = "preload" /\ loaded[Svc(c)]
  /\ UNCHANGED <<coreVars, threadVars, gpuVars>>
  /\ Finish(c)

PreloadBegin(c) ==
  /\ Enter(c) /\ Op(c) = "preload" /\ ~loaded[Svc(c)]
  /\ Lock(c)
  /\ override' = {}
  /\ CleanupStale
  /\ Continue(c, "admit")
  /\ UNCHANGED <<loaded, loading, vram, req, loc, threadVars, gpuVars>>

\* release(service), release() and unload_service(service).
ReleaseBegin(c) ==
  /\ Enter(c) /\ Op(c) \in {"release", "unload_service"}
  /\ Lock(c)
  /\ CleanupStale
  /\ loc' = [loc EXCEPT ![c].todo = IF Svc(c) = Everything THEN Loaded
                                    ELSE Loaded \cap {Svc(c)}]
  /\ Continue(c, "unload")
  /\ UNCHANGED <<loaded, loading, override, vram, req, threadVars, gpuVars>>

\* status(): never locked, one section without await.
Status ==
  LET tracked == Allocated - Total(alloc, Stale) IN
  /\ StatusPolled /\ evloop = Nobody
  /\ IF Loaded = {} /\ tracked > 0
     THEN /\ alloc' = [s \in Services |-> 0]
          /\ free' = Available
     ELSE CleanupStale
  /\ UNCHANGED <<loaded, loading, override, vram, holder, evloop, pc, req,
                 loc, threadVars, gpuVars>>

-----------------------------------------------------------------------------
(* _do_unload, in a worker thread or, from _evict_for, on the event loop.  *)

\* c's loop takes v and calls _do_unload, which reads before_gpu first.
StartUnload(c, v) ==
  loc' = [loc EXCEPT ![c].todo = @ \ {v}, ![c].victim = v,
                     ![c].evicted = TRUE, ![c].mark = RealFree]

\* The for-loops of invoke and release hand one service to _do_unload.
UnloadNext(c) ==
  /\ pc[c] = "unload" /\ OnLoop(c)
  /\ \E v \in loc[c].todo : StartUnload(c, v)
  /\ Await(c, "freeing")
  /\ UNCHANGED <<coreVars, holder, req, threadVars, gpuVars>>

UnloadsDone(c) ==
  /\ pc[c] = "unload" /\ OnLoop(c) /\ loc[c].todo = {}
  /\ UNCHANGED <<coreVars, threadVars, gpuVars>>
  /\ IF Op(c) = "invoke"
     THEN Continue(c, "gpuwait") /\ UNCHANGED <<holder, req, loc>>
     ELSE Finish(c)

\* svc.unload() returns; the ledger takes its allocation back.
Unloaded(c) ==
  LET v == loc[c].victim IN
  /\ pc[c] = "freeing"
  /\ used' = [used EXCEPT ![v] = IF loaded[v] THEN 0 ELSE @]
  /\ drain' = [drain EXCEPT ![v] = IF loaded[v] THEN @ + used[v] ELSE @]
  /\ vram' = [vram EXCEPT ![v] = IF loaded[v] /\ v \in Measured THEN 0 ELSE @]
  /\ loaded' = [loaded EXCEPT ![v] = FALSE]
  /\ alloc' = [alloc EXCEPT ![v] = 0]
  /\ free' = free + alloc[v]
  /\ loc' = [loc EXCEPT ![c].mark = @ + alloc[v]]
  /\ Go(c, "settling")
  /\ UNCHANGED <<loading, override, holder, evloop, req, threadVars>>

\* svc.unload() raises: _do_unload and its handler end there.
UnloadRaises(c) ==
  /\ pc[c] = "freeing" /\ OnLoop(c) /\ loaded[loc[c].victim]
  /\ UNCHANGED <<coreVars, threadVars, gpuVars>>
  /\ Finish(c)

\* The polling loop ends; memory freed beyond the ledger's entry is credited.
Settled(c) ==
  /\ pc[c] = "settling"
  /\ RealFree >= loc[c].mark - Slack \/ Waited
  /\ free' = free + Larger(0, RealFree - loc[c].mark)
  /\ loc' = [loc EXCEPT ![c].victim = Nobody, ![c].mark = 0]
  /\ Go(c, IF evloop = c THEN "evict" ELSE "unload")
  /\ UNCHANGED <<loaded, loading, alloc, override, vram, holder, evloop, req,
                 threadVars, gpuVars>>

\* The driver gives the memory of an unloaded service back.
DriverFrees(s) ==
  /\ drain[s] > 0
  /\ drain' = [drain EXCEPT ![s] = 0]
  /\ UNCHANGED <<coreVars, holder, evloop, pc, req, loc, threadVars, used>>

-----------------------------------------------------------------------------
(* Admission: _wait_gpu_ready, _can_fit and _evict_for.                    *)

HasRoom(s) == RealFree >= Larger(vram[s], MinCofree)

\* _wait_gpu_ready sleeps and looks again; with room it does not even yield.
GpuNotReady(c) ==
  /\ pc[c] \in {"gpuwait", "ready"} /\ evloop = c
  /\ ~HasRoom(Svc(c))
  /\ evloop' = Nobody
  /\ UNCHANGED <<coreVars, holder, pc, req, loc, threadVars, gpuVars>>

GpuReady(c) ==
  /\ pc[c] \in {"gpuwait", "ready"} /\ OnLoop(c)
  /\ HasRoom(Svc(c)) \/ (evloop = Nobody /\ Waited)
  /\ \/ pc[c] = "gpuwait" /\ loc[c].hot /\ Await(c, "infer") /\ UNCHANGED thr
     \/ pc[c] = "gpuwait" /\ ~loc[c].hot /\ Continue(c, "clean") /\ UNCHANGED thr
     \/ /\ pc[c] = "ready" /\ Await(c, "loading")
        /\ thr' = [thr EXCEPT ![c] = "queued"]
  /\ UNCHANGED <<coreVars, holder, req, loc, est, gpuVars>>

Clean(c) ==
  /\ pc[c] = "clean" /\ OnLoop(c)
  /\ CleanupStale
  /\ Continue(c, "admit")
  /\ UNCHANGED <<loaded, loading, override, vram, holder, req, loc,
                 threadVars, gpuVars>>

Admit(c) ==
  LET s == Svc(c)
      \* _evict_for returns at once for a self-managed service with room
      fits == CanFit(s) \/ (vram[s] = 0 /\ RealFree >= MinCofree)
  IN
  /\ pc[c] = "admit" /\ OnLoop(c)
  /\ IF fits
     THEN Continue(c, "ready") /\ UNCHANGED loc
     ELSE /\ Continue(c, "evict")
          /\ loc' = [loc EXCEPT ![c].todo = Loaded, ![c].evicted = FALSE]
  /\ UNCHANGED <<coreVars, holder, req, threadVars, gpuVars>>

Enough(c) == free >= Needed(Svc(c)) /\ RealFree >= MinCofree

\* Mutant: persistent services are never candidates.
EvictNextTransient(c) ==
  /\ pc[c] = "evict" /\ OnLoop(c) /\ ~Enough(c)
  /\ \E v \in NextCandidates(loc[c].todo) :
       IF Priority(v) >= PERSISTENT
       THEN /\ Continue(c, "evict")
            /\ loc' = [loc EXCEPT ![c].todo = @ \ {v}]
       ELSE /\ Continue(c, "freeing")
            /\ StartUnload(c, v)
  /\ UNCHANGED <<coreVars, holder, req, threadVars, gpuVars>>

\* _evict_for considers its next candidate.
EvictNext(c) ==
  /\ pc[c] = "evict" /\ OnLoop(c) /\ ~Enough(c)
  /\ \E v \in NextCandidates(loc[c].todo) :
       IF Priority(v) >= PIPELINE_LOCKED
       THEN /\ Continue(c, "evict")
            /\ loc' = [loc EXCEPT ![c].todo = @ \ {v}]
       ELSE /\ Continue(c, "freeing")
            /\ StartUnload(c, v)
  /\ UNCHANGED <<coreVars, holder, req, threadVars, gpuVars>>

EvictOver(c) ==
  /\ pc[c] = "evict" /\ OnLoop(c)
  /\ Enough(c) \/ loc[c].todo = {}

Refused(c) ==
  \/ RealFree < MinCofree /\ ~loc[c].evicted
  \/ free < Needed(Svc(c))

EvictDone(c) ==
  /\ EvictOver(c) /\ ~Refused(c)
  /\ Continue(c, "ready")
  /\ UNCHANGED <<coreVars, holder, req, loc, threadVars, gpuVars>>

\* "Cannot free enough VRAM": preload answers it, invoke raises it.
Refuse(c) ==
  /\ EvictOver(c) /\ Refused(c)
  /\ UNCHANGED <<coreVars, threadVars, gpuVars>>
  /\ Finish(c)

-----------------------------------------------------------------------------
(* _do_load, in a worker thread.                                           *)

\* Mutant: the reservation is booked with the wrong sign.
ReserveNegated(c) ==
  LET s == Svc(c) IN
  /\ thr[c] = "queued"
  /\ loading' = loading \cup {s}
  /\ est' = [est EXCEPT ![c] = vram[s]]
  /\ alloc' = [alloc EXCEPT ![s] = @ - vram[s]]
  /\ free' = free - vram[s]
  /\ thr' = [thr EXCEPT ![c] = "running"]
  /\ UNCHANGED <<loaded, override, vram, holder, evloop, pc, req, loc, gpuVars>>

Reserve(c) ==
  LET s == Svc(c) IN
  /\ thr[c] = "queued"
  /\ loading' = loading \cup {s}
  /\ est' = [est EXCEPT ![c] = vram[s]]
  /\ alloc' = [alloc EXCEPT ![s] = IF vram[s] > 0 THEN vram[s] ELSE @]
  /\ free' = free - vram[s]
  /\ thr' = [thr EXCEPT ![c] = "running"]
  /\ UNCHANGED <<loaded, override, vram, holder, evloop, pc, req, loc, gpuVars>>

\* svc.load() returns; the service really occupies memory now.
LoadReturns(c) ==
  LET s == Svc(c) IN
  /\ thr[c] = "running"
  /\ \E m \in Footprint[s] :
       /\ m <= RealFree + used[s]
       /\ used' = [used EXCEPT ![s] = m]
       /\ vram' = [vram EXCEPT ![s] = IF s \in Measured
                                      THEN Larger(0, m - used[s]) ELSE @]
  /\ loading' = loading \ {s}
  /\ thr' = [thr EXCEPT ![c] = "returned"]
  /\ UNCHANGED <<loaded, alloc, free, override, holder, evloop, pc, req,
                 loc, est, drain>>

\* The thread reports to the coroutine that awaits it, if it still does.
ThreadEnds(c, result) ==
  LET awaited == pc[c] = "loading" IN
  /\ thr' = [thr EXCEPT ![c] = IF awaited THEN result ELSE "none"]
  /\ req' = [req EXCEPT ![c] = IF awaited THEN @ ELSE NoRequest]
  /\ est' = [est EXCEPT ![c] = 0]

\* Mutant: a failed load leaves its reservation in the ledger.
LoadRaisesReserved(c) ==
  /\ thr[c] = "running"
  /\ loading' = loading \ {Svc(c)}
  /\ ThreadEnds(c, "failed")
  /\ UNCHANGED <<loaded, alloc, free, override, vram, holder, evloop, pc, loc,
                 gpuVars>>

\* Mutant: a failed load drops its reservation but does not give it back.
LoadRaisesUncredited(c) ==
  /\ thr[c] = "running"
  /\ alloc' = [alloc EXCEPT ![Svc(c)] = 0]
  /\ loading' = loading \ {Svc(c)}
  /\ ThreadEnds(c, "failed")
  /\ UNCHANGED <<loaded, free, override, vram, holder, evloop, pc, loc, gpuVars>>

LoadRaises(c) ==
  LET s == Svc(c) IN
  /\ thr[c] = "running"
  /\ alloc' = [alloc EXCEPT ![s] = 0]
  /\ free' = free + est[c]
  /\ loading' = loading \ {s}
  /\ ThreadEnds(c, "failed")
  /\ UNCHANGED <<loaded, override, vram, holder, evloop, pc, loc, gpuVars>>

\* Mutant: the estimate is never reconciled with the driver.
MarkLoadedAsEstimated(c) ==
  /\ thr[c] = "returned"
  /\ loaded' = [loaded EXCEPT ![Svc(c)] = TRUE]
  /\ ThreadEnds(c, "ok")
  /\ UNCHANGED <<loading, alloc, free, override, vram, holder, evloop, pc, loc,
                 gpuVars>>

\* _loaded[name] = True, then _reconcile_vram against the driver's numbers.
MarkLoaded(c) ==
  LET s == Svc(c)
      actual == Larger(0, RealUsed - Total(alloc, Services \ {s}))
  IN
  /\ thr[c] = "returned"
  /\ loaded' = [loaded EXCEPT ![s] = TRUE]
  /\ alloc' = [alloc EXCEPT ![s] = actual]
  /\ free' = free - (actual - est[c])
  /\ ThreadEnds(c, "ok")
  /\ UNCHANGED <<loading, override, vram, holder, evloop, pc, loc, gpuVars>>

\* The awaiting coroutine sees the thread end.
LoadJoined(c) ==
  /\ pc[c] = "loading" /\ OnLoop(c) /\ thr[c] = "ok"
  /\ thr' = [thr EXCEPT ![c] = "none"]
  /\ IF Op(c) = "invoke" /\ loaded[Svc(c)]
     THEN Await(c, "infer") /\ UNCHANGED <<holder, req, loc>>
     ELSE Finish(c)
  /\ UNCHANGED <<coreVars, est, gpuVars>>

LoadFailed(c) ==
  /\ pc[c] = "loading" /\ OnLoop(c) /\ thr[c] = "failed"
  /\ thr' = [thr EXCEPT ![c] = "none"]
  /\ CleanupStale
  /\ Finish(c)
  /\ UNCHANGED <<loaded, loading, override, vram, est, gpuVars>>

\* wait_for gives up after 1200 s; the thread keeps running.
LoadTimesOut(c) ==
  /\ pc[c] = "loading" /\ OnLoop(c) /\ thr[c] = "running"
  /\ Svc(c) \in SlowLoads
  /\ UNCHANGED <<loaded, loading, override, vram, threadVars, gpuVars>>
  /\ CleanupStale
  /\ Finish(c)

\* svc.infer() returns; it may have switched to another model meanwhile.
InferReturns(c) ==
  LET s == Svc(c) IN
  /\ pc[c] = "infer"
  /\ \/ UNCHANGED used
     \/ /\ s \in Switching /\ loaded[s]
        /\ \E m \in Footprint[s] :
             /\ m <= RealFree + used[s]
             /\ used' = [used EXCEPT ![s] = m]
  /\ UNCHANGED <<coreVars, threadVars, drain>>
  /\ OnLoop(c) /\ Finish(c)

-----------------------------------------------------------------------------

Init ==
  /\ loaded = [s \in Services |-> FALSE]
  /\ loading = {}
  /\ alloc = [s \in Services |-> 0]
  /\ free = Available
  /\ override = {}
  /\ vram = VramMb
  /\ holder = Nobody
  /\ evloop = Nobody
  /\ pc = [c \in Calls |-> "idle"]
  /\ req = [c \in Calls |-> NoRequest]
  /\ loc = [c \in Calls |-> NoLocals]
  /\ thr = [c \in Calls |-> "none"]
  /\ est = [c \in Calls |-> 0]
  /\ used = [s \in Services |-> 0]
  /\ drain = [s \in Services |-> 0]

LoopStep(c) ==
  \/ InvokeBegin(c) \/ PreloadLoaded(c) \/ PreloadBegin(c) \/ ReleaseBegin(c)
  \/ UnloadNext(c) \/ UnloadsDone(c)
  \/ GpuNotReady(c) \/ GpuReady(c) \/ Clean(c) \/ Admit(c)
  \/ EvictNext(c) \/ EvictDone(c) \/ Refuse(c)
  \/ LoadJoined(c) \/ LoadFailed(c) \/ InferReturns(c)

ThreadStep(c) ==
  \/ Unloaded(c) \/ UnloadRaises(c) \/ Settled(c)
  \/ Reserve(c) \/ MarkLoaded(c)

LoadEnds(c) == LoadReturns(c) \/ LoadRaises(c)

Next ==
  \/ \E c \in Calls : \/ Submit(c) \/ LoopStep(c) \/ ThreadStep(c)
                      \/ LoadEnds(c) \/ LoadTimesOut(c)
  \/ Status
  \/ \E s \in Services : DriverFrees(s)

Spec == Init /\ [][Next]_vars

-----------------------------------------------------------------------------
(* Properties.                                                             *)

InTransition(c) == pc[c] \in {"freeing", "settling"} \/ thr[c] # "none"

\* "GPU overcommit" (comment of _load_lock): at most one request at a time is
\* loading or unloading a service.
OneAtATime ==
  \A c, d \in Calls : InTransition(c) /\ InTransition(d) => c = d

\* While a service infers on behalf of an invoke it stays loaded, and nothing
\* else is loaded: invoke gives it the GPU exclusively.
ServedAlone ==
  \A c \in Calls : pc[c] = "infer" => Loaded = {Svc(c)}

\* Total allocated + free always equals AVAILABLE_MB, across failures too.
LedgerConserved == free + Allocated = Available

\* The ledger-managed services alone never overcommit the VRAM they share:
\* free VRAM falls below zero by more than the foreign memory that
\* _reconcile_vram charges to one of them only with a self-managed service on
\* the GPU.
DeclaredNeverOvercommit ==
  \/ free >= -Foreign
  \/ \E s \in Services : VramMb[s] = 0 /\ (loaded[s] \/ s \in loading)

\* What the ledger books for a loaded service is what it occupies; the GPU
\* memory no service holds is charged, as a whole, to one service at most.
LedgerIsReal ==
  /\ \A s \in Loaded : alloc[s] \in {used[s], used[s] + Foreign}
  /\ \A s, t \in Loaded : alloc[s] # used[s] /\ alloc[t] # used[t] => s = t

\* Every reservation belongs to a loaded service or to a load in flight: a
\* failed load leaves nothing behind.
NoLeakedReservation ==
  \A s \in Services :
    alloc[s] > 0 => \/ loaded[s]
                    \/ \E c \in Calls : thr[c] \in {"running", "returned"} /\ Svc(c) = s

\* A request is refused for lack of VRAM only because its service declares more
\* than the whole of AVAILABLE_MB, or, a preload, because a PIPELINE_LOCKED
\* service holds the GPU.
RefusalJustified ==
  [][\A c \in Calls : Refuse(c) =>
       \/ VramMb[Svc(c)] > Available
       \/ /\ Op(c) = "preload"
          /\ \E s \in Loaded : Priority(s) >= PIPELINE_LOCKED]_vars

\* A preload unloads a PERSISTENT service only when no TRANSIENT service is
\* loaded any more, and never a PIPELINE_LOCKED one.
PreloadEvictsInOrder ==
  [][\A s \in Services : \A c \in Calls :
       /\ loaded[s] /\ ~loaded'[s]
       /\ pc[c] = "freeing" /\ pc'[c] = "settling" /\ Op(c) = "preload"
       => /\ Priority(s) < PIPELINE_LOCKED
          /\ Priority(s) = PERSISTENT =>
               \A n \in Loaded : Priority(n) # TRANSIENT]_vars

\* asyncio.Lock is FIFO and the event loop runs every ready coroutine; worker
\* threads run, services answer, the driver frees memory in the end.  Only the
\* loads in SlowLoads may hang for ever.
Fairness ==
  /\ \A c \in Calls : /\ SF_vars(LoopStep(c))
                      /\ WF_vars(ThreadStep(c))
                      /\ WF_vars(Svc(c) \notin SlowLoads /\ LoadEnds(c))
                      /\ WF_vars(LoadTimesOut(c))
  /\ \A s \in Services : WF_vars(DriverFrees(s))

FairSpec == Spec /\ Fairness

\* Every request that reached the actor is answered, even when a load hangs.
EveryCallEnds == \A c \in Calls : pc[c] = "begin" ~> pc[c] = "idle"

\* What the callers are promised: see GpuArbiter.
Moving ==
  IF \E c \in Calls : pc[c] = "freeing"
  THEN loc[CHOOSE c \in Calls : pc[c] = "freeing"].victim
  ELSE IF \E c \in Calls : thr[c] \in {"queued", "running", "returned"}
  THEN Svc(CHOOSE c \in Calls : thr[c] \in {"queued", "running", "returned"})
  ELSE Nobody

Serving ==
  IF \E c \in Calls : pc[c] = "infer"
  THEN Svc(CHOOSE c \in Calls : pc[c] = "infer") ELSE Nobody

Arbiter == INSTANCE GpuArbiter WITH resident <- Loaded, moving <- Moving,
                                    serving <- Serving

\* The locked operations implement the arbiter.
ArbiterSpec == Arbiter!Spec

=============================================================================
