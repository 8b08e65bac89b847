-------------------------- MODULE LegacyPipelines --------------------------
(***************************************************************************)
(* run_pipeline of the Forge for a pipeline written as a Python function:  *)
(* the function runs in a worker thread and loads its models through       *)
(* get_service of workflows/base.py, either by a ForgeProxy, which calls   *)
(* the core without the Forge's lock, or by a NativeService of its own,    *)
(* which the Forge knows nothing of.  The requests of other clients are    *)
(* those of Forge.                                                         *)
(*                                                                         *)
(* A pipeline is a call of the actor, so its thread takes the steps of     *)
(* _do_load as the load threads of Forge do.  Inference changes nothing    *)
(* here and is left out, as is the memory of a NativeService outside.      *)
(***************************************************************************)
EXTENDS Forge

CONSTANTS
  Flows,     \* the calls that are legacy pipelines
  Native,    \* the service the pipelines use
  Objects,   \* identities of what get_service makes, more than can be referred to
  MaxLoads   \* bound on the loads of one pipeline

ASSUME FlowConstants ==
  /\ Flows \subseteq Calls
  /\ Nobody \notin Objects
  /\ IsFiniteSet(Flows) /\ IsFiniteSet(Objects)
  /\ Cardinality(Objects) >= Cardinality(Flows) + 2
  /\ Native \in Services
  /\ MaxLoads \in Nat

VARIABLES
  core,     \* _forge_core of workflows/base.py is set
  svc,      \* _svc of workflows/base.py, or Nobody
  held,     \* the local variable svc of each pipeline's function
  kind,     \* what each object is: none, proxy, hollow (no core), bare
  nloaded,  \* _native_loaded of each proxy
  left,     \* loads each pipeline may still make
  overlaps, \* history: pipelines another one has run beside
  pulled    \* history: native was unloaded under a pipeline and not loaded since

objVars == <<core, svc, held, kind, nloaded>>
history == <<overlaps, pulled>>
allVars == <<vars, objVars, left, history>>

Clients == Calls \ Flows
Running == {f \in Flows : pc[f] # "idle"}
Pipeline == [op |-> "pipeline", svc |-> Native]

-----------------------------------------------------------------------------
(* Objects and their references.                                           *)

Fresh == CHOOSE o \in Objects : kind[o] = "none"

\* The global and one local variable change; what nobody refers to any more is
\* collected.
Rebind(f, global, local, kinds) ==
  LET live == {global, local} \cup {held[g] : g \in Flows \ {f}} IN
  /\ svc' = global
  /\ held' = [held EXCEPT ![f] = local]
  /\ kind' = [o \in Objects |-> IF o \in live THEN kinds[o] ELSE "none"]
  /\ nloaded' = [o \in Objects |-> nloaded[o] /\ o \in live]

-----------------------------------------------------------------------------
(* run_pipeline, on the event loop.                                        *)

\* Mutant: set_forge_core is not called.
StartUninjected(f) ==
  /\ pc[f] = "idle" /\ evloop = Nobody
  /\ override' = override \cup {Native}
  /\ core' = core
  /\ Rebind(f, Nobody, Nobody, kind)
  /\ req' = [req EXCEPT ![f] = Pipeline]
  /\ left' = [left EXCEPT ![f] = MaxLoads]
  /\ Go(f, "ready")
  /\ UNCHANGED <<loaded, loading, alloc, free, vram, holder, evloop, loc,
                 threadVars, gpuVars>>

\* native is locked for the pipeline, set_forge_core, then to_thread.
Start(f) ==
  /\ pc[f] = "idle" /\ evloop = Nobody
  /\ override' = override \cup {Native}
  /\ core' = TRUE
  /\ Rebind(f, Nobody, Nobody, kind)
  /\ req' = [req EXCEPT ![f] = Pipeline]
  /\ left' = [left EXCEPT ![f] = MaxLoads]
  /\ Go(f, "ready")
  /\ UNCHANGED <<loaded, loading, alloc, free, vram, holder, evloop, loc,
                 threadVars, gpuVars>>

\* The function has returned or raised: the lock goes, and clear_forge_core.
End(f) ==
  /\ pc[f] \in {"ready", "failed"} /\ evloop = Nobody
  /\ override' = override \ {Native}
  /\ core' = FALSE
  /\ Rebind(f, Nobody, Nobody, kind)
  /\ req' = [req EXCEPT ![f] = NoRequest]
  /\ left' = [left EXCEPT ![f] = 0]
  /\ Go(f, "idle")
  /\ UNCHANGED <<loaded, loading, alloc, free, vram, holder, evloop, loc,
                 threadVars, gpuVars>>

-----------------------------------------------------------------------------
(* get_service, in the pipeline's thread.  The event loop and the other    *)
(* threads may run between any two of its accesses to the globals.         *)

Stays(f, to) == Go(f, to) /\ UNCHANGED <<coreVars, holder, evloop, req, loc>>

\* if _svc is None: if _forge_core is not None; ForgeProxy comes later.
GetService(f) ==
  /\ pc[f] = "ready" /\ left[f] > 0
  /\ held[f] = Nobody \/ left[f] < MaxLoads  \* something was done with the last one
  /\ Stays(f, IF svc # Nobody THEN "returning" ELSE IF core THEN "proxying" ELSE "naming")
  /\ UNCHANGED <<threadVars, gpuVars, objVars, left>>

\* _svc = ForgeProxy(_forge_core), which reads the core again, or NativeService().
MakeService(f) ==
  LET made == CASE pc[f] = "naming" -> "bare"
                [] pc[f] = "proxying" /\ core -> "proxy"
                [] OTHER -> "hollow"
  IN
  /\ pc[f] \in {"proxying", "naming"}
  /\ Rebind(f, Fresh, held[f], [kind EXCEPT ![Fresh] = made])
  /\ Stays(f, "returning")
  /\ UNCHANGED <<threadVars, gpuVars, core, left>>

\* return _svc, whatever it is by now; None has no load().
ReturnService(f) ==
  /\ pc[f] = "returning"
  /\ Rebind(f, svc, svc, kind)
  /\ Stays(f, IF svc = Nobody THEN "failed" ELSE "ready")
  /\ UNCHANGED <<threadVars, gpuVars, core, left>>

-----------------------------------------------------------------------------
(* ForgeProxy.load and NativeService.load, in the pipeline's thread.       *)

\* Mutant: the first load goes to the adapter, like the later ones.
LoadUntracked(f) ==
  LET k == IF held[f] = Nobody THEN "none" ELSE kind[held[f]] IN
  /\ pc[f] = "ready" /\ left[f] > 0 /\ k # "none"
  /\ left' = [left EXCEPT ![f] = @ - 1]
  /\ \/ k = "hollow" /\ Stays(f, "failed") /\ UNCHANGED threadVars
     \/ k = "bare" /\ Stays(f, "ready") /\ UNCHANGED threadVars
     \/ /\ k = "proxy" /\ Stays(f, "swapping")
        /\ est' = [est EXCEPT ![f] = vram[Native]] /\ UNCHANGED thr
  /\ UNCHANGED <<gpuVars, objVars>>

\* A proxy's first load is _do_load; later ones remember vram_mb as "before".
Load(f) ==
  LET k == IF held[f] = Nobody THEN "none" ELSE kind[held[f]] IN
  /\ pc[f] = "ready" /\ left[f] > 0 /\ k # "none"
  /\ left' = [left EXCEPT ![f] = @ - 1]
  /\ \/ k = "hollow" /\ Stays(f, "failed") /\ UNCHANGED threadVars
     \/ k = "bare" /\ Stays(f, "ready") /\ UNCHANGED threadVars
     \/ /\ k = "proxy" /\ ~nloaded[held[f]] /\ Stays(f, "loading")
        /\ thr' = [thr EXCEPT ![f] = "queued"] /\ UNCHANGED est
     \/ /\ k = "proxy" /\ nloaded[held[f]] /\ Stays(f, "swapping")
        /\ est' = [est EXCEPT ![f] = vram[Native]] /\ UNCHANGED thr
  /\ UNCHANGED <<gpuVars, objVars>>

\* _do_load comes back to the proxy.
FirstLoaded(f) ==
  /\ pc[f] = "loading" /\ thr[f] \in {"ok", "failed"}
  /\ thr' = [thr EXCEPT ![f] = "none"]
  /\ nloaded' = [nloaded EXCEPT ![held[f]] = thr[f] = "ok" \/ @]
  /\ Stays(f, IF thr[f] = "ok" THEN "ready" ELSE "failed")
  /\ UNCHANGED <<est, gpuVars, core, svc, held, kind, left>>

\* adapter.load() of a swap returns: the new model is in the place of the old.
Swapped(f) ==
  /\ pc[f] = "swapping"
  /\ \E m \in Footprint[Native] :
       /\ m <= RealFree + used[Native]
       /\ used' = [used EXCEPT ![Native] = m]
       /\ vram' = [vram EXCEPT ![Native] = IF Native \in Measured
                                           THEN Larger(0, m - used[Native]) ELSE @]
  /\ Go(f, "swapped")
  /\ UNCHANGED <<loaded, loading, alloc, free, override, holder, evloop, req, loc,
                 threadVars, drain, objVars, left>>

\* The proxy books the adapter's new vram_mb and the difference; a measured
\* vram_mb is what the swap has added, 0 for a model no larger than the old one.
SwapBooked(f) ==
  /\ pc[f] = "swapped"
  /\ alloc' = [alloc EXCEPT ![Native] = vram[Native]]
  /\ free' = free - (vram[Native] - est[f])
  /\ est' = [est EXCEPT ![f] = 0]
  /\ Go(f, "ready")
  /\ UNCHANGED <<loaded, loading, override, vram, holder, evloop, req, loc, thr,
                 gpuVars, objVars, left>>

\* adapter.load() raises.
SwapRaises(f) ==
  /\ pc[f] = "swapping"
  /\ est' = [est EXCEPT ![f] = 0]
  /\ Stays(f, "failed")
  /\ UNCHANGED <<thr, gpuVars, objVars, left>>

-----------------------------------------------------------------------------

FlowInit ==
  /\ Init
  /\ core = FALSE /\ svc = Nobody
  /\ held = [f \in Flows |-> Nobody]
  /\ kind = [o \in Objects |-> "none"]
  /\ nloaded = [o \in Objects |-> FALSE]
  /\ left = [f \in Flows |-> 0]
  /\ overlaps = {} /\ pulled = FALSE

ClientStep(c) ==
  /\ Submit(c) \/ LoopStep(c) \/ ThreadStep(c) \/ LoadEnds(c) \/ LoadTimesOut(c)
  /\ UNCHANGED <<objVars, left>>

CoreStep(f) ==
  /\ Reserve(f) \/ MarkLoaded(f) \/ LoadEnds(f)
  /\ UNCHANGED <<objVars, left>>

FlowStep(f) ==
  \/ Start(f) \/ End(f)
  \/ GetService(f) \/ MakeService(f) \/ ReturnService(f)
  \/ Load(f) \/ FirstLoaded(f)
  \/ Swapped(f) \/ SwapBooked(f) \/ SwapRaises(f)
  \/ CoreStep(f)

Surroundings ==
  /\ Status \/ \E s \in Services : DriverFrees(s)
  /\ UNCHANGED <<objVars, left>>

\* What the properties remember.
Remember ==
  /\ overlaps' = IF Cardinality(Running') > 1 THEN overlaps \cup Running'
                 ELSE overlaps \cap Running'
  /\ pulled' = IF loaded[Native] = loaded'[Native] THEN pulled
               ELSE loaded[Native] /\ Running # {}

FlowNext ==
  /\ \/ \E c \in Clients : ClientStep(c)
     \/ \E f \in Flows : FlowStep(f)
     \/ Surroundings
  /\ Remember

FlowSpec == FlowInit /\ [][FlowNext]_allVars

-----------------------------------------------------------------------------
(* Properties.                                                             *)

\* What a pipeline has put on the GPU through a proxy belongs to a service in
\* _loaded, so that an invoke of another service unloads it, although loads and
\* swaps take no lock; unless a request has unloaded native under a running
\* pipeline: the proxy does not notice, and its next load goes past the Forge.
\* How much the ledger books for it is another matter: see SwapBooked.
KnownUnlessPulled ==
  /\ used[Native] > 0 /\ ~loaded[Native]
  => pulled \/ \E c \in Calls : thr[c] = "returned" /\ Svc(c) = Native

\* A pipeline that no other pipeline ran beside loads its models through the
\* ledger: get_service gives it a proxy with a core, or fails.
AloneIsProxied ==
  \A f \in Running \ overlaps :
    held[f] # Nobody => kind[held[f]] = "proxy"
=============================================================================
