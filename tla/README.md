# Verification of the pux-ray control plane

TLA+ models, TLC configurations and TLAPS proofs for the parts of pux-ray that decide *who uses
the GPU, and in which order things happen*: the Forge (VRAM manager), the workflow engine with its
run store, the planner of workflow specs, the pipelines that tie the two deployments together, and
the older pipelines in Python that go around the Forge's lock; and for two programs beside them
that keep state others depend on: the scrape service of the web-research MCP server and the
deduplication of the model store. Paths below are relative to `src/`.

## 1. Inventory of the system

| Component | State it keeps | Operations | Interacts with |
|---|---|---|---|
| **Forge** `services/forge.py` (`ForgeCore`, deployment `Forge`) | `_loaded`, `_loading`, `_vram_allocations`, `_vram_free_mb`, `_persistence_overrides`, `_load_lock` | invoke, preload, release, unload_service, status, run_pipeline | services (worker threads), CUDA driver, engine, gateway |
| **Standalone Forge** `services/standalone_forge.py`, `forge_base.py` | a copy of the core | the same over HTTP; only invoke takes the lock | services |
| **Workflow engine** `services/workflows/engine.py` + `state.py` | `state.json` per run, `_running`, `_wait_events`, `_skip_review_runs` | start_run, cancel_run, approve_step, rerun_from, execute_single_step, stream_events | executors, gateway, Forge |
| **Specs and plan** `services/workflows/spec.py` | none (pure) | `_validate`, `_execution_plan` (Kahn), `_downstream_steps` | engine |
| **Step executors** `services/workflows/steps/*` | none | execute | Forge, inference pools |
| **Legacy pipelines** `services/forge_proxy.py`, `workflows/base.py` | module globals `_svc`, `_forge_core`; the proxy's `_native_loaded` | get_service, load, infer, unload | ForgeCore, without its lock |
| **Service adapters** `services/forge_subprocess.py`, `services/native/*` | subprocess, model, measured vram | load, unload, infer | Forge |
| **Inference pools** `services/inference/*` | static pools and routes, health cache | resolve, dispatch with fallback | backends |
| **VACE server** `services/video/vace_server.py` | `_pipe`, `_loaded_model`, `_loading`, `_load_error` | load_model (background thread), unload, infer | HTTP clients |
| **LLM deployment** `services/llm/deployment.py` | server subprocess, current model | configure, request | Serve |
| **Gateway** `gateway/*` | none | routing, overflow to the cloud | Forge, engine |
| **Media-analysis MCP** `mcp/media-analysis/src/services/*` | per-model `_loaded`, idle timestamps | load on demand, evict when idle | the event loop |
| **Web-research MCP** `mcp/web-research/src/*` | table `domains`, a URL cache in Redis that never answers (section 4), permits per domain, browser semaphore | scrape with a fallback chain, reset and clear_blacklist tools, clean-up task, search | PostgreSQL, Redis, Celery worker, browsers |
| **Model registry** `registry/audit.py`, `gc.py` | the model store on disk, the audit manifest | audit, purge, deduplicate by hard links, delete orphans | downloads, every service that reads a model |
| **Rest of the registry, boot, SDK, other MCP servers** | files, clusters | command line tools, thin clients | |

Left aside: `reference/` and vendored code, downloads, infrastructure manifests, model code.

What is hard here: one asyncio loop with many awaits and worker threads that outlive them
(`wait_for(to_thread(...))`); a ledger that is reconciled against a driver that frees memory
late; status polls that take no lock; a run whose state is on disk while its coroutine and its
events are in memory; reruns, approvals and cancels in any order; two deployments that call
each other with a bounded number of request slots.

What makes each part correct:

* Forge: one load or unload at a time; a service that answers an invoke has the GPU alone; the
  ledger adds up and tells the truth, also when load or unload raises; a preload evicts in order
  of persistence; a request is refused only because its service declares more than there is, or,
  a preload, because of a locked service; every request is answered.
* Engine: no step runs before its dependencies, twice at once, or again when completed; a
  waiting step can be woken; a cancel is final; a run ends, and its status says what happened.
* Plan: groups respect dependencies, contain every step once, or the cycle is reported.
* Legacy pipelines: what they put on the GPU belongs to a service the Forge knows to be loaded.
* Pipelines: the answer is the outcome of the run; a run that was answered for is over, unless a
  call to the engine failed; no starvation while a slot is left.
* Scrape service: a permit comes back on every way out; a domain is blacklisted for what it did,
  not for what a lost or late update says; every scrape is answered.
* Model store: deduplication loses no content and no path, wherever it stops.

## 2. Modules

| Module | Models | Notes |
|---|---|---|
| `MemoryBlocks` | `_total_allocated` | a sum over services, with its arithmetic (`TotalUpdate`) in `ForgeProofs` |
| `Forge` | `ForgeCore` behind `Forge` | one action per stretch of a handler between two awaits, plus threads, driver and status polls |
| `GpuArbiter` | *abstract:* what callers of the Forge are promised | refined by `Forge` (`ArbiterSpec`) |
| `MCForge` | instances of `Forge` | services and footprints after the service map, in GB |
| `StepGraph` | the dependency graph | `Acyclic`, `Levels`, `DownstreamSteps` |
| `ExecutionPlan` | `_execution_plan` | the loop of Kahn's algorithm, on every graph |
| `WorkflowEngine` | one run: engine and `state.json` | one action per stretch of a coroutine between two suspensions |
| `DagRun` | *abstract:* a run of a DAG | refined by `WorkflowEngine` (`DagRunSpec`) |
| `MCWorkflowEngine` | instances of `WorkflowEngine` | a five-step DAG with two parallel groups |
| `PipelineRuns` | `Forge.run_pipeline` (YAML) across Forge and engine | slots of the deployment, the lock, the polling, the timeout |
| `LegacyPipelines` | `Forge.run_pipeline` (Python functions), `get_service`, `ForgeProxy.load` | *composes* pipeline threads with all of `Forge` |
| `MCLegacyPipelines` | an instance of `LegacyPipelines` | a client and two pipelines |
| `ScrapeService` | `UnifiedScrapeService.scrape`, `scrape_with_fallback`, the `domains` table | one action per database transaction, scraping attempt or wait |
| `MCScrapeService` | an instance of `ScrapeService` | a site with a page and a PDF, and Reddit |
| `ModelStore` | duplicate pass of `audit.py`, `dedupe_hardlink` and `delete_orphans` of `gc.py` | one action per system call that changes the disk |
| `MCModelStore` | an instance of `ModelStore` | four places in two directories |
| `ForgeProofs`, `ForgeLedgerProofs`, `ExecutionPlanProofs`, `WorkflowEngineProofs`, `PipelineRunsProofs`, `LegacyPipelinesProofs`, `ScrapeServiceProofs`, `ModelStoreProofs` | theorems | see section 5 |

Definitions marked `Mutant:` in the modules are deliberate bugs; no specification uses them.
They serve to see that each property fails when the code is changed that way.

### Forge

A *call* is a request inside the actor. `pc[c]` says at which await its coroutine is, `loc[c]`
holds its Python locals (the candidates still to consider, the victim, `before_gpu`), `thr[c]`
its load thread. Sections without an await are atomic: `Admit` is `_cleanup_stale_allocations`
and `_can_fit` together, `Reserve` is `_reserve_vram`, `MarkLoaded` the end of `_do_load` with
`_reconcile_vram`. `evloop` is set while a call is in the middle of such a section that the
model splits in two. The lock is a guard on `Enter` for the operations in `LockedOps`.

Abstractions: `alloc[s] = 0` stands for a missing key; `+=` on the ledger is atomic under the GIL;
the driver frees all memory of one service at once (`DriverFrees`); GPU memory no service holds
(CUDA contexts, other programs) is the constant `Foreign`, which the driver reports as used and
`_reconcile_vram` therefore charges to the service that loads; ties in the order of candidates
(dict order) are nondeterministic; a client that disconnects, a driver query that fails, and the
mode without CUDA are not modelled; the persistence keys are read when a candidate is picked.

### Plan

`ExecutionPlan.Init` picks *any* graph over `Steps`, cyclic or not, so that the algorithm is
checked on all of them (65536 for four steps). A name repeated in `depends_on` adds to the
in-degree and is subtracted as often: sets lose nothing.

### Workflow engine

`status` and `step` are `state.json`; everything else is lost by `Restart`. A *task* is a
coroutine of this run: the runner of `_run_workflow`, or one `execute_single_step`. `exec[t][s]`
is where `_execute_step` is: *executing* in the executor, *waiting* or *reviewing* at an event,
*woken*/*reviewed* once it is set. `snap` is `run.step_states` as loaded by the runner, which is
never refreshed: the model keeps it stale, as the code does. `Proceed` is everything between the
end of one group and the first suspension of the next, the end of the run included, so that
reading `state.json` and writing it are one action exactly when no await that really suspends
lies between them (RunStore's file I/O is synchronous and its locks are never contended).

Constants describe the environment: which commands clients send, in which statuses of the run
they call `rerun_from` and `execute_single_step`, whether they are `Impatient`.

Abstractions: artifacts, parameters and templates are not modelled, nor a template that fails to
resolve before an interactive wait; `stream_events` only reads; executors are assumed to suspend
at least once; one run at a time, since runs share nothing but the executor registry.

### Pipelines

`run_pipeline` occupies one of the Forge's four request slots (`max_ongoing_requests`) from
`Enter` to its answer, while every step of its run needs another slot for its invoke. A run is a
chain of Forge steps (`left` of them), or one that waits for a user (`stuck`); a crash of the
engine leaves the status and loses the coroutine (`alive`). The time between reading the status
and calling `cancel_run` is a state of its own (`cancelling`). An invoke whose run was cancelled
stays in the Forge until it returns. `CallFails` is every way to the error answer: `get_run` or
`cancel_run` raises, or the run is not found; the coroutine goes on, unless `cancel_run` had
reached it. `ClientCancels` is the cancel of a client of the gateway.

Abstractions: reruns and approvals of the run by other clients (a rerun would give a run that was
answered for a new outcome); the engine's own ten request slots (`engine.py:41`), so that
`get_run` and `cancel_run` are always served.

### Legacy pipelines

A pipeline written as a Python function is a call of the Forge (`Flows \subseteq Calls`) whose
function runs in a worker thread, without the lock, while the requests of other clients are the
actions of `Forge` as they stand. `core` and `svc` are the globals `_forge_core` and `_svc` of
`workflows/base.py`; `held[f]` is the variable in which the function keeps what `get_service`
gave it. An object is a *proxy*, a *hollow* proxy (made when the core was already cleared, so
that its `load` raises) or a *bare* `NativeService`. `get_service` is three actions, one per
access to the globals that another thread can come between: `GetService` (both tests),
`MakeService` (the constructor reads the core again) and `ReturnService`. The first load of a
proxy goes through `Reserve`, `LoadReturns` and `MarkLoaded` of `Forge`, which the model shares
because the code does; later loads are the swap (`Swapped`, `SwapBooked`).

`overlaps` and `pulled` are history variables: the pipelines that another one ran beside, and
whether a request has unloaded *native* under a pipeline.

Abstractions: inference changes nothing; the memory of a bare `NativeService` is outside the
Forge and not counted; the function is any sequence of `get_service` and `load`, up to
`MaxLoads`; nothing in the repository calls `ForgeProxy.unload` or `reset_service`.

### Scrape service

`run[r]` is the coroutine of request `r`: the stage it is suspended at, `todo` (the calls left of
its fallback chain, the retries written out), `tried`, and `seen` (the row its `record_failure`
has read). `Chain` is the order the code goes through; *mark* stands for `set_selenium_only`
between Playwright and Selenium. `Route` takes the order of the special cases from the code: a
PDF is tried even on a blacklisted domain, Reddit and forced methods are not. `free` counts the
permits of the semaphore of each domain, `table` is `domains`.

`record_failure` is two steps, `ReadFailures` and `CountFailure`, because nothing locks the row
between its SELECT and its UPDATE (READ COMMITTED). As SQLAlchemy does, `Failed` writes only the
attributes that differ from what was read, and the UPDATE or INSERT raises when the row was
deleted or inserted since. `record_success` and `set_selenium_only` are single upserts.
`clear_blacklist` reads and writes in one action: what can happen between its statements leaves
the table as if it had happened before or after. `letDown` is a history variable.

Abstractions: a scraping attempt succeeds or fails; a failure with a checkpoint or a crash may
skip the rest of the Crawl4AI retries; the URL cache is left out, as it never answers (section 4);
24 hours and `days_old` are numbers of ticks; a restart loses requests and permits and keeps the
database.

### Model store

`disk[p]` is the directory entry at a path: nothing, an inode, or a symbolic link, which is
resolved from the directory it lies in (`Stat`). `temp[p]` is `.<name>.hardlink-tmp`. The audit
groups by size; the gc, run at any later time, walks the groups of its manifest in the order of
`sorted`, tests again what the code tests again (`Replaceable`), links and replaces. `os.link`
copies the entry, symbolic links included. A kill between two system calls leaves the disk. `Init`
is *any* store over `Paths`: hard links, chains and cycles of symbolic links, links to nowhere.

Abstractions: one file name; modes and owners (`chmod` of the temporary link changes the mode of
the canonical inode as well); nothing writes to the store while the gc runs; paths on one device.

## 3. Runs

| Run | Question | Result |
|---|---|---|
| `forge_ledger` | 3 calls over 5 services (three declared, of every persistence, one self-managed, MOSS, which declares more than there is) beside foreign GPU memory, everything locked: types, exclusion, a ledger that adds up and says what is occupied, eviction order, reasons of refusals, and the Forge implements `GpuArbiter` | holds |
| `forge_live` | is every request answered when a load hangs for ever, beside a self-measured service that switches models and status polls? | holds |
| `forge_timeout` | `OneAtATime` with loads that outlive their timeout | **violated** |
| `forge_status_race` | `LedgerConserved` with status polls | **violated** |
| `plan_graphs` | all graphs on four steps: order, no duplicates, cycles, earliest group, reruns reach everything invalidated | holds |
| `engine_run` | one automatic run with reviews, an interactive step, failures, cancel and a restart implements `DagRun` | holds |
| `engine_rerun` | a run executed by hand, two steps at a time, then rerun from anywhere: order, no double execution, no lost wake-up, termination | holds |
| `engine_rerun_cancel` | `CancelHolds` when a run is rerun while it executes | **violated** |
| `pipeline_runs` | two pipelines and a client on two slots, cancels from outside, calls that fail, a crash: answers, termination, starvation | holds |
| `legacy_pipelines` | two pipelines in Python, a client that invokes and releases, status polls: does the Forge know what a pipeline loads, and when does a pipeline bypass it? | holds |
| `scrape` | three scrapes, the admin tools, the clean-up and a restart: permits, blacklisting, answers | holds |
| `model_store` | audit, downloads, deletions, gc, kills and reruns on every store of four places: contents and paths | holds |

Why the bounds are enough. Three calls let one hold the lock, one wait, and one be in a load
thread; two suffice for any race the lock is meant to exclude. The services of `forge_ledger`
cover every branch of `_can_fit` and `_evict_for`: fits, fits after one or two evictions, does not
fit because of a locked one, does not fit at all, self-managed. One unit of `Foreign` memory is
enough to tell who is charged for it. The DAG of the engine has two parallel groups, a join, an
interactive step and a chain. `pipeline_runs` has as many pipelines as slots, so that they can
take them all, and a client so that slots are also taken by others; two steps per run distinguish
*the next step* from *the last step*. `LedgerBound` in `MCForge` limits how far the ledger drifts
in the runs where it does: it is wider than two failed reconciliations. In `forge_live` it means
that the answer is shown for the behaviours whose drift stays within it. `legacy_pipelines` counts
memory in units of 4 GB, which is enough since both services take 8 of the 22 GB; with one load
per pipeline (`MaxLoads`) a swap still occurs, by a proxy that two pipelines share; the two can
overlap, follow each other, and share or lose what the other left; its own `LedgerBound` lets a
reservation be booked twice. In `scrape`, three requests on one site are two that fail side by
side, whose updates race, and a third that succeeds, is forced or is a PDF; the site has two
permits and the server one browser, so that both waits occur, one inside the other; a threshold of
2 is reached by racing updates, and one tick is longer than both time limits, so failures are
fresh or stale, rows young or old. In `model_store` a group needs a canonical path and one or two
duplicates, a second directory for the links that dangle there, two contents of one size for what
the manifest confuses, and three inodes for a canonical file, its duplicate and a file that
differs or is downloaded, while four paths leave room for hard links, chains and cycles; two
downloads or deletions (`MaxChanges`) after the audit change any two of the places; the fourth
place is a path that leads to another through a link, whose content changes when the other one is
replaced. In `legacy_pipelines` four objects are enough for two pipelines: each holds one, one is
the global `_svc`, one is being made (`FlowConstants`). `MaxRestarts`, `MaxCrashes`, `MaxSteps`
and `MaxTime` bound what would otherwise be unbounded. `CHECK_DEADLOCK FALSE` is set for the
engine, the pipelines, the scrapes and the model store, which stop when everything has ended; the
Forge is checked for deadlock. Symmetry is used for calls, pipelines, coroutines, inodes and
contents of equal size, never with liveness.

Fairness. The asyncio loop runs every ready coroutine, `asyncio.Lock` and the Serve router are
first-in first-out (strong fairness of entering), worker threads run, services return, and the
timers fire. `SlowLoads` get no fairness: `forge_live` shows that the timeout alone is enough.
In the engine, executors return or raise and users approve what waits for them.
A scrape's own steps are taken (weak fairness of `Own`): its scrapers return (the
Selenium executor is assumed to, without a timeout of its own), and the wait for a permit times
out; no fairness is assumed of the admin
tools, the clean-up, a restart or an exception.
`EndsUnlessCrowded` assumes no timer; `EveryPipelineEnds` assumes only that the 600 s pass.

## 4. Disagreements with the documents and tests

Each is in PROJECT.json with the run that shows it.

* `forge_timeout`: `asyncio.wait_for` abandons the coroutine, not the load thread. The lock is
  released and the next request loads beside the late one.
* `forge_status_race`: `status()` takes no lock; while the first load is in flight it clears the
  reservation as an orphan and the ledger no longer adds up.
* `engine_rerun_cancel`: `rerun_from` on a run that executes replaces `_running[run_id]`; the
  old coroutine cannot be cancelled any more and overwrites *cancelled*. The same overlap lets
  one coroutine's cleanup remove an event the other waits for.

Read in the code while modelling, without a run of their own:

* `invoke` unloads every other service before it looks at the VRAM (`forge.py:464-489`), although
  the docstring of `ForgeCore` says that services 'can coexist if their combined VRAM fits'
  (`forge.py:118`) and `tests/test_forge.py:310-326` (`test_self_managed_coexists`) expects a
  declared service to stay loaded while a self-managed one is invoked. `ServedAlone` states what
  the code does. `unload_service` takes no lock and could break it; nothing calls it over HTTP.
* A service that declares more than `AVAILABLE_MB` (MOSS: 24576 of 22528) is refused on an empty
  GPU, by `invoke` as by `preload`, although `services/audio/forge_moss.py:33` says 'MOSS gets
  exclusive access'; the preload unloads everything that is not locked before it is refused.
  `RefusalJustified` names this as one of its two reasons.
* `_reconcile_vram` books whatever the driver reports beyond the other entries (`forge.py:350-358`):
  GPU memory no service holds is charged to the first service that is loaded, and given back with
  it. `LedgerIsReal` allows this charge, once.
* When `get_run` or `cancel_run` raises, or finds no file, `run_pipeline` answers with an error
  (`forge.py:742-743`, `768-770`) and leaves the run to the engine, which goes on executing it and
  calling the Forge. `NothingGoesOn` therefore speaks of outcomes and timeouts only.
* A service that switches to a larger model while inferring is credited at unload for memory it
  was never charged (`forge.py:397`); reconciling a self-managed service next to a declared one
  can make `_vram_free_mb` negative (`forge.py:358`).
* `standalone_forge.py` takes the lock for invoke only.
* `preload` clears *all* persistence overrides, the lock of a pipeline that is running included,
  though its comment speaks of 'locks left by crashed/abandoned pipeline runs' (`forge.py:517`);
  `invoke` unloads a `PIPELINE_LOCKED` *native* under a pipeline, of which
  `forge_persistence.py:12` says 'Never evict'. The pipeline's proxy keeps `_native_loaded`, so
  its next load goes straight to the adapter and the Forge never learns that *native* is back
  (`forge_proxy.py:31`). `KnownUnlessPulled` says that this is the only way in which *native* is on
  the GPU through a proxy and not in `_loaded`.
* `forge_proxy.py:8` says that 'VRAM is tracked by the Forge'; how much is booked is another
  matter. A swap books the adapter's `vram_mb` (`forge_proxy.py:38-41`), which is the *growth* of
  PyTorch's allocation in that load (`native/forge_adapter.py:22-26`) and can be 0 beside gigabytes
  in use; and a pipeline's first load takes no lock, so that beside a load in flight, whose
  reservation counts as another's, `_reconcile_vram` books 0 for it. No property claims the
  ledger right here: `LedgerIsReal` is of the locked operations.
* `ForgeProxy` reserves *native* again for every pipeline although it is still loaded, which
  debits the ledger twice; the override `PIPELINE_LOCKED` and `set_forge_core` are global, so the
  first of two pipelines to end takes them away from the second.
* `gateway/routes/workflows.py:172` asks for the application `workflow_engine`, which
  `infra/flux/ai-services/ray-service.yaml:21` deploys as `workflow-engine`.
* A rerun from a later step while an earlier one is failed or pending ends without completing
  and leaves the status *running*; after a restart nobody resumes a running run.
* `record_failure` says that 'only failures within a 24-hour window count', but measures from
  the last failure: failures each less than a day apart add up over any time
  (`db/database.py:195`).
* The URL cache of `scrape` never answers: `logger` is a local name of `scrape` because of the
  import at `scrape_service.py:141`, so the log call at line 98 raises `UnboundLocalError`, which
  line 100 swallows before the return at 99, although line 4 says 'return cached if hit'.
* `dedupe_hardlink` says that 'both paths continue to work identically', but `os.link` does not
  follow a symbolic link: with a relative one as the canonical path, a duplicate in another
  directory becomes a link to nowhere (`gc.py:212`). `PathKeepsContent` excepts this case, and
  `ContentKept` shows that the content is still there. A temporary link left by a kill makes
  every later attempt on that duplicate fail, without harm.
* `_find_hf_cache_entries` says it marks a cache entry in use when the registry references a path
  inside it, and tests the reverse (`audit.py:211`).

## 5. Proofs

All for every value of the constants that satisfies the modules' assumptions.

* `ForgeProofs!TypeCorrect`: the types, with `CallShape` (which locals a call has at which `pc`)
  as strengthening: TypeOK alone does not know that a victim is a service.
* `ForgeProofs!OneAtATimeHolds`: assuming `EverythingLocked` (every requested operation takes
  the lock and no load outlives its timeout). The invariant `LockInv` says that a call beyond
  `begin` holds the lock, and that a load thread exists only while its call waits for it. The
  assumption is needed: `forge_timeout` is its negation.
* `ForgeProofs!ServedAloneHolds`: `ExclusiveInv` adds what the holder knows of the other
  services at each `pc` (before the load nothing else is loaded, after it only its own), and
  that the others are parked.
* `ForgeProofs!ArbiterImplemented`: under `EverythingLocked`, every step of the Forge is a
  step of `GpuArbiter` or a stutter. `SeenThroughOne` reduces what the arbiter sees to what the
  one busy call does; then each handler's step is mapped (`LoopStepMaps`, `WorkerStepMaps`) and
  what happens outside is invisible (`OutsideMaps`). TLC checks the same property without
  status polls, slow drivers, measured or switching services; the theorem includes them.
* `ForgeProofs!PreloadEvictsInOrderHolds`: under `EverythingLocked`. The property speaks of the
  step in which a service disappears, the order is decided several steps before: `InOrder` says
  what a preload that makes room has passed over (only `PIPELINE_LOCKED` services), and that its
  victim comes first of all that is left. It survives the unload because nobody else can load,
  or change an override, in between (`OthersRest`).
* `ForgeLedgerProofs`: under `ClearLedger`, *allocated plus free is `AVAILABLE_MB`*
  (`LedgerConservedHolds`), what is booked is what is occupied, the foreign memory charged to one
  service at most (`LedgerIsRealHolds`, for any `Foreign`), and every
  reservation belongs to somebody (`NoLeakedReservationHolds`). `ClearLedger` adds to
  `EverythingLocked` what the code needs for its books to be right: no status polls (see
  `forge_status_race`), a driver that frees memory before the waits end, no service that measures
  itself or switches models, and no footprint within the tolerance of `_do_unload` (`Sizeable`:
  the 1 GB of `forge.py:403`; a smaller one would pass for freed while the driver still
  holds it). `LedgerInv` says for each service where memory that
  belongs to no loaded service comes from (a load in flight, or one being given back), and for
  each call what it remembers of the driver (`mark`); `TotalUpdate` of `ForgeProofs` is
  the arithmetic. `OneSurcharge` is why the foreign memory is charged once: when a service loads,
  either nobody is charged for it yet and the newcomer is, or it is among the other entries
  (`OthersBooked`). If no service exceeds its estimate (`HonestEstimates`),
  `DeclaredNeverOvercommitHolds` follows from `AdmittedInv`: a call past admission still has room,
  up to the foreign memory.
  `RefusalJustifiedHolds` joins the ledger and the order of eviction (`RoomInv`): an invoke has
  emptied the GPU before it is admitted, and on an empty GPU the ledger says that all is free and
  the driver that all but the foreign memory is (`EmptyGpuHasRoom`), so it never has to evict,
  unless its service declares more than `AVAILABLE_MB`; a preload that is refused has passed over
  locked services only, and there is one, or it declares too much as well. `Fitting` assumes
  nothing of what services declare, only that the margin `MIN_COFREE_MB` fits on an empty GPU.
* `ExecutionPlanProofs`: `IInv` relates in-degrees to the dependencies not yet planned
  (`Balance`) and `ready` to the steps without any (`ReadyIsNext`); from it
  `GroupsRespectDepsHolds`, `NoStepTwiceHolds`, `PlannedOrCyclicHolds` for every finite graph.
  `AsParallelAsPossibleHolds` needs `Tight` besides (a planned step has a dependency in the group
  just before its own) and compares the groups with `Levels`, a recursive function: its defining
  equation holds on what is planned (`LevelsAre`), whether or not the rest has cycles.
  `RerunReachesDownstreamHolds` shows that `DownstreamSteps` satisfies its equation
  (`DownstreamEquation`, from the least closed sets `Below`), and that those who depend on a step
  are planned after it.
* `WorkflowEngineProofs`: for every finite acyclic spec, any interactive steps and any number of
  restarts, in layers, each with the weakest environment that was found to do. `TypeCorrect`
  assumes nothing of the clients. *Who works on the run* is `Apart` (at most one coroutine runs
  the workflow, none once it has ended, none beside a single step), which needs `Orderly`:
  `rerun_from` is called on completed or failed runs only, `execute_single_step` only where no
  coroutine runs the workflow. From it: `OneExecutionHolds`, `CancelHoldsHolds`,
  `EndedIsQuietHolds`. The run `engine_rerun_cancel` reruns a running run and shows that the
  assumption is needed. *What the steps are at* is `Progress` (before the group at hand everything
  is completed; after it nothing has begun, but for what was completed when the coroutine started;
  in it `exec`, `snap` and `state.json` fit) and `LookedAfter`. They need `Regular`: only
  completed runs are rerun, and single steps executed only before the run starts. A *failed* run
  that is rerun from a later step leaves the earlier ones behind it pending or failed (section 4),
  and `DependenciesFirst` does not hold of it. From them: `RunningIsExecutedHolds`,
  `WaitingIsAwaitedHolds` (without restarts: nobody resumes a waiting step after one),
  `DependenciesFirstHolds` and `NothingRedoneHolds`. Both passing runs of the engine satisfy
  `Regular`. When a run is only started, approved and cancelled (`OneRun`), `RunImplementsDagRun`
  is the refinement of `DagRun`, whose outcome, once set, is final. The groups are the layers of
  the graph, a recursive function over it: `LevelFacts` rests on the lemma that an acyclic graph
  has exactly one layering; `DownstreamFacts` that a rerun resets whatever depends on what it
  resets.
* `PipelineRunsProofs`: `Tied` relates each request to the coroutine of its run; from it
  `AnswerIsOutcomeHolds` and `NothingGoesOnHolds` for any number of requests and crashes, with calls
  that fail and cancels from outside at any time; an answer by an error is not among what
  `NothingGoesOn` speaks of.
* `LegacyPipelinesProofs`: for any number of pipelines, clients and objects, and **whichever
  operations take the lock**: `KnownUnlessPulledHolds` and `AloneIsProxiedHolds`. `FlowInv`
  says which objects of `get_service` are alive and who refers to them (`Pool`), where a pipeline
  is (`Shapes`), that a proxy that believes *native* loaded is right unless *native* was pulled
  (`BeliefsTrue`), and that a pipeline nobody overlaps finds the globals as it set them
  (`Undisturbed`). Every action of the Forge is an interfering step here: `ForgeStepOnNative` says
  what it can do to *native*. The assumption on `Objects` only says that there is always a fresh
  one (`FreshIsNew`).
* `ScrapeServiceProofs`: `PermitInv` adds to types and permits what a stage tells of the chain
  (`ChainShape`: a request that is crawling is at a Crawl4AI call, one that is learning at a
  method); every move of a coroutine keeps, takes or returns a permit (`PermitsStay`,
  `PermitTaken`, `PermitReturned`). `BlacklistEarnedHolds` needs `EarnedInv`: no row counts more
  failures than the domain had, **and neither does a row that some request has read and not yet
  written back** - the stale reads are part of the invariant; and whatever is left of a chain
  together with what was tried covers the three browser methods (`Exhausts`, preserved by going
  on and by skipping to Playwright: `RestExhausts`).
* `ModelStoreProofs`: for any number of places, directories and changes, from any store, whatever
  its hard and symbolic links, cycles included: `ContentKeptHolds` and `PathKeepsContentHolds`.
  `RouteIsReach` identifies the recursive `Route` with reachability, `RouteLaws` is what the proof
  uses of it. `GcInv` says that what was compared is still so when it is replaced; then a path
  either does not lead to the duplicate and reads what it read (`ElsewhereSame`), or leads where
  the duplicate now leads (`ReplacedLeads`). The proof found the first form of `PathKeepsContent`,
  which excepted the duplicate alone, to be false: a path that leads to it through a link dangles
  with it. It takes four places to happen, and `model_store` now has them.

Only model-checked: liveness (`EveryCallEnds`, `RunEnds`, `DoneIsCompleted`, `EndsUnlessCrowded`,
`EveryPipelineEnds`, `EveryScrapeAnswered`), which is out of the prover's reach. Every invariant,
action property and refinement that a passing run checks is a theorem; outside
the assumptions of the theorems (a load that outlives its timeout, status polls during a load,
reruns of running or failed runs) the runs that expect a violation say what happens.

## 6. Plan

Done: the modules above, most important behaviour first (Forge, engine, plan, pipelines, scrape
service, model store, legacy pipelines), and the proofs of section 5.

1. `VaceServer`: background load, waiters, requests for another model during a load.
2. `IdleModels`: on-demand loading and idle eviction of the media-analysis services against
   requests in flight.
3. `PoolDispatch`: the fallback order of pools; `LlmServer`: reconfiguration with requests in
   flight; `SubprocessService`: start, stop and crash of a backend process.
4. Proofs: what remains of the Forge's promises without `EverythingLocked` (which bound the
   ledger keeps when status polls race a load); what a rerun of a failed run keeps of the order
   of its steps.

Not modelled, and why: the gateway, the SDK and the other MCP tools are stateless or sequential;
the rest of the registry tools, boot scripts and downloads are command-line I/O; model code is
numerics; the standalone Forge is a copy of the core, of which `forge.py` is the reference.
