------------------------- MODULE MCLegacyPipelines -------------------------
(* An instance of LegacyPipelines: a client that invokes gemx or releases    *)
(* native, and two slots for pipelines.  Memory in units of 4 GB, a service  *)
(* of 8 GB being 2 of the 22 GB.                                             *)
EXTENDS LegacyPipelines, TLC

CONSTANTS gemx

MCVram == [s \in Services |-> IF s = gemx THEN 2 ELSE 0]
MCPersist == [s \in Services |-> IF s = gemx THEN PERSISTENT ELSE TRANSIENT]
MCFootprint == [s \in Services |-> {2}]
MCRequests ==
  {[op |-> "invoke", svc |-> gemx], [op |-> "release", svc |-> Native]}

\* The ledger drifts: explore it within this distance.
LedgerBound == free \in 1..5

PipelineSymmetry == Permutations(Flows)
=============================================================================
