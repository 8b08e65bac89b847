------------------------------ MODULE MCForge ------------------------------
(* Instances of Forge.  Memory in GB; the footprints are small sets that    *)
(* include the declared estimate.                                           *)
EXTENDS Forge, TLC

CONSTANTS llm, gemx, lance, kimodo, native, moss

Of(f, default) == [s \in Services |-> IF s \in DOMAIN f THEN f[s] ELSE default]

MCVram == Of(llm :> 20 @@ gemx :> 8 @@ kimodo :> 17 @@ moss :> 24, 0)
MCPersist == Of(kimodo :> PIPELINE_LOCKED @@ gemx :> PERSISTENT, TRANSIENT)
MCFootprint ==
  Of(llm :> {18, 20} @@ gemx :> {8} @@ kimodo :> {17} @@ moss :> {22} @@ lance :> {2, 4}
     @@ native :> {6, 14}, {})

MCRequests ==
  {[op |-> o, svc |-> s] : o \in {"invoke", "preload", "release"}, s \in Services}
    \cup {[op |-> "release", svc |-> Everything]}

\* llm never finishes loading.
HangingFootprint == [MCFootprint EXCEPT ![llm] = {}]

\* The ledger drifts in these runs: explore it within this distance.
LedgerBound == free \in -20..34

CallSymmetry == Permutations(Calls)
=============================================================================
