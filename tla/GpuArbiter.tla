----------------------------- MODULE GpuArbiter -----------------------------
(***************************************************************************)
(* What the Forge promises the callers of preload, invoke and release: the *)
(* GPU changes hands one service at a time, and a service that is serving  *)
(* an invoke has the GPU to itself until it has answered.                  *)
(***************************************************************************)
CONSTANTS Services, Nobody

VARIABLES
  resident,  \* services whose model is loaded
  moving,    \* the service being loaded or unloaded, or Nobody
  serving    \* the service that is answering an invoke, or Nobody

vars == <<resident, moving, serving>>

Init ==
  /\ resident = {}
  /\ moving = Nobody
  /\ serving = Nobody

\* A load or an unload starts only on a GPU nobody is using.
BeginMove(s) ==
  /\ moving = Nobody /\ serving = Nobody
  /\ moving' = s
  /\ UNCHANGED <<resident, serving>>

\* The service arrives, leaves, or stays where it was when the step failed.
EndMove ==
  /\ moving # Nobody
  /\ resident' \in {resident, resident \cup {moving}, resident \ {moving}}
  /\ moving' = Nobody
  /\ UNCHANGED serving

Serve(s) ==
  /\ moving = Nobody /\ serving = Nobody
  /\ resident = {s}
  /\ serving' = s
  /\ UNCHANGED <<resident, moving>>

EndServe ==
  /\ serving # Nobody
  /\ serving' = Nobody
  /\ UNCHANGED <<resident, moving>>

Next ==
  \/ \E s \in Services : BeginMove(s) \/ Serve(s)
  \/ EndMove
  \/ EndServe

Spec == Init /\ [][Next]_vars
=============================================================================
