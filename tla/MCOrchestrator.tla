--------------------------- MODULE MCOrchestrator ---------------------------
(***************************************************************************)
(* Model-checking instance of Orchestrator.  Two requests of every kind    *)
(* run concurrently; a React request goes on to a second turn only while   *)
(* no other request is there, which bounds the traces.                     *)
(***************************************************************************)
EXTENDS Orchestrator

TurnsAlone ==
    \A r, q \in Requests : turn[r] > 1 /\ q # r => pc[q] = "idle"

BoundedSpec ==
    /\ Init /\ [][Next /\ TurnsAlone']_vars
    /\ \A r \in Requests : WF_vars(Step(r) /\ TurnsAlone')
=============================================================================
