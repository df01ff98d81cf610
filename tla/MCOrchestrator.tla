--------------------------- MODULE MCOrchestrator ---------------------------
(***************************************************************************)
(* Orchestrator with up to two callers.                                 *)
(***************************************************************************)
EXTENDS Orchestrator

CONSTANTS p1, p2
=============================================================================
