--------------------------- MODULE MCOrchestrator ---------------------------
(* Instances of Orchestrator; the constants are small numbers. *)
EXTENDS Orchestrator
=============================================================================
