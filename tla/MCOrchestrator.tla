--------------------------- MODULE MCOrchestrator ----------------------------
(* Bounds for TLC: the number of slices is given in the .cfg files.         *)
EXTENDS Orchestrator
==============================================================================
