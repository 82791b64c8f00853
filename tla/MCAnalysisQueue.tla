--------------------------- MODULE MCAnalysisQueue ---------------------------
(* Instances of AnalysisQueue for TLC.  No symmetry: the run checks liveness. *)
EXTENDS AnalysisQueue, TLC
=============================================================================
