------------------------ MODULE MCPipelineAdmission ------------------------
(* The instance of PipelineAdmission for TLC.  Liveness is checked, so     *)
(* there is no symmetry reduction.                                         *)
EXTENDS PipelineAdmission
=============================================================================
