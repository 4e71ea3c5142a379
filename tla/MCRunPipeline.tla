---------------------------- MODULE MCRunPipeline ----------------------------
(* Two callers, and three stages between profile and finalize of which the  *)
(* second reads the first and the third reads both.                         *)
EXTENDS RunPipeline

CONSTANTS p1, p2, fp

MCStages   == <<"discover", "validate", "report">>
MCNode     == {"profile", "discover", "validate", "report", "finalize"}
MCArtifact == [attempt : 1..MaxAttempts,
               from : [{"discover", "validate", "report"} -> 0..MaxAttempts]]
=============================================================================
