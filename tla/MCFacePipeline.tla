--------------------------- MODULE MCFacePipeline ---------------------------
(* FacePipeline for TLC.  The sizes are smaller than the code's 3, 10 and 20 in the   *)
(* same relation: FrgCap = FrgLimit + PipeCap + 1 leaves no slack.                    *)
EXTENDS FacePipeline
=============================================================================
