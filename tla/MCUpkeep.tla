------------------------------ MODULE MCUpkeep ------------------------------
(* Upkeep for TLC, with the times in about the proportions the program and the driver have. *)
EXTENDS Upkeep
=============================================================================
