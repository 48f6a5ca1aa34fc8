---------------------------- MODULE MCFrameQueue ----------------------------
(* FrameQueue for TLC: two producers and two consumers. *)
EXTENDS FrameQueue

CONSTANTS p1, p2, c1, c2
=============================================================================
