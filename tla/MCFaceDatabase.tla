--------------------------- MODULE MCFaceDatabase ---------------------------
(* FaceDatabase for TLC. *)
EXTENDS FaceDatabase
=============================================================================
