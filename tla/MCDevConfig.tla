---------------------------- MODULE MCDevConfig ----------------------------
(* DevConfig for TLC: one key of each sort, codes of up to two pairs. *)
EXTENDS DevConfig
=============================================================================
