---- MODULE MCRtspServer ----
EXTENDS RtspServer, TLC
(* Descriptors and instance storage are interchangeable in the safety runs. *)
Interchangeable == Permutations(Fds) \cup Permutations(Insts)
====
