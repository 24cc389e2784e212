---------------------------- MODULE MCWriteQueue ----------------------------
(* Instances of WriteQueue for TLC: three calls on a queue that two fill. *)
EXTENDS WriteQueue, TLC
=============================================================================
