---------------------------- MODULE MCRunStream ----------------------------
(* Instances of RunStream for TLC. *)
EXTENDS RunStream, TLC
=============================================================================
