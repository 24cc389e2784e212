---------------------------- MODULE MCWarmPath ----------------------------
(* Instances of WarmPath for TLC: two clusters in up to two projects. *)
EXTENDS WarmPath, TLC
=============================================================================
