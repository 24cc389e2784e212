---------------------------- MODULE MCRateLimit ----------------------------
(* Instances of RateLimit for TLC: the provider in use and another. *)
EXTENDS RateLimit, TLC
=============================================================================
