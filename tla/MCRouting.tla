----------------------------- MODULE MCRouting -----------------------------
(* Instances of Routing for TLC: a bridge and a plain client. *)
EXTENDS Routing, TLC
=============================================================================
