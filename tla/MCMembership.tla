--------------------------- MODULE MCMembership ---------------------------
(* Instances of Membership for TLC: a few optimizations and clusters. *)
EXTENDS Membership, TLC
=============================================================================
