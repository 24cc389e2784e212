---------------------------- MODULE MCRefinement ----------------------------
(* The refinement of a result, for model checking. *)
EXTENDS Refinement, TLC
=============================================================================
