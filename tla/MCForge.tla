------------------------------ MODULE MCForge -------------------------------
(* Forge with two requests of the tab and one of an IDE. *)
EXTENDS Forge

=============================================================================
