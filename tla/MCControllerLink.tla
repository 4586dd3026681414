--------------------------- MODULE MCControllerLink ---------------------------
(* ControllerLink on a small instance: one script that sets the output. *)
EXTENDS ControllerLink
=============================================================================
