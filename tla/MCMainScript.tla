---------------------------- MODULE MCMainScript ----------------------------
(* MainScript on small instances: see the configurations. *)
EXTENDS MainScript
=============================================================================
