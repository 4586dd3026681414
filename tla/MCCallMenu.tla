----------------------------- MODULE MCCallMenu -----------------------------
(* CallMenu for TLC. *)
EXTENDS CallMenu
=============================================================================
