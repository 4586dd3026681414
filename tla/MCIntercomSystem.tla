-------------------------- MODULE MCIntercomSystem --------------------------
(* IntercomSystem on small instances: see the configurations. *)
EXTENDS IntercomSystem
=============================================================================
