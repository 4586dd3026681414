----------------------------- MODULE ScriptLife -----------------------------
(***************************************************************************)
(* The life of one script as the rest of the program may rely on it: an    *)
(* object is constructed, its thread runs, the thread completes, and only  *)
(* then is the object deleted; a stop request may come at any time between *)
(* and is never taken back.  A script whose thread could not be started    *)
(* goes from "new" straight to "deleted".                                  *)
(*                                                                         *)
(* ScriptThread implements this for one script, step by step;              *)
(* IntercomSystem implements it for every script in its registry.          *)
(***************************************************************************)
VARIABLES phase,     \* "new", "running", "completed" or "deleted"
          stopped    \* a stop() has set m_script_exit

vars == <<phase, stopped>>

Init == phase = "new" /\ stopped = FALSE

Start    == phase = "new" /\ phase' = "running" /\ UNCHANGED stopped

Stop     == phase \in {"running", "completed"} /\ stopped' = TRUE /\ UNCHANGED phase

Complete == phase = "running" /\ phase' = "completed" /\ UNCHANGED stopped

Delete   == phase \in {"new", "completed"} /\ phase' = "deleted" /\ UNCHANGED stopped

Next == Start \/ Stop \/ Complete \/ Delete

Spec == Init /\ [][Next]_vars
=============================================================================
