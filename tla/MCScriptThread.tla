--------------------------- MODULE MCScriptThread ---------------------------
(* One script object; the module has no constants, so this run is complete. *)
EXTENDS ScriptThread
=============================================================================
