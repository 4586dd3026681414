----------------------------- MODULE MCSoundPath -----------------------------
(* SoundPath on a small instance. *)
EXTENDS SoundPath
=============================================================================
