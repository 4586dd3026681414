--------------------------- MODULE MCVoiceResponse ---------------------------
(* VoiceResponse for TLC. *)
EXTENDS VoiceResponse
=============================================================================
