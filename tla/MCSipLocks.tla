----------------------------- MODULE MCSipLocks -----------------------------
(* SipLocks on a small instance. *)
EXTENDS SipLocks
=============================================================================
