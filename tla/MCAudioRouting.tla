--------------------------- MODULE MCAudioRouting ---------------------------
(* Instances of AudioRouting for TLC. *)
EXTENDS AudioRouting, TLC

Symmetry == Permutations(Calls)

=============================================================================
