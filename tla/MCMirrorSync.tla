---------------------------- MODULE MCMirrorSync ----------------------------
(* MirrorSync for TLC. *)
EXTENDS MirrorSync, TLC

Symmetry == Permutations(Contents) \cup Permutations(Paths)
=============================================================================
