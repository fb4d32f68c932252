---------------------------- MODULE MCTtsStore ----------------------------
(* Instances of TtsStore for TLC. *)
EXTENDS TtsStore, TLC

Symmetry == Permutations(Stations)
=============================================================================
