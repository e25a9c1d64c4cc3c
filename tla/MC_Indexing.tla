---------------------------- MODULE MC_Indexing ----------------------------
(* Indexing for TLC: ticks and resources are interchangeable. *)
EXTENDS Indexing, TLC

Symmetry == Permutations(Ticks) \cup Permutations(Resources)
=============================================================================
