------------------------- MODULE MC_SttRecovery -------------------------
(* SttRecovery for TLC: the ticks are interchangeable. *)
EXTENDS SttRecovery, TLC

Symmetry == Permutations(Ticks)
=========================================================================
