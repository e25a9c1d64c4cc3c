------------------------ MODULE MC_MeetingSummary ------------------------
(* MeetingSummary for TLC: the workers are interchangeable. *)
EXTENDS MeetingSummary, TLC

Symmetry == Permutations(Workers)
==========================================================================
