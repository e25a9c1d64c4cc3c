----------------------- MODULE MC_MultipartUpload -----------------------
(* MultipartUpload for TLC: the workers are interchangeable. *)
EXTENDS MultipartUpload, TLC

Symmetry == Permutations(Workers)
=========================================================================
