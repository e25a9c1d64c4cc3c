----------------------- MODULE MC_SummaryAnalyses -----------------------
(***************************************************************************)
(* One run of each analysis against edits and the pipeline, or two runs of *)
(* the re-summary delivered to two workers.                                *)
(***************************************************************************)
EXTENDS SummaryAnalyses, TLC

OneEach == [rs |-> 1, aa |-> 1]
TwoSummaries == [rs |-> 2, aa |-> 0]

Symmetry == Permutations(Clients) \cup Permutations(Summarizers) \cup Permutations(Extractors)
=============================================================================
