--------------------------- MODULE AnalysisRun ---------------------------
(***************************************************************************)
(* What the row of an analysis promises: MEETING#id / ANALYSIS#summary and *)
(* ANALYSIS#actionItems.  A run is claimed only when no live run holds the *)
(* row, under an identity never used before; it starts once and ends once; *)
(* and an ended run stays ended until another is claimed in its place.     *)
(***************************************************************************)
EXTENDS Naturals

VARIABLES
    row,      \* the row: the run it is about, its status, and whether the lease still runs
    issued    \* how many run identities were drawn; the n-th stands for a fresh UUID

Absent == [run |-> 0, status |-> "absent", lease |-> "out"]

Pending == row.status \in {"queued", "running"}

\* The same run with another status and lease.
As(status, lease) == [run |-> row.run, status |-> status, lease |-> lease]

Init == row = Absent /\ issued = 0

Claim ==
    /\ ~(Pending /\ row.lease = "live")
    /\ issued' = issued + 1
    /\ row' = [run |-> issued + 1, status |-> "queued", lease |-> "live"]

Start ==
    /\ row.status = "queued"
    /\ row' = As("running", "live")
    /\ UNCHANGED issued

Succeed ==
    /\ row.status = "running"
    /\ row' = As("succeeded", "out")
    /\ UNCHANGED issued

Fail ==
    /\ Pending
    /\ row' = As("failed", "out")
    /\ UNCHANGED issued

LeaseRunsOut ==
    /\ row.lease = "live"
    /\ row' = As(row.status, "out")
    /\ UNCHANGED issued

\* The row goes with the meeting's derivatives.
Drop == row' = Absent /\ UNCHANGED issued

Next == Claim \/ Start \/ Succeed \/ Fail \/ LeaseRunsOut \/ Drop

Spec == Init /\ [][Next]_<<row, issued>>
=============================================================================
