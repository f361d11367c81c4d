------------------------- MODULE MCPullRequestReview -------------------------
(* Two pull requests of one repository.  p1 gets two runs, as when the update *)
(* of its branch raises a second event, or when a run is lost in a panic.     *)
EXTENDS PullRequestReview

CONSTANTS p1, p2, r1, r2, r3

OfRun == [r \in Runs |-> IF r = r2 THEN p2 ELSE p1]

\* The conditions hold, those of the merge section fail, or all fail.
SomePolicies == {{"Approve", "Merge"}, {"Approve"}, {}}
FullPolicy   == {{"Approve", "Merge"}}

\* The results after which somebody runs the workflows of a head again.
AnyResult  == {"success", "failure"}
JustFailed == {"failure"}
NoResult   == {}
=============================================================================
