----------------------------- MODULE MCDispatch -----------------------------
(* Two repositories in an installation each.  One has three pull requests on  *)
(* pages of two and may get a fourth, the other has one.                      *)
EXTENDS Dispatch

CONSTANTS a, b, p1, p2, p3, p4, q1

OfRepo == [p \in PRs |-> IF p = q1 THEN b ELSE a]
OpenAtStart == [r \in Repos |-> IF r = a THEN <<p3, p2, p1>> ELSE <<q1>>]
TwoInstallations == << <<a>>, <<b>> >>
BothRepos == <<a, b>>
=============================================================================
