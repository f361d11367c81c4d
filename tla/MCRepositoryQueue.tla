-------------------------- MODULE MCRepositoryQueue --------------------------
(* Two repositories: r1 with several events, so that a goroutine can end and  *)
(* a successor start between two of them, and r2 with a single event, f1.     *)
EXTENDS RepositoryQueue

CONSTANTS r1, r2, f1, w1, w2, w3

RepositoryOf == [e \in Events |-> IF e = f1 THEN r2 ELSE r1]
=============================================================================
