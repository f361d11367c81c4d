------------------------------ MODULE MergeTrain ------------------------------
(* What a repository may rely on when dunebot is the only one to merge: its   *)
(* default branch takes one open pull request at a time, and only one that    *)
(* contains its newest commit, has passed its checks on top of that commit    *)
(* and was approved there.  A pull request that is rebased has to earn both   *)
(* again.  Nothing here knows about runs, snapshots, polling or labels.       *)
EXTENDS Naturals

CONSTANT PRs            \* pull requests of the repository

VARIABLES state,        \* open, closed or merged
          base,         \* the commit of the default branch it was rebased on
          passed,       \* its checks succeeded on top of that commit
          approved,     \* it was approved as it is on top of that commit
          tip           \* the newest commit of the default branch

vars == <<state, base, passed, approved, tip>>

Init ==
  /\ state    = [p \in PRs |-> "open"]
  /\ base     = [p \in PRs |-> 0]
  /\ passed   = [p \in PRs |-> FALSE]
  /\ approved = [p \in PRs |-> FALSE]
  /\ tip      = 0

Rebase(p) ==
  /\ state[p] = "open" /\ base[p] < tip
  /\ base'     = [base EXCEPT ![p] = tip]
  /\ passed'   = [passed EXCEPT ![p] = FALSE]
  /\ approved' = [approved EXCEPT ![p] = FALSE]
  /\ UNCHANGED <<state, tip>>

Pass(p) ==
  /\ passed' = [passed EXCEPT ![p] = TRUE]
  /\ UNCHANGED <<state, base, approved, tip>>

Approve(p) ==
  /\ base[p] = tip
  /\ approved' = [approved EXCEPT ![p] = TRUE]
  /\ UNCHANGED <<state, base, passed, tip>>

Close(p) ==
  /\ state[p] = "open"
  /\ state' = [state EXCEPT ![p] = "closed"]
  /\ UNCHANGED <<base, passed, approved, tip>>

Merge(p) ==
  /\ state[p] = "open" /\ base[p] = tip
  /\ passed[p] /\ approved[p]
  /\ state' = [state EXCEPT ![p] = "merged"]
  /\ tip'   = tip + 1
  /\ UNCHANGED <<base, passed, approved>>

Next == \E p \in PRs : Rebase(p) \/ Pass(p) \/ Approve(p) \/ Close(p) \/ Merge(p)

Spec == Init /\ [][Next]_vars
=============================================================================
