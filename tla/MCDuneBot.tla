----------------------------- MODULE MCDuneBot -----------------------------
(* A repository with two pull requests, two events at a time.  Its default     *)
(* branch is not called like that of .github, which may have a file on both,   *)
(* on one or on none.  The repository has no file, one that points to the      *)
(* owner's, or one that is laid over it: it takes back the authors of the      *)
(* approve section, which over nothing is left without branches, and changes   *)
(* one setting of each branch of the merge section.                            *)
EXTENDS DuneBot, TLC

CONSTANTS a, p1, p2, d1, d2

OfRepo == [x \in PRs |-> a]
RefOf  == [x \in Repos |-> "master"]

Branch(prefix, authors)    == [prefix |-> prefix, authors |-> authors]
Include(authors, branches) == [authors |-> authors, branches |-> branches]
ByKey(k, l)                == "k" :> k @@ "l" :> l

OwnFiles ==
  {None,
   [mode |-> "original", approve |-> None, merge |-> None],
   [mode    |-> "merge",
    approve |-> Include(Null, None),
    merge   |-> Include(None, ByKey(Branch(None, {p1, p2}), Branch(None, {p1})))]}

OwnerFiles ==
  {None,
   [mode    |-> "override",
    approve |-> Include({p2}, ByKey(Branch({p1}, None), Branch({p2}, None))),
    merge   |-> Include(None, ByKey(Branch({p1}, {p2}), Branch({p2}, None)))]}
=============================================================================
