------------------------------- MODULE MCChecks -------------------------------
EXTENDS Checks, TLC

CONSTANTS w1, w2, c1

Call(k, a, w, p, b, q) ==
  [kind |-> k, retry |-> [attempts |-> a, wait |-> w, pause |-> p],
   baseline |-> b, required |-> q]

\* The first workflow runs again, the second one does not.
RunsOf == w1 :> 2 @@ w2 :> 1

\* WaitForRebase with every Retry at the edges, the defaults included; the other
\* waits with limits of a few units, below and above what one turn takes.
SomeCalls ==
  {Call("rebase", a, w, p, None, {}) : a \in {-1, 0, 2}, w \in {-1, 0, 4}, p \in {-1, 0, 3}}
  \cup {Call("status", a, 4, 3, {w1, w2}, {w1, c1}) : a \in {-1, 2}}
  \cup {Call("status", -1, 4, -1, {w1, w2}, {})}
  \cup {Call(k, 2, w, 3, {w1, w2}, {}) : k \in {"push", "pull_request"}, w \in {4, 20}}
=============================================================================
