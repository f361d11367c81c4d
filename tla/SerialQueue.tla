----------------------------- MODULE SerialQueue -----------------------------
(* What the rest of dunebot may rely on when it hands an event to            *)
(* pkg/queue: the events of one repository are handled one at a time, in the  *)
(* order in which they were accepted, while the repositories do not wait for  *)
(* each other.  Nothing here knows about goroutines, locks or maps.           *)
EXTENDS Naturals, Sequences

CONSTANTS Repos,        \* repositories, the keys "owner/name"
          Events,       \* webhook events, one identity per delivery
          getPrefix     \* the repository of each event

VARIABLES accepted,     \* per repository: the events handed over, in order
          started,      \* per repository: the events given to their handler
          finished      \* per repository: how many handlers have returned

vars == <<accepted, started, finished>>

Init ==
  /\ accepted = [r \in Repos |-> <<>>]
  /\ started  = [r \in Repos |-> <<>>]
  /\ finished = [r \in Repos |-> 0]

Submit(e) ==
  /\ accepted' = [accepted EXCEPT ![getPrefix[e]] = Append(@, e)]
  /\ UNCHANGED <<started, finished>>

\* The handler of the oldest waiting event starts, the previous one being done.
Begin(r) ==
  /\ finished[r] = Len(started[r])
  /\ Len(started[r]) < Len(accepted[r])
  /\ started' = [started EXCEPT ![r] = Append(@, accepted[r][Len(@) + 1])]
  /\ UNCHANGED <<accepted, finished>>

End(r) ==
  /\ finished[r] < Len(started[r])
  /\ finished' = [finished EXCEPT ![r] = @ + 1]
  /\ UNCHANGED <<accepted, started>>

Next ==
  \/ \E e \in Events : Submit(e)
  \/ \E r \in Repos : Begin(r) \/ End(r)

Spec == Init /\ [][Next]_vars
=============================================================================
