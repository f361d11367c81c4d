--------------------------- MODULE RepositoryQueue ---------------------------
(* The per-repository event queue of pkg/queue/queue.go.                      *)
(*                                                                            *)
(* A mutex protects a map from "owner/name" to a slice of events.  The first  *)
(* event of a repository creates the map entry and a goroutine that drains    *)
(* it; the goroutine deletes the entry when it finds the slice empty, and     *)
(* the next event starts another.  Each critical section of the mutex is one  *)
(* action; what a goroutine does between two of them is the value of its pc.  *)
EXTENDS Naturals, Sequences, FiniteSets

CONSTANTS Repos,        \* repositories, the keys "owner/name" of the map
          Events,       \* webhook events, one identity per delivery
          Workers,      \* slots for goroutines; bounds how many are live at once
          getPrefix,    \* the repository of each event
          None          \* the entry of a goroutine that holds no event

ASSUME QueueAssumption ==
  /\ Repos # {}
  /\ getPrefix \in [Events -> Repos]
  /\ None \notin Events

VARIABLES keys,         \* the keys present in mq.queues
          queues,       \* the slice of each key, <<>> for an absent one
          pc,           \* where each goroutine of ReceiveEvent is
          prefix,       \* the argument each goroutine was started with
          entry,        \* the local eventEntry of each goroutine
          closer,       \* where the caller of GraceFullShutdown is
          accepted,     \* history: the events AddEvent took, per repository
          started,      \* history: the events given to HandleEvent
          finished,     \* history: how many HandleEvent calls returned
          before        \* history: how many were accepted when shutdown began

workerVars == <<pc, prefix, entry>>
history    == <<accepted, started, finished, before>>
vars       == <<keys, queues, workerVars, closer, history>>

\* mq.shutdown is closed by the last step of GraceFullShutdown.
shutdown == closer = "done"

\* sync.WaitGroup panics in the closer's goroutine and takes the process along.
Running == closer # "panic"

Live(w)   == pc[w] # "none"                              \* counted by mq.wg
Active(w) == pc[w] \in {"select", "lock", "handling"}    \* inside the for loop
Drained   == \A w \in Workers : ~Live(w)                 \* the counter is zero

Init ==
  /\ keys     = {}
  /\ queues   = [r \in Repos |-> <<>>]
  /\ pc       = [w \in Workers |-> "none"]
  /\ prefix   = [w \in Workers |-> CHOOSE r \in Repos : TRUE]
  /\ entry    = [w \in Workers |-> None]
  /\ closer   = "idle"
  /\ accepted = [r \in Repos |-> <<>>]
  /\ started  = [r \in Repos |-> <<>>]
  /\ finished = [r \in Repos |-> 0]
  /\ before   = [r \in Repos |-> 0]

-----------------------------------------------------------------------------
(* Plausible bugs, each put in the place of an action to see the properties   *)
(* fail: Take on an empty slice, Take that drops the key with the last event, *)
(* Take from the wrong end, a failed event put back, a key that is not        *)
(* deleted, a channel closed first.                                           *)

TakeUnchecked(w) ==
  LET r == prefix[w]
      e == IF queues[r] = <<>> THEN None ELSE Head(queues[r])
  IN
  /\ Running /\ pc[w] = "lock"
  /\ entry'   = [entry EXCEPT ![w] = e]
  /\ queues'  = [queues EXCEPT ![r] = IF @ = <<>> THEN @ ELSE Tail(@)]
  /\ started' = [started EXCEPT ![r] = Append(@, e)]
  /\ pc'      = [pc EXCEPT ![w] = "handling"]
  /\ UNCHANGED <<keys, prefix, closer, accepted, finished, before>>

TakeAndDelete(w) ==
  LET r == prefix[w] IN
  /\ Running /\ pc[w] = "lock" /\ queues[r] # <<>>
  /\ entry'   = [entry EXCEPT ![w] = Head(queues[r])]
  /\ queues'  = [queues EXCEPT ![r] = Tail(@)]
  /\ started' = [started EXCEPT ![r] = Append(@, Head(queues[r]))]
  /\ keys'    = IF Len(queues[r]) = 1 THEN keys \ {r} ELSE keys
  /\ pc'      = [pc EXCEPT ![w] = "handling"]
  /\ UNCHANGED <<prefix, closer, accepted, finished, before>>

TakeNewest(w) ==
  LET r == prefix[w]
      n == Len(queues[r])
  IN
  /\ Running /\ pc[w] = "lock" /\ n > 0
  /\ entry'   = [entry EXCEPT ![w] = queues[r][n]]
  /\ queues'  = [queues EXCEPT ![r] = SubSeq(@, 1, n - 1)]
  /\ started' = [started EXCEPT ![r] = Append(@, queues[r][n])]
  /\ pc'      = [pc EXCEPT ![w] = "handling"]
  /\ UNCHANGED <<keys, prefix, closer, accepted, finished, before>>

HandleEventRequeue(w) ==
  /\ Running /\ pc[w] = "handling"
  /\ queues' \in {queues, [queues EXCEPT ![prefix[w]] = Append(@, entry[w])]}
  /\ entry'    = [entry EXCEPT ![w] = None]
  /\ finished' = [finished EXCEPT ![prefix[w]] = @ + 1]
  /\ pc'       = [pc EXCEPT ![w] = "select"]
  /\ UNCHANGED <<keys, prefix, closer, accepted, started, before>>

DeleteNothing(w) ==
  /\ Running /\ pc[w] = "lock" /\ queues[prefix[w]] = <<>>
  /\ pc' = [pc EXCEPT ![w] = "exiting"]
  /\ UNCHANGED <<keys, queues, prefix, entry, closer, history>>

CloseFirst ==
  /\ closer = "idle"
  /\ closer' = "close"
  /\ before' = [r \in Repos |-> Len(accepted[r])]
  /\ UNCHANGED <<keys, queues, workerVars, accepted, started, finished>>

-----------------------------------------------------------------------------
(* Producers                                                                  *)

\* wg.Add(1) and the go statement, both under the mutex.
Spawn(r) ==
  \E w \in Workers :
    /\ ~Live(w)
    /\ pc'     = [pc EXCEPT ![w] = "select"]
    /\ prefix' = [prefix EXCEPT ![w] = r]

\* Every event is delivered at most once (the bound of the instance).
AddEvent(e) ==
  LET r == getPrefix[e] IN
  /\ Running
  /\ \A i \in DOMAIN accepted[r] : accepted[r][i] # e
  /\ \/ r \in keys /\ UNCHANGED <<pc, prefix>>
     \/ r \notin keys /\ Spawn(r)
  /\ keys'     = keys \cup {r}
  /\ queues'   = [queues EXCEPT ![r] = Append(@, e)]
  /\ accepted' = [accepted EXCEPT ![r] = Append(@, e)]
  /\ UNCHANGED <<entry, closer, started, finished, before>>

-----------------------------------------------------------------------------
(* The goroutine ReceiveEvent(prefix)                                         *)

\* The select: a closed shutdown channel ends the loop, the key stays behind.
Select(w) ==
  /\ Running /\ pc[w] = "select"
  /\ pc' = [pc EXCEPT ![w] = IF shutdown THEN "exiting" ELSE "lock"]
  /\ UNCHANGED <<keys, queues, prefix, entry, closer, history>>

\* Critical section, an event is there: it leaves the slice before it is handled.
Take(w) ==
  LET r == prefix[w] IN
  /\ Running /\ pc[w] = "lock" /\ queues[r] # <<>>
  /\ entry'   = [entry EXCEPT ![w] = Head(queues[r])]
  /\ queues'  = [queues EXCEPT ![r] = Tail(@)]
  /\ started' = [started EXCEPT ![r] = Append(@, Head(queues[r]))]
  /\ pc'      = [pc EXCEPT ![w] = "handling"]
  /\ UNCHANGED <<keys, prefix, closer, accepted, finished, before>>

\* HandleEvent returns; an error is printed and the event is not put back.
HandleEvent(w) ==
  /\ Running /\ pc[w] = "handling"
  /\ entry'    = [entry EXCEPT ![w] = None]
  /\ finished' = [finished EXCEPT ![prefix[w]] = @ + 1]
  /\ pc'       = [pc EXCEPT ![w] = "select"]
  /\ UNCHANGED <<keys, queues, prefix, closer, accepted, started, before>>

\* Critical section, the slice is empty: the key goes and the goroutine with it.
Delete(w) ==
  LET r == prefix[w] IN
  /\ Running /\ pc[w] = "lock" /\ queues[r] = <<>>
  /\ keys' = keys \ {r}
  /\ pc'   = [pc EXCEPT ![w] = "exiting"]
  /\ UNCHANGED <<queues, prefix, entry, closer, history>>

\* The deferred wg.Done, which wakes a sleeping Wait when the counter is zero.
Done(w) ==
  /\ Running /\ pc[w] = "exiting"
  /\ pc' = [pc EXCEPT ![w] = "none"]
  /\ closer' = IF closer = "asleep" /\ \A v \in Workers \ {w} : ~Live(v)
                 THEN "woken" ELSE closer
  /\ UNCHANGED <<keys, queues, prefix, entry, history>>

-----------------------------------------------------------------------------
(* GraceFullShutdown, called once                                             *)

GraceFullShutdown ==
  /\ closer = "idle"
  /\ closer' = "poll"
  /\ before' = [r \in Repos |-> Len(accepted[r])]
  /\ UNCHANGED <<keys, queues, workerVars, accepted, started, finished>>

\* WaitUntilFinished leaves its polling loop when it sees an empty map.
PollEmpty ==
  /\ closer = "poll" /\ keys = {}
  /\ closer' = "wait"
  /\ UNCHANGED <<keys, queues, workerVars, history>>

\* wg.Wait returns at once on a zero counter and sleeps otherwise.
Wait ==
  /\ closer = "wait"
  /\ closer' = IF Drained THEN "close" ELSE "asleep"
  /\ UNCHANGED <<keys, queues, workerVars, history>>

\* A woken Wait panics if AddEvent has reused the WaitGroup in the meantime.
Wake ==
  /\ closer = "woken"
  /\ closer' = IF Drained THEN "close" ELSE "panic"
  /\ UNCHANGED <<keys, queues, workerVars, history>>

Close ==
  /\ closer = "close"
  /\ closer' = "done"
  /\ UNCHANGED <<keys, queues, workerVars, history>>

-----------------------------------------------------------------------------
Worker(w) == Select(w) \/ Take(w) \/ HandleEvent(w) \/ Delete(w) \/ Done(w)
Closer    == GraceFullShutdown \/ PollEmpty \/ Wait \/ Wake \/ Close

Next ==
  \/ \E e \in Events : AddEvent(e)
  \/ \E w \in Workers : Worker(w)
  \/ Closer

\* The Go scheduler runs every runnable goroutine, sync.Mutex hands itself to a
\* waiter that starves, and a handler is assumed to return.  Nobody has to add
\* an event or to ask for a shutdown.
Fairness ==
  /\ \A w \in Workers : WF_vars(Worker(w))
  /\ WF_vars(PollEmpty \/ Wait \/ Wake \/ Close)

Spec == Init /\ [][Next]_vars /\ Fairness

-----------------------------------------------------------------------------
(* Properties                                                                 *)

\* Every variable has its type.
TypeOK ==
  /\ keys     \in SUBSET Repos
  /\ queues   \in [Repos -> Seq(Events)]
  /\ pc       \in [Workers -> {"none", "select", "lock", "handling", "exiting"}]
  /\ prefix   \in [Workers -> Repos]
  /\ entry    \in [Workers -> Events \cup {None}]
  /\ closer   \in {"idle", "poll", "wait", "asleep", "woken", "close", "done", "panic"}
  /\ accepted \in [Repos -> Seq(Events)]
  /\ started  \in [Repos -> Seq(Events)]
  /\ finished \in [Repos -> Nat]
  /\ before   \in [Repos -> Nat]

\* AddEvent's test for the key and ReceiveEvent's delete never let two
\* goroutines drain the same repository: two reviews of one repository would
\* rebase, approve and merge against each other.
SerialPerRepository ==
  \A v, w \in Workers : Active(v) /\ Active(w) /\ prefix[v] = prefix[w] => v = w

\* Whatever AddEvent took has been given to its handler, in the order of the
\* calls, or is still in the slice: nothing is lost, doubled or overtaken when
\* a goroutine ends and another one takes over.
InOrderNoLoss == \A r \in Repos : accepted[r] = started[r] \o queues[r]

\* Until the shutdown channel is closed a map entry always has a goroutine that
\* will look at it.  An entry without one would swallow the events of its
\* repository for good, because AddEvent starts a goroutine only for a new key.
NoStrandedQueue ==
  ~shutdown => \A r \in keys : \E w \in Workers : Active(w) /\ prefix[w] = r

\* When the shutdown channel is closed, every event accepted before
\* GraceFullShutdown was called has been handled to the end.
DrainedBeforeClose ==
  shutdown => \A r \in Repos : finished[r] >= before[r]

\* An accepted event is handled, unless the queue is shut down first or the
\* shutdown itself panics: a goroutine that leaves the loop cannot miss the
\* event AddEvent appends at that very moment.
AcceptedIsHandled ==
  \A r \in Repos : \A n \in 1..Cardinality(Events) :
    Len(accepted[r]) >= n ~> finished[r] >= n \/ shutdown \/ ~Running

\* GraceFullShutdown comes to an end once no more events arrive.
ShutdownEnds == closer = "poll" ~> shutdown \/ ~Running

\* The queue implements the abstract serial queue.
Abstract == INSTANCE SerialQueue
              WITH accepted <- accepted, started <- started, finished <- finished
ImplementsSerialQueue == Abstract!Spec
=============================================================================
