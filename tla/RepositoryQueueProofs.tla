------------------------ MODULE RepositoryQueueProofs ------------------------
(* The event queue for any number of repositories, events and goroutines: the *)
(* safety properties of RepositoryQueue and the refinement of SerialQueue.    *)
(*                                                                            *)
(* The argument.  A repository has an active goroutine at most when its key   *)
(* is in the map (OwnsKey), AddEvent starts one only when the key is absent,  *)
(* and the key leaves the map in the same critical section in which its       *)
(* goroutine leaves the loop.  Hence at most one goroutine is active per      *)
(* repository, so the event it holds is the last one taken, and when the map  *)
(* is found empty nothing is waiting and nothing is being handled.            *)
EXTENDS RepositoryQueue, SequenceTheorems, TLAPS

\* An active goroutine owns a key of the map.
OwnsKey == \A w \in Workers : Active(w) => prefix[w] \in keys

\* A repository without a key has no waiting event.
AbsentIsEmpty == \A r \in Repos : r \notin keys => queues[r] = <<>>

\* A goroutine in its handler holds the last event taken, and is the only call open.
HandlingIsLast ==
  \A w \in Workers : pc[w] = "handling" =>
    /\ Len(started[prefix[w]]) = finished[prefix[w]] + 1
    /\ entry[w] = started[prefix[w]][Len(started[prefix[w]])]

\* Without an open call everything taken has been handled.
IdleIsFinished ==
  \A r \in Repos : (\A w \in Workers : ~(pc[w] = "handling" /\ prefix[w] = r))
                     => finished[r] = Len(started[r])

\* What was accepted before the shutdown stays a prefix of what is accepted.
BeforeIsPast == \A r \in Repos : before[r] <= Len(accepted[r])

\* From the moment the map was seen empty the events accepted before are handled.
PolledIsDrained ==
  closer \in {"wait", "asleep", "woken", "close", "done"} =>
    \A r \in Repos : finished[r] >= before[r]

IInv ==
  /\ TypeOK
  /\ SerialPerRepository
  /\ OwnsKey
  /\ AbsentIsEmpty
  /\ InOrderNoLoss
  /\ NoStrandedQueue
  /\ HandlingIsLast
  /\ IdleIsFinished
  /\ BeforeIsPast
  /\ PolledIsDrained

-----------------------------------------------------------------------------
(* Sequences                                                                  *)

\* An event appended to the waiting ones is an event appended to all of them.
LEMMA AppendMovesOut ==
  ASSUME NEW s \in Seq(Events), NEW q \in Seq(Events), NEW e \in Events
  PROVE  s \o Append(q, e) = Append(s \o q, e)
<1> DEFINE lhs == Append(s \o q, e)
           rhs == s \o Append(q, e)
<1>1. /\ s \o q \in Seq(Events) /\ Append(q, e) \in Seq(Events)
      /\ lhs \in Seq(Events) /\ rhs \in Seq(Events)
  BY ConcatProperties, AppendProperties
<1>2. Len(lhs) = Len(s) + Len(q) + 1 /\ Len(rhs) = Len(s) + Len(q) + 1
  BY <1>1, ConcatProperties, AppendProperties, LenProperties
<1>3. ASSUME NEW i \in 1..Len(lhs) PROVE lhs[i] = rhs[i]
  BY <1>1, <1>2, ConcatProperties, AppendProperties, LenProperties
<1> QED BY <1>1, <1>2, <1>3, SeqEqual

\* Moving the oldest waiting event to the started ones leaves the log alone.
LEMMA TakeMovesHead ==
  ASSUME NEW S, NEW s \in Seq(S), NEW q \in Seq(S), q # <<>>
  PROVE  s \o q = Append(s, Head(q)) \o Tail(q)
<1> DEFINE lhs == s \o q
           rhs == Append(s, Head(q)) \o Tail(q)
<1>1. Head(q) \in S /\ Tail(q) \in Seq(S) /\ Len(Tail(q)) = Len(q) - 1
      /\ Len(q) \in Nat /\ Len(q) > 0
  BY HeadTailProperties, LenProperties, EmptySeq
<1>2. Append(s, Head(q)) \in Seq(S) /\ Len(Append(s, Head(q))) = Len(s) + 1
  BY <1>1, AppendProperties
<1>3. lhs \in Seq(S) /\ rhs \in Seq(S) /\ Len(lhs) = Len(rhs)
      /\ Len(lhs) = Len(s) + Len(q)
  BY <1>1, <1>2, ConcatProperties, LenProperties
<1>4. ASSUME NEW i \in 1..Len(lhs) PROVE lhs[i] = rhs[i]
  BY <1>1, <1>2, <1>3, ConcatProperties, AppendProperties, HeadTailProperties, LenProperties
<1> QED BY <1>3, <1>4, SeqEqual

\* The oldest waiting event is the first one of the log that has not started.
LEMMA HeadIsNext ==
  ASSUME NEW S, NEW s \in Seq(S), NEW q \in Seq(S), q # <<>>
  PROVE  /\ Len(s) < Len(s \o q)
         /\ (s \o q)[Len(s) + 1] = Head(q)
<1>1. Len(q) \in Nat /\ Len(q) > 0 /\ Len(s) \in Nat /\ Len(s \o q) = Len(s) + Len(q)
      /\ Head(q) = q[1]
  BY HeadTailProperties, LenProperties, EmptySeq, ConcatProperties
<1> QED BY <1>1, ConcatProperties

-----------------------------------------------------------------------------
(* Type correctness                                                           *)

LEMMA InitType == Init => TypeOK
<1> SUFFICES ASSUME Init PROVE TypeOK
  OBVIOUS
<1>1. (CHOOSE r \in Repos : TRUE) \in Repos
  BY QueueAssumption
<1> QED BY <1>1, EmptySeq DEF Init, TypeOK

LEMMA NextType == TypeOK /\ [Next]_vars => TypeOK'
<1> SUFFICES ASSUME TypeOK, [Next]_vars PROVE TypeOK'
  OBVIOUS
<1> USE DEF TypeOK
<1>1. ASSUME NEW e \in Events, AddEvent(e) PROVE TypeOK'
  <2> DEFINE r == getPrefix[e]
  <2>1. r \in Repos
    BY QueueAssumption
  <2>2. /\ Append(queues[r], e) \in Seq(Events)
        /\ Append(accepted[r], e) \in Seq(Events)
    BY <2>1, AppendProperties
  <2>3. /\ pc' \in [Workers -> {"none", "select", "lock", "handling", "exiting"}]
        /\ prefix' \in [Workers -> Repos]
    BY <1>1, <2>1 DEF AddEvent, Spawn
  <2> QED BY <1>1, <2>1, <2>2, <2>3 DEF AddEvent
<1>2. ASSUME NEW w \in Workers, Select(w) PROVE TypeOK'
  BY <1>2 DEF Select, history
<1>3. ASSUME NEW w \in Workers, Take(w) PROVE TypeOK'
  <2> DEFINE r == prefix[w]
  <2>1. /\ Head(queues[r]) \in Events
        /\ Tail(queues[r]) \in Seq(Events)
        /\ Append(started[r], Head(queues[r])) \in Seq(Events)
    BY <1>3, HeadTailProperties, AppendProperties DEF Take
  <2> QED BY <1>3, <2>1 DEF Take
<1>4. ASSUME NEW w \in Workers, HandleEvent(w) PROVE TypeOK'
  BY <1>4 DEF HandleEvent
<1>5. ASSUME NEW w \in Workers, Delete(w) PROVE TypeOK'
  BY <1>5 DEF Delete, history
<1>6. ASSUME NEW w \in Workers, Done(w) PROVE TypeOK'
  BY <1>6 DEF Done, history
<1>7. CASE GraceFullShutdown
  <2>1. \A r \in Repos : Len(accepted[r]) \in Nat
    BY LenProperties
  <2> QED BY <1>7, <2>1 DEF GraceFullShutdown, workerVars
<1>8. CASE PollEmpty \/ Wait \/ Wake \/ Close
  BY <1>8 DEF PollEmpty, Wait, Wake, Close, workerVars, history
<1>9. CASE UNCHANGED vars
  BY <1>9 DEF vars, workerVars, history
<1> QED BY <1>1, <1>2, <1>3, <1>4, <1>5, <1>6, <1>7, <1>8, <1>9
        DEF Next, Worker, Closer

\* Every variable of the queue keeps its type, for any repositories, events and
\* goroutines.
THEOREM TypeCorrect == Spec => []TypeOK
  BY InitType, NextType, PTL DEF Spec

-----------------------------------------------------------------------------
(* The inductive invariant                                                    *)

LEMMA InitInv == Init => IInv
<1> SUFFICES ASSUME Init PROVE IInv
  OBVIOUS
<1>1. TypeOK
  BY InitType
<1>2. \A r \in Repos : accepted[r] = started[r] \o queues[r]
  BY ConcatEmptySeq, EmptySeq DEF Init
<1>3. \A r \in Repos : finished[r] = Len(started[r]) /\ before[r] <= Len(accepted[r])
  BY EmptySeq DEF Init
<1> QED BY <1>1, <1>2, <1>3
        DEF Init, IInv, SerialPerRepository, OwnsKey, AbsentIsEmpty, InOrderNoLoss,
            NoStrandedQueue, HandlingIsLast, IdleIsFinished, BeforeIsPast,
            PolledIsDrained, Active

\* AddEvent starts a goroutine only for a key nobody owns.
LEMMA AddEventInv ==
  ASSUME IInv, NEW e \in Events, AddEvent(e), TypeOK'
  PROVE  IInv'
<1> DEFINE r == getPrefix[e]
<1> USE DEF TypeOK, Active
<1>1. /\ r \in Repos
      /\ keys' = keys \cup {r}
      /\ queues' = [queues EXCEPT ![r] = Append(@, e)]
      /\ accepted' = [accepted EXCEPT ![r] = Append(@, e)]
      /\ UNCHANGED <<entry, closer, started, finished, before>>
  BY QueueAssumption DEF AddEvent
<1>2. \/ r \in keys /\ UNCHANGED <<pc, prefix>>
      \/ /\ r \notin keys
         /\ \E w \in Workers : /\ pc[w] = "none"
                               /\ pc' = [pc EXCEPT ![w] = "select"]
                               /\ prefix' = [prefix EXCEPT ![w] = r]
  BY DEF AddEvent, Spawn, Live
<1>3. \A w \in Workers : pc'[w] = "handling" <=> pc[w] = "handling"
  BY <1>2 DEF IInv
<1>4. \A w \in Workers : pc'[w] = "handling" => prefix'[w] = prefix[w]
  BY <1>2 DEF IInv
<1>5. (SerialPerRepository /\ OwnsKey /\ NoStrandedQueue)'
  <2>1. CASE r \in keys /\ UNCHANGED <<pc, prefix>>
    BY <1>1, <2>1 DEF IInv, SerialPerRepository, OwnsKey, NoStrandedQueue, shutdown
  <2>2. ASSUME r \notin keys, NEW w \in Workers, pc[w] = "none",
               pc' = [pc EXCEPT ![w] = "select"], prefix' = [prefix EXCEPT ![w] = r]
        PROVE  (SerialPerRepository /\ OwnsKey /\ NoStrandedQueue)'
    <3>1. /\ pc'[w] = "select" /\ prefix'[w] = r
          /\ \A v \in Workers \ {w} : pc'[v] = pc[v] /\ prefix'[v] = prefix[v]
      BY <2>2 DEF IInv
    <3>2. \A v \in Workers : Active(v) => prefix[v] # r /\ v # w
      BY <2>2 DEF IInv, OwnsKey
    <3>3. SerialPerRepository'
      <4>1. ASSUME NEW u \in Workers, NEW v \in Workers, Active(u)', Active(v)',
                   prefix'[u] = prefix'[v]
            PROVE  u = v
        <5>1. CASE u = w \/ v = w
          BY <3>1, <3>2, <4>1, <5>1
        <5>2. CASE u # w /\ v # w
          BY <3>1, <4>1, <5>2 DEF IInv, SerialPerRepository
        <5> QED BY <5>1, <5>2
      <4> QED BY <4>1 DEF SerialPerRepository
    <3>4. OwnsKey'
      BY <1>1, <3>1 DEF IInv, OwnsKey
    <3>5. NoStrandedQueue'
      BY <1>1, <3>1, <3>2 DEF IInv, NoStrandedQueue, shutdown
    <3> QED BY <3>3, <3>4, <3>5
  <2> QED BY <1>2, <2>1, <2>2
<1>6. AbsentIsEmpty'
  BY <1>1 DEF IInv, AbsentIsEmpty
<1>7. /\ InOrderNoLoss'
      /\ Len(accepted'[r]) = Len(accepted[r]) + 1
  <2>1. /\ started[r] \in Seq(Events) /\ queues[r] \in Seq(Events)
        /\ accepted[r] \in Seq(Events)
    BY <1>1 DEF IInv
  <2>2. started[r] \o Append(queues[r], e) = Append(started[r] \o queues[r], e)
    BY <2>1, AppendMovesOut
  <2>3. Len(Append(accepted[r], e)) = Len(accepted[r]) + 1
    BY <2>1, AppendProperties
  <2> QED BY <1>1, <2>2, <2>3 DEF IInv, InOrderNoLoss
<1>8. HandlingIsLast'
  BY <1>1, <1>3, <1>4 DEF IInv, HandlingIsLast
<1>9. IdleIsFinished'
  BY <1>1, <1>3, <1>4 DEF IInv, IdleIsFinished
<1>10. BeforeIsPast'
  <2>1. \A q \in Repos : Len(accepted[q]) \in Nat
    BY LenProperties DEF IInv
  <2> QED BY <1>1, <1>7, <2>1 DEF IInv, BeforeIsPast
<1>11. PolledIsDrained'
  BY <1>1 DEF IInv, PolledIsDrained
<1> QED BY <1>5, <1>6, <1>7, <1>8, <1>9, <1>10, <1>11 DEF IInv

\* Take moves one event from the slice to the open call of its only goroutine.
LEMMA TakeInv ==
  ASSUME IInv, NEW w \in Workers, Take(w), TypeOK'
  PROVE  IInv'
<1> DEFINE r == prefix[w]
           h == Head(queues[r])
<1> USE DEF TypeOK, Active
<1>1. /\ pc[w] = "lock" /\ queues[r] # <<>> /\ r \in Repos
      /\ entry'   = [entry EXCEPT ![w] = h]
      /\ queues'  = [queues EXCEPT ![r] = Tail(@)]
      /\ started' = [started EXCEPT ![r] = Append(@, h)]
      /\ pc'      = [pc EXCEPT ![w] = "handling"]
      /\ UNCHANGED <<keys, prefix, closer, accepted, finished, before>>
  BY DEF Take, IInv
<1>2. /\ h \in Events
      /\ Append(started[r], h) \in Seq(Events)
      /\ Len(Append(started[r], h)) = Len(started[r]) + 1
      /\ Append(started[r], h)[Len(started[r]) + 1] = h
      /\ Len(started[r]) \in Nat
  BY <1>1, HeadTailProperties, AppendProperties, LenProperties DEF IInv
<1>3. \A v \in Workers : pc'[v] = IF v = w THEN "handling" ELSE pc[v]
  BY <1>1 DEF IInv
<1>4. \A v \in Workers : Active(v)' <=> Active(v)
  BY <1>1, <1>3
<1>5. (SerialPerRepository /\ OwnsKey /\ NoStrandedQueue)'
  BY <1>1, <1>4 DEF IInv, SerialPerRepository, OwnsKey, NoStrandedQueue, shutdown
<1>6. AbsentIsEmpty'
  BY <1>1 DEF IInv, AbsentIsEmpty, OwnsKey
<1>7. InOrderNoLoss'
  <2>1. started[r] \o queues[r] = Append(started[r], h) \o Tail(queues[r])
    BY <1>1, TakeMovesHead DEF IInv
  <2> QED BY <1>1, <2>1 DEF IInv, InOrderNoLoss
<1>8. \A v \in Workers : pc[v] = "handling" => prefix[v] # r
  BY <1>1 DEF IInv, SerialPerRepository
<1>9. finished[r] = Len(started[r])
  BY <1>1, <1>8 DEF IInv, IdleIsFinished
<1>10. HandlingIsLast'
  <2>1. ASSUME NEW v \in Workers, pc'[v] = "handling", v # w
        PROVE  started'[prefix[v]] = started[prefix[v]] /\ entry'[v] = entry[v]
               /\ pc[v] = "handling"
    BY <1>1, <1>3, <1>8, <2>1 DEF IInv
  <2>2. /\ started'[r] = Append(started[r], h) /\ entry'[w] = h /\ finished[r] \in Nat
    BY <1>1 DEF IInv
  <2> QED BY <1>1, <1>2, <1>9, <2>1, <2>2 DEF IInv, HandlingIsLast
<1>11. IdleIsFinished'
  BY <1>1, <1>3 DEF IInv, IdleIsFinished
<1>12. BeforeIsPast' /\ PolledIsDrained'
  BY <1>1 DEF IInv, BeforeIsPast, PolledIsDrained
<1> QED BY <1>5, <1>6, <1>7, <1>10, <1>11, <1>12 DEF IInv

\* HandleEvent closes the open call of its repository.
LEMMA HandleEventInv ==
  ASSUME IInv, NEW w \in Workers, HandleEvent(w), TypeOK'
  PROVE  IInv'
<1> DEFINE r == prefix[w]
<1> USE DEF TypeOK, Active
<1>1. /\ pc[w] = "handling" /\ r \in Repos
      /\ entry'    = [entry EXCEPT ![w] = None]
      /\ finished' = [finished EXCEPT ![r] = @ + 1]
      /\ pc'       = [pc EXCEPT ![w] = "select"]
      /\ UNCHANGED <<keys, queues, prefix, closer, accepted, started, before>>
  BY DEF HandleEvent, IInv
<1>2. \A v \in Workers : pc'[v] = IF v = w THEN "select" ELSE pc[v]
  BY <1>1 DEF IInv
<1>3. \A v \in Workers : Active(v)' <=> Active(v)
  BY <1>1, <1>2
<1>4. (SerialPerRepository /\ OwnsKey /\ NoStrandedQueue)'
  BY <1>1, <1>3 DEF IInv, SerialPerRepository, OwnsKey, NoStrandedQueue, shutdown
<1>5. (AbsentIsEmpty /\ InOrderNoLoss /\ BeforeIsPast)'
  BY <1>1 DEF IInv, AbsentIsEmpty, InOrderNoLoss, BeforeIsPast
<1>6. \A v \in Workers : pc'[v] = "handling" => prefix[v] # r /\ v # w
  BY <1>1, <1>2 DEF IInv, SerialPerRepository
<1>7. HandlingIsLast'
  BY <1>1, <1>2, <1>6 DEF IInv, HandlingIsLast
<1>8. finished'[r] = Len(started[r])
  BY <1>1 DEF IInv, HandlingIsLast
<1>9. IdleIsFinished'
  BY <1>1, <1>2, <1>8 DEF IInv, IdleIsFinished
<1>10. PolledIsDrained'
  BY <1>1 DEF IInv, PolledIsDrained
<1> QED BY <1>4, <1>5, <1>7, <1>9, <1>10 DEF IInv

\* Select moves its goroutine; it leaves the loop only when the channel is closed.
LEMMA SelectInv ==
  ASSUME IInv, NEW w \in Workers, Select(w), TypeOK'
  PROVE  IInv'
<1> USE DEF TypeOK, Active
<1>1. /\ pc[w] = "select"
      /\ pc' = [pc EXCEPT ![w] = IF shutdown THEN "exiting" ELSE "lock"]
      /\ UNCHANGED <<keys, queues, prefix, entry, closer, accepted, started, finished, before>>
  BY DEF Select, history
<1>2. \A v \in Workers : /\ Active(v)' => Active(v)
                        /\ ~shutdown => (Active(v)' <=> Active(v))
                        /\ pc'[v] = "handling" <=> pc[v] = "handling"
  BY <1>1 DEF IInv
<1>3. (SerialPerRepository /\ OwnsKey /\ NoStrandedQueue)'
  BY <1>1, <1>2 DEF IInv, SerialPerRepository, OwnsKey, NoStrandedQueue, shutdown
<1>4. (AbsentIsEmpty /\ InOrderNoLoss /\ BeforeIsPast /\ PolledIsDrained)'
  BY <1>1 DEF IInv, AbsentIsEmpty, InOrderNoLoss, BeforeIsPast, PolledIsDrained
<1>5. HandlingIsLast' /\ IdleIsFinished'
  BY <1>1, <1>2 DEF IInv, HandlingIsLast, IdleIsFinished
<1> QED BY <1>3, <1>4, <1>5 DEF IInv

\* Delete takes the key away together with the only goroutine that owns it.
LEMMA DeleteInv ==
  ASSUME IInv, NEW w \in Workers, Delete(w), TypeOK'
  PROVE  IInv'
<1> DEFINE r == prefix[w]
<1> USE DEF TypeOK, Active
<1>1. /\ pc[w] = "lock" /\ queues[r] = <<>> /\ r \in Repos
      /\ keys' = keys \ {r}
      /\ pc' = [pc EXCEPT ![w] = "exiting"]
      /\ UNCHANGED <<queues, prefix, entry, closer, accepted, started, finished, before>>
  BY DEF Delete, history, IInv
<1>2. \A v \in Workers : /\ Active(v)' <=> Active(v) /\ v # w
                        /\ pc'[v] = "handling" <=> pc[v] = "handling"
  BY <1>1 DEF IInv
<1>3. \A v \in Workers : Active(v)' => prefix[v] # r
  BY <1>1, <1>2 DEF IInv, SerialPerRepository
<1>4. SerialPerRepository' /\ OwnsKey'
  BY <1>1, <1>2, <1>3 DEF IInv, SerialPerRepository, OwnsKey
<1>5. NoStrandedQueue'
  BY <1>1, <1>2 DEF IInv, NoStrandedQueue, shutdown
<1>6. (AbsentIsEmpty /\ InOrderNoLoss /\ BeforeIsPast /\ PolledIsDrained)'
  BY <1>1 DEF IInv, AbsentIsEmpty, InOrderNoLoss, BeforeIsPast, PolledIsDrained
<1>7. HandlingIsLast' /\ IdleIsFinished'
  BY <1>1, <1>2 DEF IInv, HandlingIsLast, IdleIsFinished
<1> QED BY <1>4, <1>5, <1>6, <1>7 DEF IInv

\* Done changes nothing but the WaitGroup and a closer that sleeps on it.
LEMMA DoneInv ==
  ASSUME IInv, NEW w \in Workers, Done(w), TypeOK'
  PROVE  IInv'
<1> USE DEF TypeOK, Active
<1>1. /\ pc[w] = "exiting"
      /\ pc' = [pc EXCEPT ![w] = "none"]
      /\ UNCHANGED <<keys, queues, prefix, entry, accepted, started, finished, before>>
  BY DEF Done, history
<1> DEFINE last == closer = "asleep" /\ \A v \in Workers \ {w} : ~Live(v)
<1>2. closer' = IF last THEN "woken" ELSE closer
  BY DEF Done
<1> HIDE DEF last
<1>3. closer' = closer \/ (closer = "asleep" /\ closer' = "woken")
  BY <1>2 DEF last
<1>4. \A v \in Workers : /\ Active(v)' <=> Active(v)
                        /\ pc'[v] = "handling" <=> pc[v] = "handling"
  BY <1>1 DEF IInv
<1>5. SerialPerRepository' /\ OwnsKey'
  BY <1>1, <1>4 DEF IInv, SerialPerRepository, OwnsKey
<1>6. NoStrandedQueue'
  <2>1. ~shutdown' => ~shutdown
    BY <1>3 DEF shutdown
  <2>2. ~shutdown => \A r \in keys : \E v \in Workers : Active(v) /\ prefix[v] = r
    BY DEF IInv, NoStrandedQueue
  <2>3. ~shutdown => \A r \in keys' : \E v \in Workers : Active(v)' /\ prefix'[v] = r
    BY <1>1, <1>4, <2>2
  <2> QED BY <2>1, <2>3 DEF NoStrandedQueue
<1>7. (AbsentIsEmpty /\ InOrderNoLoss /\ BeforeIsPast /\ PolledIsDrained)'
  BY <1>1, <1>3 DEF IInv, AbsentIsEmpty, InOrderNoLoss, BeforeIsPast, PolledIsDrained
<1>8. HandlingIsLast' /\ IdleIsFinished'
  BY <1>1, <1>4 DEF IInv, HandlingIsLast, IdleIsFinished
<1> QED BY <1>5, <1>6, <1>7, <1>8 DEF IInv

\* An empty map means that nothing waits and that no call is open.
LEMMA EmptyMapIsDrained ==
  ASSUME IInv, keys = {}
  PROVE  \A r \in Repos : finished[r] >= before[r]
<1> SUFFICES ASSUME NEW r \in Repos PROVE finished[r] >= before[r]
  OBVIOUS
<1>1. finished[r] = Len(started[r])
  BY DEF IInv, OwnsKey, Active, IdleIsFinished
<1>2. accepted[r] = started[r]
  <2>1. queues[r] = <<>> /\ started[r] \in Seq(Events)
    BY DEF IInv, AbsentIsEmpty, TypeOK
  <2> QED BY <2>1, ConcatEmptySeq DEF IInv, InOrderNoLoss
<1>3. before[r] <= Len(accepted[r])
  BY DEF IInv, BeforeIsPast
<1> QED BY <1>1, <1>2, <1>3 DEF IInv, TypeOK

LEMMA CloserInv ==
  ASSUME IInv, Closer, TypeOK'
  PROVE  IInv'
<1> USE DEF TypeOK, Active
<1>1. UNCHANGED <<keys, queues, pc, prefix, entry, accepted, started, finished>>
  BY DEF Closer, GraceFullShutdown, PollEmpty, Wait, Wake, Close, workerVars, history
<1>2. (SerialPerRepository /\ OwnsKey /\ AbsentIsEmpty /\ InOrderNoLoss)'
  BY <1>1 DEF IInv, SerialPerRepository, OwnsKey, AbsentIsEmpty, InOrderNoLoss
<1>3. (HandlingIsLast /\ IdleIsFinished)'
  BY <1>1 DEF IInv, HandlingIsLast, IdleIsFinished
<1>4. NoStrandedQueue'
  <2>1. shutdown => shutdown'
    BY DEF Closer, GraceFullShutdown, PollEmpty, Wait, Wake, Close, shutdown
  <2> QED BY <1>1, <2>1 DEF IInv, NoStrandedQueue
<1>5. BeforeIsPast'
  <2>1. CASE GraceFullShutdown
    <3>1. \A r \in Repos : Len(accepted[r]) \in Nat
      BY LenProperties DEF IInv
    <3> QED BY <2>1, <3>1, <1>1 DEF GraceFullShutdown, BeforeIsPast
  <2>2. CASE PollEmpty \/ Wait \/ Wake \/ Close
    BY <2>2, <1>1 DEF PollEmpty, Wait, Wake, Close, IInv, BeforeIsPast, history
  <2> QED BY <2>1, <2>2 DEF Closer
<1>6. PolledIsDrained'
  <2>1. CASE GraceFullShutdown
    BY <2>1 DEF GraceFullShutdown, PolledIsDrained
  <2>2. CASE PollEmpty
    BY <2>2, <1>1, EmptyMapIsDrained DEF PollEmpty, PolledIsDrained, history
  <2>3. CASE Wait \/ Wake \/ Close
    BY <2>3, <1>1 DEF Wait, Wake, Close, IInv, PolledIsDrained, history
  <2> QED BY <2>1, <2>2, <2>3 DEF Closer
<1> QED BY <1>2, <1>3, <1>4, <1>5, <1>6 DEF IInv

LEMMA NextInv == IInv /\ [Next]_vars => IInv'
<1> SUFFICES ASSUME IInv, [Next]_vars PROVE IInv'
  OBVIOUS
<1>1. TypeOK'
  BY NextType DEF IInv
<1>2. CASE UNCHANGED vars
  BY <1>2 DEF vars, workerVars, history, IInv, TypeOK, SerialPerRepository, OwnsKey,
     AbsentIsEmpty, InOrderNoLoss, NoStrandedQueue, HandlingIsLast, IdleIsFinished,
     BeforeIsPast, PolledIsDrained, Active, shutdown
<1> QED BY <1>1, <1>2, AddEventInv, TakeInv, HandleEventInv, SelectInv, DeleteInv,
        DoneInv, CloserInv DEF Next, Worker

LEMMA Invariance == Spec => []IInv
  BY InitInv, NextInv, PTL DEF Spec

-----------------------------------------------------------------------------
(* The safety properties                                                      *)

\* Two goroutines never drain the same repository, for any number of
\* repositories, events and goroutines.
THEOREM Serial == Spec => []SerialPerRepository
  BY Invariance, PTL DEF IInv

\* What AddEvent took was handled in its order or still waits in it.
THEOREM InOrder == Spec => []InOrderNoLoss
  BY Invariance, PTL DEF IInv

\* Until the shutdown channel is closed no map entry is without its goroutine.
THEOREM NoStranded == Spec => []NoStrandedQueue
  BY Invariance, PTL DEF IInv

\* The channel is closed only after all the events accepted before
\* GraceFullShutdown have been handled.
THEOREM Drain == Spec => []DrainedBeforeClose
<1>1. IInv => DrainedBeforeClose
  BY DEF IInv, PolledIsDrained, DrainedBeforeClose, shutdown
<1> QED BY <1>1, Invariance, PTL

-----------------------------------------------------------------------------
(* Refinement                                                                 *)

LEMMA InitRefines == Init => Abstract!Init
  BY DEF Init, Abstract!Init

\* AddEvent is Submit, Take is Begin, HandleEvent is End, and the rest stutters.
LEMMA StepRefines == IInv /\ [Next]_vars => [Abstract!Next]_Abstract!vars
<1> SUFFICES ASSUME IInv, [Next]_vars PROVE [Abstract!Next]_Abstract!vars
  OBVIOUS
<1>1. ASSUME NEW e \in Events, AddEvent(e) PROVE Abstract!Submit(e)
  BY <1>1 DEF AddEvent, Abstract!Submit
<1>2. ASSUME NEW w \in Workers, Take(w) PROVE Abstract!Begin(prefix[w])
  <2> DEFINE r == prefix[w]
  <2>1. /\ r \in Repos /\ queues[r] # <<>>
        /\ queues[r] \in Seq(Events) /\ started[r] \in Seq(Events)
        /\ started \in [Repos -> Seq(Events)]
        /\ accepted[r] = started[r] \o queues[r]
    BY <1>2 DEF Take, IInv, TypeOK, InOrderNoLoss
  <2>2. /\ Len(started[r]) < Len(accepted[r])
        /\ accepted[r][Len(started[r]) + 1] = Head(queues[r])
    BY <2>1, HeadIsNext
  <2>3. finished[r] = Len(started[r])
    BY <1>2, <2>1 DEF Take, IInv, SerialPerRepository, IdleIsFinished, Active
  <2> QED BY <1>2, <2>1, <2>2, <2>3 DEF Take, Abstract!Begin
<1>3. ASSUME NEW w \in Workers, HandleEvent(w) PROVE Abstract!End(prefix[w])
  BY <1>3 DEF HandleEvent, Abstract!End, IInv, TypeOK, HandlingIsLast
<1>4. ASSUME NEW w \in Workers, Select(w) \/ Delete(w) \/ Done(w)
      PROVE  UNCHANGED Abstract!vars
  BY <1>4 DEF Select, Delete, Done, history, Abstract!vars
<1>5. CASE Closer \/ UNCHANGED vars
  BY <1>5 DEF Closer, GraceFullShutdown, PollEmpty, Wait, Wake, Close, vars, history,
     Abstract!vars
<1>6. \A w \in Workers : prefix[w] \in Repos
  BY DEF IInv, TypeOK
<1> QED BY <1>1, <1>2, <1>3, <1>4, <1>5, <1>6 DEF Next, Worker, Abstract!Next

\* The goroutines, the map and the lock implement the serial queue the rest of
\* dunebot relies on.
THEOREM Refinement == Spec => ImplementsSerialQueue
  BY InitRefines, StepRefines, Invariance, PTL DEF Spec, Abstract!Spec, ImplementsSerialQueue
=============================================================================
