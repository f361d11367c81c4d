----------------------------- MODULE ChecksProofs -----------------------------
(* What holds of the waits of the GitHub client for any workflows, any number *)
(* of runs, and any Retry.                                                    *)
EXTENDS Checks, FiniteSetTheorems, TLAPS

-----------------------------------------------------------------------------
(* The values of Retry                                                        *)

LEMMA CallValues ==
  ASSUME NEW c \in Calls
  PROVE  /\ c.kind \in Kinds
         /\ Normal(c.retry).attempts \in 0..MaxInt32
         /\ Normal(c.retry).wait \in Nat
         /\ Normal(c.retry).pause \in Nat
         /\ c.baseline \in (SUBSET Workflows) \cup {None}
         /\ c.required \subseteq Workflows \cup Contexts
<1>1. /\ c \in [kind : Kinds, retry : Retries, required : SUBSET (Workflows \cup Contexts),
                baseline : (SUBSET Workflows) \cup {None}]
      /\ c.retry.attempts <= MaxInt32
      /\ MaxInt32 \in Nat
  BY ChecksAssumption
<1>2. /\ c.retry.attempts \in Int
      /\ c.retry.wait \in Int
      /\ c.retry.pause \in Int
  BY <1>1 DEF Retries
<1>. QED
  BY <1>1, <1>2 DEF Normal, DefaultWait, DefaultPause

\* The literal Retry of AllWorkflowsPassed.
LEMMA WorkflowRetryValues ==
  /\ WorkflowRetry("status").attempts = 6
  /\ WorkflowRetry("status").pause = 1
  /\ \A k \in {"rebase", "push", "pull_request"} :
       WorkflowRetry(k).attempts = 5 /\ WorkflowRetry(k).pause = 3
  /\ \A k \in Kinds : /\ Normal(WorkflowRetry(k)).attempts = WorkflowRetry(k).attempts
                      /\ Normal(WorkflowRetry(k)).wait = 30
  /\ QueueTime("rebase") = 0 /\ QueueTime("status") = 6
  /\ \A k \in {"push", "pull_request"} : QueueTime(k) = 15
  BY DEF WorkflowRetry, Normal, DefaultWait, QueueTime, Kinds

LEMMA LimitValue ==
  ASSUME NEW c \in Calls
  PROVE  /\ QueueTime(c.kind) \in 0..15
         /\ Limit(c) \in Nat
         /\ Limit(c) = Normal(c.retry).wait + Normal(c.retry).pause + QueueTime(c.kind)
<1>1. QueueTime(c.kind) \in 0..15
  BY CallValues, WorkflowRetryValues DEF Kinds
<1>. QED
  BY <1>1, CallValues DEF Limit

\* One more pause for one more attempt, at most.
LEMMA PauseMore ==
  ASSUME NEW a \in Nat, NEW b \in Nat, NEW p \in Nat, b <= a + 1
  PROVE  b * p <= a * p + p
<1>1. (a + 1) * p = a * p + p
  OBVIOUS
<1>. DEFINE d == (a + 1) - b
<1>2. d \in Nat /\ a + 1 = b + d
  OBVIOUS
<1>. HIDE DEF d
<1>3. (b + d) * p = b * p + d * p
  BY <1>2
<1>4. d * p \in Nat /\ b * p \in Nat /\ a * p \in Nat
  BY <1>2
<1>. QED
  BY <1>1, <1>2, <1>3, <1>4

LEMMA SleepValue ==
  ASSUME NEW e \in Nat, NEW d \in Nat, NEW l \in Nat, e <= l + 1
  PROVE  /\ Least(e + d, l + 1) \in 0..(l + 1)
         /\ Least(e + d, l + 1) <= e + d
         /\ Least(e + d, l + 1) = e + d \/ Least(e + d, l + 1) = l + 1
  BY DEF Least

-----------------------------------------------------------------------------
(* The invariant                                                              *)

\* Every attempt slept its pause, unless the clock has stopped.
Slept == \/ elapsed >= attempts * Retry.pause
         \/ elapsed = Limit(call) + 1

\* The clock of AllWorkflowsPassed: its tries slept their pauses, too.
OwnClock ==
  /\ tries <= WorkflowRetry(call.kind).attempts
  /\ waited = tries * WorkflowRetry(call.kind).pause
  /\ pc = "turn" \/ call.kind = "rebase" => tries = 0

\* Only a turn that found an unfinished check goes on when the time is up.
OnTime == held \/ elapsed <= Retry.wait + Retry.pause + waited

OnlyStatus == /\ pc = "statuses" => call.kind = "status"
              /\ held => call.kind = "status"
              /\ pc \in {"runs", "statuses"} => call.kind # "rebase"

\* WaitForStatusChecks reads the statuses only after the workflows were there
\* or did not come in time.
Counted == pc = "statuses" =>
             expected = None \/ AllQueued \/ waited >= QueueTime(call.kind)

IInv == /\ TypeOK
        /\ Slept
        /\ OwnClock
        /\ OnTime
        /\ OnlyStatus
        /\ Counted
        /\ GivesUpInTime

LEMMA InitInv == Init => IInv
<1>. SUFFICES ASSUME Init PROVE IInv
  OBVIOUS
<1>1. call \in Calls
  BY DEF Init
<1>2. TypeOK
  <2>1. 0 \in 0..Limit(call) + 1 /\ 0 \in 0..MaxInt32
    BY <1>1, LimitValue, ChecksAssumption
  <2>2. /\ runs \in [Workflows -> Seq({"running"} \cup Conclusions)]
        /\ contexts \in [Contexts -> {"none", "pending", "success", "failure"}]
    BY DEF Init
  <2>3. /\ pc \in {"turn", "runs", "statuses", "end"}
        /\ elapsed \in 0..Limit(call) + 1 /\ attempts \in 0..MaxInt32
        /\ waited \in 0..15 /\ tries \in 0..6
    BY <2>1 DEF Init
  <2>4. /\ expected \in (SUBSET Workflows) \cup {None}
        /\ held \in BOOLEAN
        /\ outcome \in {"none", "passed", "failed", "exceeded", "error", "panic"}
    BY DEF Init
  <2>. QED
    BY <1>1, <2>2, <2>3, <2>4 DEF TypeOK
<1>3. Slept /\ OnTime
  <2>1. Retry.pause \in Nat /\ Retry.wait \in Nat
    BY <1>1, CallValues DEF Retry
  <2>2. 0 * Retry.pause = 0
    BY <2>1
  <2>. QED
    BY <2>1, <2>2 DEF Init, Slept, OnTime
<1>5. OnlyStatus /\ Counted /\ GivesUpInTime
  BY DEF Init, OnlyStatus, Counted, GivesUpInTime
<1>4. OwnClock
  BY <1>1, CallValues, WorkflowRetryValues DEF Init, OwnClock, Kinds
<1>. QED
  BY <1>2, <1>3, <1>4, <1>5 DEF IInv

-----------------------------------------------------------------------------
(* The ends of a turn                                                         *)

\* Whatever a call returns, except that it gives up.
LEMMA EndInv ==
  ASSUME IInv, NEW how \in {"passed", "failed", "exceeded", "error", "panic"}, End(how),
         how = "exceeded" => RetryExceeded
  PROVE  IInv'
<1>. /\ call' = call /\ runs' = runs /\ contexts' = contexts /\ elapsed' = elapsed
     /\ attempts' = attempts /\ expected' = expected /\ waited' = waited
     /\ tries' = tries /\ held' = held /\ pc' = "end" /\ outcome' = how
  BY DEF End, ci
<1>1. TypeOK'
  BY DEF IInv, TypeOK
<1>2. Slept' /\ OnTime'
  BY DEF IInv, Slept, OnTime, Retry
<1>3. OwnClock' /\ OnlyStatus' /\ Counted'
  BY DEF IInv, OwnClock, OnlyStatus, Counted
<1>4. GivesUpInTime'
  <2>. SUFFICES ASSUME how = "exceeded"
                PROVE  elapsed > Retry.wait \/ elapsed >= Retry.attempts * Retry.pause
    BY DEF GivesUpInTime, Retry
  <2>1. CASE elapsed > Retry.wait
    BY <2>1
  <2>2. CASE attempts >= Retry.attempts
    <3>1. /\ call \in Calls /\ attempts \in 0..MaxInt32 /\ MaxInt32 \in Nat
          /\ elapsed \in 0..Limit(call) + 1
      BY ChecksAssumption DEF IInv, TypeOK
    <3>2. Retry.attempts \in Nat /\ Retry.pause \in Nat /\ Retry.wait \in Nat
      BY <3>1, CallValues DEF Retry
    <3>3. CASE elapsed = Limit(call) + 1
      BY <3>1, <3>2, <3>3, LimitValue DEF Retry
    <3>4. CASE elapsed >= attempts * Retry.pause
      <4>. DEFINE d == attempts - Retry.attempts
      <4>1. d \in Nat /\ attempts = Retry.attempts + d
        BY <2>2, <3>1, <3>2
      <4>. HIDE DEF d
      <4>2. (Retry.attempts + d) * Retry.pause = Retry.attempts * Retry.pause + d * Retry.pause
        BY <3>2, <4>1
      <4>3. d * Retry.pause \in Nat /\ Retry.attempts * Retry.pause \in Nat
        BY <3>2, <4>1
      <4>. QED
        BY <3>1, <3>4, <4>1, <4>2, <4>3
    <3>. QED
      BY <3>3, <3>4 DEF IInv, Slept
  <2>. QED
    BY <2>1, <2>2 DEF RetryExceeded
<1>. QED
  BY <1>1, <1>2, <1>3, <1>4 DEF IInv

LEMMA AgainInv ==
  ASSUME IInv, NEW unfinished \in BOOLEAN, Again(unfinished),
         outcome = "none",
         unfinished => call.kind = "status",
         unfinished \/ elapsed <= Retry.wait
  PROVE  IInv'
<1>. /\ call' = call /\ runs' = runs /\ contexts' = contexts /\ outcome' = outcome
     /\ attempts' = Least(attempts + 1, MaxInt32)
     /\ elapsed' = Least(elapsed + Retry.pause, Limit(call) + 1)
     /\ held' = unfinished /\ pc' = "turn"
     /\ expected' = None /\ waited' = 0 /\ tries' = 0
  BY DEF Again, Sleep, ci
<1>1. /\ call \in Calls /\ attempts \in 0..MaxInt32 /\ MaxInt32 \in Nat
      /\ elapsed \in 0..Limit(call) + 1
  BY ChecksAssumption DEF IInv, TypeOK
<1>2. /\ Retry.attempts \in Nat /\ Retry.pause \in Nat /\ Retry.wait \in Nat
      /\ Limit(call) \in Nat
  BY <1>1, CallValues, LimitValue DEF Retry
<1>3. /\ elapsed' \in 0..Limit(call) + 1
      /\ elapsed' <= elapsed + Retry.pause
      /\ elapsed' = elapsed + Retry.pause \/ elapsed' = Limit(call) + 1
  <2>. DEFINE e == elapsed  p == Retry.pause  l == Limit(call)
  <2>1. e \in Nat /\ p \in Nat /\ l \in Nat /\ e <= l + 1
    BY <1>1, <1>2
  <2>2. elapsed' = Least(e + p, l + 1)
    OBVIOUS
  <2>. HIDE DEF e, p, l
  <2>3. /\ elapsed' \in 0..(l + 1)
        /\ elapsed' <= e + p
        /\ elapsed' = e + p \/ elapsed' = l + 1
    BY <2>1, <2>2, SleepValue
  <2>. QED
    BY <2>3 DEF e, p, l
<1>4. attempts' \in 0..MaxInt32 /\ attempts' <= attempts + 1
  BY <1>1 DEF Least
<1>5. TypeOK'
  BY <1>3, <1>4 DEF IInv, TypeOK
<1>6. Slept'
  <2>1. attempts' * Retry.pause <= attempts * Retry.pause + Retry.pause
    BY <1>1, <1>2, <1>4, PauseMore
  <2>2. attempts * Retry.pause \in Nat /\ attempts' * Retry.pause \in Nat
    BY <1>1, <1>2, <1>4
  <2>3. Retry' = Retry /\ Limit(call)' = Limit(call)
    BY DEF Retry
  <2>4. CASE elapsed >= attempts * Retry.pause
    BY <1>1, <1>2, <1>3, <2>1, <2>2, <2>3, <2>4 DEF Slept
  <2>5. CASE elapsed = Limit(call) + 1
    <3>1. elapsed' = Limit(call) + 1
      BY <1>1, <1>2, <2>5 DEF Least
    <3>. QED
      BY <3>1, <2>3 DEF Slept
  <2>. QED
    BY <2>4, <2>5 DEF IInv, Slept
<1>7. OnTime'
  BY <1>1, <1>2, <1>3 DEF OnTime, Retry
<1>8. OwnClock'
  BY <1>1, CallValues, WorkflowRetryValues DEF OwnClock, Kinds
<1>9. OnlyStatus' /\ Counted'
  BY DEF OnlyStatus, Counted
<1>10. GivesUpInTime'
  BY DEF GivesUpInTime
<1>. QED
  BY <1>5, <1>6, <1>7, <1>8, <1>9, <1>10 DEF IInv

LEMMA GiveUpInv ==
  ASSUME IInv, GiveUpOrAgain, outcome = "none"
  PROVE  IInv'
<1>1. CASE RetryExceeded
  BY <1>1, EndInv DEF GiveUpOrAgain
<1>2. CASE ~RetryExceeded
  <2>1. elapsed <= Retry.wait
    <3>1. call \in Calls /\ elapsed \in 0..Limit(call) + 1
      BY DEF IInv, TypeOK
    <3>. QED
      BY <1>2, <3>1, CallValues, LimitValue DEF RetryExceeded, Retry
  <2>. QED
    BY <1>2, <2>1, AgainInv DEF GiveUpOrAgain
<1>. QED
  BY <1>1, <1>2
-----------------------------------------------------------------------------
(* The steps                                                                  *)

\* A call that is under way has not returned yet.
Pending == pc # "end" => outcome = "none"

LEMMA JudgeInv ==
  ASSUME IInv, outcome = "none", pc = "runs",
         expected = None \/ AllQueued \/ WorkflowsExceeded
           \/ (call.kind = "push" /\ Queued = {}),
         NEW ok \in BOOLEAN, Judge(ok)
  PROVE  IInv'
<1>1. CASE call.kind = "status"
  <2>. /\ UNCHANGED <<call, ci, elapsed, attempts, expected, waited, tries, held, outcome>>
       /\ pc' = "statuses"
    BY <1>1 DEF Judge
  <2>1. call \in Calls
    BY DEF IInv, TypeOK
  <2>2. expected = None \/ AllQueued \/ waited >= QueueTime(call.kind)
    <3>1. /\ tries \in 0..6 /\ waited \in 0..15
          /\ waited = tries * 1 /\ QueueTime(call.kind) = 6
          /\ WorkflowsExceeded <=> (waited > 30 \/ tries >= 6)
      BY <1>1, WorkflowRetryValues DEF IInv, TypeOK, OwnClock, WorkflowsExceeded, Kinds
    <3>. QED
      BY <1>1, <3>1
  <2>3. TypeOK' /\ Slept' /\ OwnClock' /\ OnTime' /\ GivesUpInTime'
    BY DEF IInv, TypeOK, Slept, OwnClock, OnTime, GivesUpInTime, Retry, ci
  <2>4. OnlyStatus' /\ Counted'
    BY <1>1, <2>2 DEF IInv, OnlyStatus, Counted, AllQueued, Queued, ci
  <2>. QED
    BY <2>3, <2>4 DEF IInv
<1>2. CASE call.kind # "status" /\ ok
  BY <1>2, EndInv DEF Judge
<1>3. CASE call.kind # "status" /\ ~ok
  BY <1>3, GiveUpInv DEF Judge
<1>. QED
  BY <1>1, <1>2, <1>3

LEMMA WaitInv ==
  ASSUME IInv, Pending, Wait
  PROVE  IInv'
<1>. /\ call \in Calls
     /\ pc # "end" => outcome = "none"
  BY DEF IInv, TypeOK, Pending
<1>1. CASE WaitForRebase
  BY <1>1, EndInv, GiveUpInv DEF WaitForRebase
<1>2. CASE ReadBaseline
  <2>1. CASE End("error")
    BY <2>1, EndInv
  <2>2. CASE ~End("error")
    <3>. /\ expected' \in {call.baseline, None} /\ waited' = 0 /\ tries' = 0
         /\ pc' = "runs" /\ pc = "turn" /\ call.kind # "rebase"
         /\ UNCHANGED <<call, ci, elapsed, attempts, held, outcome>>
      BY <1>2, <2>2 DEF ReadBaseline
    <3>1. waited = 0
      BY CallValues, WorkflowRetryValues DEF IInv, OwnClock, Kinds
    <3>2. TypeOK'
      BY CallValues DEF IInv, TypeOK, ci
    <3>3. Slept' /\ OnTime' /\ GivesUpInTime'
      BY <3>1 DEF IInv, Slept, OnTime, GivesUpInTime, Retry
    <3>4. OwnClock'
      BY CallValues, WorkflowRetryValues DEF OwnClock, Kinds
    <3>5. OnlyStatus' /\ Counted'
      BY DEF IInv, OnlyStatus, Counted
    <3>. QED
      BY <3>2, <3>3, <3>4, <3>5 DEF IInv
  <2>. QED
    BY <2>1, <2>2
<1>3. CASE CompareWithBaseline
  <2>1. CASE End("error")
    BY <2>1, EndInv
  <2>2. ASSUME NEW ok \in BOOLEAN, Judge(ok),
               \/ call.kind = "push" /\ Queued = {}
               \/ AllQueued \/ WorkflowsExceeded
        PROVE  IInv'
    BY <1>3, <2>2, JudgeInv DEF CompareWithBaseline
  <2>3. CASE /\ ~WorkflowsExceeded
             /\ tries' = tries + 1
             /\ waited' = waited + WorkflowRetry(call.kind).pause
             /\ Sleep(WorkflowRetry(call.kind).pause)
             /\ UNCHANGED <<call, ci, pc, attempts, expected, held, outcome>>
    <3>. DEFINE a == WorkflowRetry(call.kind).attempts  p == WorkflowRetry(call.kind).pause
    <3>1. /\ call.kind # "rebase" /\ pc = "runs"
          /\ a \in 0..6 /\ p \in {1, 3} /\ a * p <= 15
          /\ p = 1 => a <= 6
          /\ p = 3 => a <= 5
      BY <1>3, CallValues, WorkflowRetryValues DEF CompareWithBaseline, IInv, OnlyStatus, Kinds
    <3>2. tries < a
      BY <2>3, <3>1, CallValues, WorkflowRetryValues DEF WorkflowsExceeded, IInv, TypeOK
    <3>3. tries \in 0..6 /\ waited = tries * p /\ waited \in 0..15
      BY DEF IInv, TypeOK, OwnClock
    <3>4. tries' = tries + 1 /\ waited' = waited + p
      BY <2>3
    <3>5. elapsed' = Least(elapsed + p, Limit(call) + 1)
      BY <2>3 DEF Sleep
    <3>6. elapsed \in 0..Limit(call) + 1 /\ Limit(call) \in Nat
      BY LimitValue DEF IInv, TypeOK
    <3>. HIDE DEF a, p
    <3>7. tries' <= a /\ tries' \in 0..6 /\ waited' = tries' * p /\ waited' \in 0..15
      <4>1. CASE p = 1
        BY <3>1, <3>2, <3>3, <3>4, <4>1
      <4>2. CASE p = 3
        BY <3>1, <3>2, <3>3, <3>4, <4>2
      <4>. QED
        BY <3>1, <4>1, <4>2
    <3>8. /\ elapsed' \in 0..Limit(call) + 1
          /\ elapsed <= elapsed' /\ elapsed' <= elapsed + p
          /\ elapsed = Limit(call) + 1 => elapsed' = elapsed
      BY <3>1, <3>5, <3>6 DEF Least
    <3>9. TypeOK'
      BY <2>3, <3>7, <3>8 DEF IInv, TypeOK, ci
    <3>10. OwnClock'
      BY <2>3, <3>1, <3>7 DEF OwnClock, a, p
    <3>11. OnTime'
      <4>1. Retry.wait \in Nat /\ Retry.pause \in Nat
        BY CallValues DEF Retry
      <4>. QED
        BY <2>3, <3>1, <3>3, <3>4, <3>6, <3>8, <4>1 DEF IInv, OnTime, Retry
    <3>12. Slept'
      <4>1. Retry.pause \in Nat /\ attempts \in Nat
        BY CallValues, ChecksAssumption DEF IInv, TypeOK, Retry
      <4>2. attempts * Retry.pause \in Nat
        BY <4>1
      <4>3. /\ attempts' * Retry'.pause = attempts * Retry.pause
            /\ Limit(call)' = Limit(call)
        BY <2>3 DEF Retry
      <4>. QED
        BY <3>6, <3>8, <4>2, <4>3 DEF IInv, Slept
    <3>13. GivesUpInTime'
      BY <2>3, <3>1 DEF GivesUpInTime
    <3>14. OnlyStatus' /\ Counted'
      BY <2>3, <3>1 DEF IInv, OnlyStatus, Counted
    <3>. QED
      BY <3>9, <3>10, <3>11, <3>12, <3>13, <3>14 DEF IInv
  <2>. QED
    BY <1>3, <2>1, <2>2, <2>3 DEF CompareWithBaseline
<1>4. CASE ListWorkflowRuns
  <2>1. CASE End("error") \/ End("failed")
    BY <2>1, EndInv
  <2>2. ASSUME NEW ok \in BOOLEAN, Judge(ok)
        PROVE  IInv'
    BY <1>4, <2>2, JudgeInv DEF ListWorkflowRuns
  <2>. QED
    BY <1>4, <2>1, <2>2 DEF ListWorkflowRuns
<1>5. CASE CheckStatuses
  <2>1. call.kind = "status"
    BY <1>5 DEF CheckStatuses, IInv, OnlyStatus
  <2>2. CASE End("panic") \/ End("failed") \/ End("passed")
    BY <2>2, EndInv
  <2>3. CASE Again(TRUE)
    BY <1>5, <2>1, <2>3, AgainInv DEF CheckStatuses
  <2>4. CASE GiveUpOrAgain
    BY <1>5, <2>4, GiveUpInv DEF CheckStatuses
  <2>. QED
    BY <1>5, <2>2, <2>3, <2>4 DEF CheckStatuses
<1>. QED
  BY <1>1, <1>2, <1>3, <1>4, <1>5 DEF Wait

-----------------------------------------------------------------------------
(* What the CI does meanwhile                                                 *)

\* More workflows run, never fewer.
LEMMA QueuedGrows ==
  ASSUME TypeOK,
         \/ \E w \in Workflows : Queue(w) \/ Conclude(w)
         \/ \E c \in Contexts : Report(c)
  PROVE  /\ Queued \subseteq Queued'
         /\ runs' \in [Workflows -> Seq({"running"} \cup Conclusions)]
         /\ contexts' \in [Contexts -> {"none", "pending", "success", "failure"}]
         /\ UNCHANGED own
<1>. runs \in [Workflows -> Seq({"running"} \cup Conclusions)]
  BY DEF TypeOK
<1>1. CASE \E w \in Workflows : Queue(w)
  <2>1. PICK w \in Workflows : Queue(w)
    BY <1>1
  <2>2. /\ runs' = [runs EXCEPT ![w] = Append(runs[w], "running")]
        /\ contexts' = contexts /\ UNCHANGED own
    BY <2>1 DEF Queue
  <2>3. Append(runs[w], "running") \in Seq({"running"} \cup Conclusions)
        /\ Append(runs[w], "running") # <<>>
    BY <2>1
  <2>. QED
    BY <2>2, <2>3 DEF Queued, TypeOK
<1>2. CASE \E w \in Workflows : Conclude(w)
  <2>1. PICK w \in Workflows : Conclude(w)
    BY <1>2
  <2>2. PICK i \in DOMAIN runs[w], c \in Conclusions :
          /\ runs' = [runs EXCEPT ![w] = [runs[w] EXCEPT ![i] = c]]
          /\ contexts' = contexts /\ UNCHANGED own
    BY <2>1 DEF Conclude
  <2>3. /\ [runs[w] EXCEPT ![i] = c] \in Seq({"running"} \cup Conclusions)
        /\ [runs[w] EXCEPT ![i] = c] # <<>>
    BY <2>2
  <2>. QED
    BY <2>2, <2>3 DEF Queued, TypeOK
<1>3. CASE \E c \in Contexts : Report(c)
  <2>1. PICK c \in Contexts : Report(c)
    BY <1>3
  <2>2. PICK s \in {"pending", "success", "failure"} :
          contexts' = [contexts EXCEPT ![c] = s] /\ runs' = runs /\ UNCHANGED own
    BY <2>1 DEF Report
  <2>. QED
    BY <2>2 DEF Queued, TypeOK
<1>. QED
  BY <1>1, <1>2, <1>3

LEMMA MeanwhileInv ==
  ASSUME IInv,
         \/ \E w \in Workflows : Queue(w) \/ Conclude(w)
         \/ \E c \in Contexts : Report(c)
  PROVE  IInv'
<1>1. /\ Queued \subseteq Queued'
      /\ runs' \in [Workflows -> Seq({"running"} \cup Conclusions)]
      /\ contexts' \in [Contexts -> {"none", "pending", "success", "failure"}]
      /\ UNCHANGED own
  BY QueuedGrows DEF IInv
<1>2. TypeOK'
  BY <1>1 DEF IInv, TypeOK, own
<1>3. Slept' /\ OwnClock' /\ OnTime' /\ OnlyStatus' /\ GivesUpInTime'
  BY <1>1 DEF IInv, Slept, OwnClock, OnTime, OnlyStatus, GivesUpInTime, Retry, own
<1>4. Counted'
  <2>1. AllQueued /\ expected # None => AllQueued'
    <3>. SUFFICES ASSUME AllQueued, expected # None
                  PROVE  AllQueued'
      OBVIOUS
    <3>1. /\ expected \subseteq Workflows /\ Queued' \subseteq Workflows
          /\ IsFiniteSet(Workflows) /\ expected' = expected
      BY <1>1, ChecksAssumption DEF IInv, TypeOK, Queued, own
    <3>2. /\ IsFiniteSet(expected) /\ IsFiniteSet(Queued')
          /\ IsFiniteSet(Queued) /\ Cardinality(Queued) <= Cardinality(Queued')
      BY <1>1, <3>1, FS_Subset
    <3>3. /\ Cardinality(expected) \in Nat /\ Cardinality(Queued) \in Nat
          /\ Cardinality(Queued') \in Nat
      BY <3>2, FS_CardinalityType
    <3>. QED
      BY <3>1, <3>2, <3>3 DEF AllQueued
  <2>. QED
    BY <1>1, <2>1 DEF IInv, Counted, own
<1>. QED
  BY <1>2, <1>3, <1>4 DEF IInv

-----------------------------------------------------------------------------
(* Theorems                                                                   *)

WaitInvariant == IInv /\ Pending

LEMMA NextInv == WaitInvariant /\ [Next]_vars => WaitInvariant'
<1>. SUFFICES ASSUME WaitInvariant, [Next]_vars PROVE WaitInvariant'
  OBVIOUS
<1>. IInv /\ Pending
  BY DEF WaitInvariant
<1>1. CASE Wait
  <2>1. Pending'
    BY <1>1 DEF Pending, Wait, WaitForRebase, ReadBaseline, CompareWithBaseline,
         ListWorkflowRuns, CheckStatuses, Judge, GiveUpOrAgain, Again, End
  <2>. QED
    BY <1>1, <2>1, WaitInv DEF WaitInvariant
<1>2. CASE \/ \E w \in Workflows : Queue(w) \/ Conclude(w)
           \/ \E c \in Contexts : Report(c)
  <2>1. Pending'
    BY <1>2, QueuedGrows DEF IInv, Pending, own
  <2>. QED
    BY <1>2, <2>1, MeanwhileInv DEF WaitInvariant
<1>3. CASE UNCHANGED vars
  BY <1>3 DEF WaitInvariant, IInv, TypeOK, Slept, OwnClock, OnTime, OnlyStatus, Counted,
       GivesUpInTime, Pending, Retry, AllQueued, Queued, vars, ci
<1>. QED
  BY <1>1, <1>2, <1>3 DEF Next

LEMMA Inductive == Spec => []WaitInvariant
<1>1. Init => WaitInvariant
  BY InitInv DEF WaitInvariant, Init, Pending
<1>. QED
  BY <1>1, NextInv, PTL DEF Spec

\* Every variable has its type: with it, the tries of AllWorkflowsPassed and
\* what they wait stay within the literals of its callers.
THEOREM TypeCorrect == Spec => []TypeOK
<1>1. WaitInvariant => TypeOK
  BY DEF WaitInvariant, IInv
<1>. QED
  BY <1>1, Inductive, PTL

\* No wait outlasts its Retry by more than a pause and the time for workflows
\* to be queued, except WaitForStatusChecks while a check is unfinished.
THEOREM OnlyRunningHolds == Spec => []OverdueOnlyForRunning
<1>1. WaitInvariant => OverdueOnlyForRunning
  <2>. SUFFICES ASSUME IInv, elapsed > Limit(call)
                PROVE  call.kind = "status" /\ held
    BY DEF WaitInvariant, OverdueOnlyForRunning
  <2>1. /\ call \in Calls /\ elapsed \in 0..Limit(call) + 1 /\ waited \in 0..15
        /\ tries \in 0..6
    BY DEF IInv, TypeOK
  <2>2. waited <= QueueTime(call.kind)
    <3>. /\ tries <= WorkflowRetry(call.kind).attempts
         /\ waited = tries * WorkflowRetry(call.kind).pause
         /\ call.kind = "rebase" => tries = 0
      BY DEF IInv, OwnClock
    <3>1. call.kind \in Kinds
      BY <2>1, CallValues
    <3>2. CASE call.kind = "rebase"
      BY <2>1, <3>2, WorkflowRetryValues
    <3>3. CASE call.kind = "status"
      BY <2>1, <3>3, WorkflowRetryValues
    <3>4. CASE call.kind \in {"push", "pull_request"}
      BY <2>1, <3>4, WorkflowRetryValues
    <3>. QED
      BY <3>1, <3>2, <3>3, <3>4 DEF Kinds
  <2>3. held
    <3>1. /\ Retry.wait \in Nat /\ Retry.pause \in Nat /\ QueueTime(call.kind) \in 0..15
          /\ Limit(call) = Retry.wait + Retry.pause + QueueTime(call.kind)
      BY <2>1, CallValues, LimitValue DEF Retry
    <3>. QED
      BY <2>1, <2>2, <3>1 DEF IInv, OnTime
  <2>. QED
    BY <2>3 DEF IInv, OnlyStatus
<1>. QED
  BY <1>1, Inductive, PTL

\* A wait that gives up has had its time or its attempts, whatever Retry it was
\* given.
THEOREM GivesUp == Spec => []GivesUpInTime
<1>1. WaitInvariant => GivesUpInTime
  BY DEF WaitInvariant, IInv
<1>. QED
  BY <1>1, Inductive, PTL

\* The newest run of a workflow is one of its runs.
LEMMA LatestRun ==
  ASSUME TypeOK, NEW w \in Queued
  PROVE  /\ Latest(w) \in {"running", "success", "neutral", "failure", "timed_out"}
         /\ AnyRun(Latest(w))
<1>1. /\ w \in Workflows /\ runs[w] \in Seq({"running"} \cup Conclusions) /\ runs[w] # <<>>
      /\ Conclusions \subseteq {"success", "neutral", "failure", "timed_out"}
  BY ChecksAssumption DEF Queued, TypeOK
<1>2. Len(runs[w]) \in DOMAIN runs[w] /\ Latest(w) \in {"running"} \cup Conclusions
  BY <1>1 DEF Latest
<1>. QED
  BY <1>1, <1>2 DEF AnyRun, Latest

\* AllWorkflowsPassed gives up on missing workflows after the whole of its time.
LEMMA ExceededWaited ==
  ASSUME IInv, WorkflowsExceeded
  PROVE  waited >= QueueTime(call.kind)
<1>. /\ tries \in 0..6 /\ waited \in 0..15 /\ call \in Calls
     /\ waited = tries * WorkflowRetry(call.kind).pause
  BY DEF IInv, TypeOK, OwnClock
<1>1. /\ call.kind \in Kinds
      /\ tries >= WorkflowRetry(call.kind).attempts
  BY CallValues, WorkflowRetryValues DEF WorkflowsExceeded
<1>2. CASE call.kind = "rebase"
  BY <1>2, WorkflowRetryValues
<1>3. CASE call.kind = "status"
  BY <1>1, <1>3, WorkflowRetryValues
<1>4. CASE call.kind \in {"push", "pull_request"}
  BY <1>1, <1>4, WorkflowRetryValues
<1>. QED
  BY <1>1, <1>2, <1>3, <1>4 DEF Kinds

\* What a wait for checks passes is settled: the required checks have finished,
\* no workflow has failed or goes on, and none of those to expect was given up
\* before its time.
THEOREM PassedSettled == Spec => PassedIsSettled
<1>. DEFINE Settled ==
       /\ \A w \in Queued : Latest(w) \in {"success", "neutral"}
       /\ call.kind = "status" => call.required \subseteq Finished
       /\ \/ expected = None \/ AllQueued
          \/ waited >= QueueTime(call.kind)
          \/ call.kind = "push" /\ Queued = {}
<1>1. ASSUME WaitInvariant, [Next]_vars,
             outcome' = "passed", outcome = "none", call.kind # "rebase"
      PROVE  Settled
  <2>. /\ IInv /\ TypeOK
    BY <1>1 DEF WaitInvariant, IInv
  <2>1. Wait
    <3>1. ~(UNCHANGED vars)
      BY <1>1 DEF vars
    <3>2. ~ \/ \E w \in Workflows : Queue(w) \/ Conclude(w)
            \/ \E c \in Contexts : Report(c)
      BY <1>1, QueuedGrows DEF own
    <3>. QED
      BY <1>1, <3>1, <3>2 DEF Next
  <2>2. ASSUME NEW ok \in BOOLEAN, Judge(ok)
        PROVE  call.kind # "status" /\ ok
    BY <1>1, <2>2 DEF Judge, GiveUpOrAgain, Again, End
  <2>3. CASE WaitForRebase
    BY <1>1, <2>3 DEF WaitForRebase
  <2>4. CASE ReadBaseline
    BY <1>1, <2>4 DEF ReadBaseline, End
  <2>5. CASE CompareWithBaseline
    <3>1. /\ Judge(\A w \in Queued : Latest(w) = "success")
          /\ \/ call.kind = "push" /\ Queued = {}
             \/ AllQueued \/ WorkflowsExceeded
      BY <1>1, <2>5 DEF CompareWithBaseline, End
    <3>2. call.kind # "status" /\ \A w \in Queued : Latest(w) = "success"
      BY <2>2, <3>1
    <3>. QED
      BY <3>1, <3>2, ExceededWaited
  <2>6. CASE ListWorkflowRuns
    <3>. DEFINE ok == ~AnyRun("running") /\ ~AnyRun("neutral") /\ ~AnyRun("timed_out")
    <3>1. ~AnyRun("failure") /\ Judge(ok) /\ expected = None
      BY <1>1, <2>6 DEF ListWorkflowRuns, End
    <3>2. ok \in BOOLEAN
      OBVIOUS
    <3>3. call.kind # "status" /\ ok
      BY <2>2, <3>1, <3>2
    <3>4. \A w \in Queued : Latest(w) = "success"
      BY <3>1, <3>3, LatestRun
    <3>. QED
      BY <3>1, <3>3, <3>4
  <2>7. CASE CheckStatuses
    <3>1. PICK seen \in {Contexts, {}} :
            /\ Failed = {} /\ ChecksIn({"running"}) = {}
            /\ call.required \subseteq Finished \ (Contexts \ seen)
      BY <1>1, <2>7 DEF CheckStatuses, GiveUpOrAgain, Again, End
    <3>2. \A w \in Queued : Latest(w) \in {"success", "neutral"}
      <4>. SUFFICES ASSUME NEW w \in Queued
                    PROVE  Latest(w) \in {"success", "neutral"}
        OBVIOUS
      <4>. QED
        BY <3>1, LatestRun DEF Failed, ChecksIn
    <3>3. call.required \subseteq Finished
      BY <3>1
    <3>4. pc = "statuses"
      BY <2>7 DEF CheckStatuses
    <3>. QED
      BY <3>2, <3>3, <3>4 DEF IInv, Counted
  <2>. QED
    BY <2>1, <2>3, <2>4, <2>5, <2>6, <2>7 DEF Wait
<1>. QED
  BY <1>1, Inductive, PTL DEF Spec, PassedIsSettled
=============================================================================
