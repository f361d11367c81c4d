-------------------------------- MODULE Checks --------------------------------
(* The waits of the GitHub client (pkg/github/client.go) with their Retry, in *)
(* detail: PullRequestReview lets Retry run out at any moment and has one CI  *)
(* result per commit; here a clock runs, and a commit has several workflows,  *)
(* which may run again, and commit statuses of other services.                *)
(*                                                                            *)
(* One call of WaitForRebase ("rebase"), of WaitForStatusChecks ("status") or *)
(* of WaitForPRChecksToPass for a "push" or a "pull_request".  Time is        *)
(* counted in units of 20 seconds and passes while the code sleeps; the calls *)
(* themselves take none.                                                      *)
EXTENDS Integers, FiniteSets, Sequences

CONSTANTS Workflows,    \* workflows of the repository, each with one check
          Contexts,     \* commit statuses that other services report
          Conclusions,  \* how a workflow run may end
          Calls,        \* calls of a wait: what is asked, of which repository
          MaxRuns,      \* bound: how often each workflow runs on this commit
          MaxInt32      \* math.MaxInt32, the attempts that never run out

\* No pull request was merged so far.
None == {"nothing"}

Kinds   == {"rebase", "status", "push", "pull_request"}
Retries == [attempts : Int, wait : Int, pause : Int]

\* Retry.init: a missing time has a default, a negative one is none at all.
DefaultWait  == 30
DefaultPause == 1
Normal(r) ==
  [attempts |-> IF r.attempts < 0 THEN MaxInt32 ELSE r.attempts,
   wait     |-> IF r.wait = 0 THEN DefaultWait ELSE IF r.wait < 0 THEN 0 ELSE r.wait,
   pause    |-> IF r.pause = 0 THEN DefaultPause ELSE IF r.pause < 0 THEN 0 ELSE r.pause]

\* The literals in the calls of AllWorkflowsPassed.
WorkflowRetry(kind) ==
  IF kind = "status" THEN [attempts |-> 6, wait |-> 0, pause |-> 1]
                     ELSE [attempts |-> 5, wait |-> 0, pause |-> 3]

\* How long AllWorkflowsPassed waits for workflows to be queued: two minutes,
\* or five.
QueueTime(kind) == IF kind = "rebase" THEN 0
                   ELSE WorkflowRetry(kind).attempts * WorkflowRetry(kind).pause

\* The latest moment at which a wait that heeds its Retry is still under way.
Limit(c) == Normal(c.retry).wait + Normal(c.retry).pause + QueueTime(c.kind)

ASSUME ChecksAssumption ==
  /\ \A c \in Calls :
       /\ c \in [kind : Kinds, retry : Retries, required : SUBSET (Workflows \cup Contexts),
                 baseline : (SUBSET Workflows) \cup {None}]
       /\ c.retry.attempts <= MaxInt32
  /\ Conclusions \subseteq {"success", "neutral", "failure", "timed_out"}
  /\ MaxRuns \in [Workflows -> Nat] /\ MaxInt32 \in Nat
  /\ "nothing" \notin Workflows
  /\ IsFiniteSet(Workflows)

VARIABLES call,         \* the call and the repository it is about
          runs,         \* the runs of each workflow on the commit, in order
          contexts,     \* the commit statuses
          pc,           \* where the call is
          elapsed,      \* time since Retry.start
          attempts,     \* Retry.Attempts
          expected,     \* AllWorkflowsPassed: the workflows of the baseline
          waited,       \* time since its own Retry.start
          tries,        \* Attempts of its own Retry
          held,         \* the last full turn found an unfinished check
          outcome       \* what the call returns

ci   == <<runs, contexts>>
vars == <<call, ci, pc, elapsed, attempts, expected, waited, tries, held, outcome>>

Init ==
  /\ call     \in Calls
  /\ runs     = [w \in Workflows |-> <<>>]
  /\ contexts = [c \in Contexts |-> "none"]
  /\ pc       = "turn"
  /\ elapsed  = 0 /\ attempts = 0 /\ waited = 0 /\ tries = 0
  /\ expected = None
  /\ held     = FALSE
  /\ outcome  = "none"

-----------------------------------------------------------------------------
(* What GitHub shows                                                          *)

\* GetLatestWorkflowRuns: the workflows that ran, each with its newest run.
Queued    == {w \in Workflows : runs[w] # <<>>}
Latest(w) == runs[w][Len(runs[w])]
AnyRun(s) == \E w \in Workflows : \E i \in DOMAIN runs[w] : runs[w][i] = s

\* The check of a workflow follows its newest run.
ChecksIn(S)   == {w \in Queued : Latest(w) \in S}
ContextsIn(S) == {c \in Contexts : contexts[c] \in S}

-----------------------------------------------------------------------------
(* The clock and Retry                                                        *)

Retry == Normal(call.retry)

\* Plausible bugs, each put in the place of RetryExceeded or WorkflowsExceeded
\* to see a property fail: only attempts are counted, one try too few, only the
\* time is looked at.
AttemptsExceeded == attempts >= Retry.attempts
LastAttempt      == elapsed > Retry.wait \/ attempts + 1 >= Retry.attempts
LastTry          == tries + 1 >= WorkflowRetry(call.kind).attempts
OverTime         == waited > DefaultWait

RetryExceeded == elapsed > Retry.wait \/ attempts >= Retry.attempts

\* The clock stops (a bound) when the wait is overdue.
Least(a, b) == IF a <= b THEN a ELSE b
Sleep(d)    == elapsed' = Least(elapsed + d, Limit(call) + 1)

End(how) ==
  /\ pc' = "end"
  /\ outcome' = how
  /\ UNCHANGED <<call, ci, elapsed, attempts, expected, waited, tries, held>>

\* Sleep and begin another turn, after one that found a check unfinished or not.
Again(unfinished) ==
  /\ attempts' = Least(attempts + 1, MaxInt32)
  /\ Sleep(Retry.pause)
  /\ held' = unfinished
  /\ pc' = "turn"
  /\ expected' = None /\ waited' = 0 /\ tries' = 0
  /\ UNCHANGED <<call, ci, outcome>>

GiveUpOrAgain == IF RetryExceeded THEN End("exceeded") ELSE Again(FALSE)

-----------------------------------------------------------------------------
(* The waits                                                                  *)

\* The head is another one or the fetch failed, which looks the same; or the
\* head is as it was.
WaitForRebase ==
  /\ pc = "turn" /\ call.kind = "rebase"
  /\ End("passed") \/ GiveUpOrAgain

\* AllWorkflowsPassed reads the baseline: the workflows that ran for the pull
\* request merged last.  There may be none, and when GetLastMergedPullRequest
\* fails there seems to be none.
ReadBaseline ==
  /\ pc = "turn" /\ call.kind # "rebase"
  /\ \/ (call.kind = "status" \/ call.baseline # None) /\ End("error")
     \/ /\ expected' \in {call.baseline, None}
        /\ waited' = 0
        /\ tries' = 0
        /\ pc' = "runs"
        /\ UNCHANGED <<call, ci, elapsed, attempts, held, outcome>>

WorkflowsExceeded ==
  LET own == Normal(WorkflowRetry(call.kind)) IN
  waited > own.wait \/ tries >= own.attempts

\* Workflows are counted, not compared by name.
AllQueued == Cardinality(Queued) >= Cardinality(expected)

\* The caller of AllWorkflowsPassed: WaitForStatusChecks only wants to know
\* that there was no error; WaitForPRChecksToPass judges the runs itself, and
\* no run at all is good enough.
Judge(succeeded) ==
  IF call.kind = "status"
  THEN /\ pc' = "statuses"
       /\ UNCHANGED <<call, ci, elapsed, attempts, expected, waited, tries, held, outcome>>
  ELSE IF succeeded THEN End("passed") ELSE GiveUpOrAgain

\* With a baseline: the newest run of each workflow counts.
CompareWithBaseline ==
  /\ pc = "runs" /\ expected # None
  /\ \/ End("error")
     \/ /\ \/ call.kind = "push" /\ Queued = {}
           \/ AllQueued \/ WorkflowsExceeded
        /\ Judge(\A w \in Queued : Latest(w) = "success")
     \/ /\ ~(call.kind = "push" /\ Queued = {}) /\ ~AllQueued /\ ~WorkflowsExceeded
        /\ tries' = tries + 1
        /\ waited' = waited + WorkflowRetry(call.kind).pause
        /\ Sleep(WorkflowRetry(call.kind).pause)
        /\ UNCHANGED <<call, ci, pc, attempts, expected, held, outcome>>

\* Without: every run counts, a failed (or cancelled) one at once.
ListWorkflowRuns ==
  /\ pc = "runs" /\ expected = None
  /\ \/ End("error")
     \/ AnyRun("failure") /\ End("failed")
     \/ /\ ~AnyRun("failure")
        /\ Judge(~AnyRun("running") /\ ~AnyRun("neutral") /\ ~AnyRun("timed_out"))

\* Names that GetStatuses lists as finished or with a state that is a failure
\* to WaitForStatusChecks, which a pending commit status is as well.
Finished == ChecksIn({"success", "neutral"}) \cup ContextsIn({"success"})
Failed   == ChecksIn({"failure", "timed_out"})

\* The rest of a turn of WaitForStatusChecks.  The first entry that has failed
\* or is unfinished decides, in an order that GitHub chooses; a failed call for
\* the commit statuses shows none of them, one for the check runs panics.
CheckStatuses ==
  /\ pc = "statuses"
  /\ \/ End("panic")
     \/ \E seen \in {Contexts, {}} :
          LET bad  == Failed # {} \/ seen \cap ContextsIn({"pending", "failure"}) # {}
              busy == ChecksIn({"running"}) # {}
              done == Finished \ (Contexts \ seen)
          IN \/ bad /\ End("failed")
             \/ busy /\ Again(TRUE)
             \/ ~bad /\ ~busy /\ call.required \subseteq done /\ End("passed")
             \/ ~bad /\ ~busy /\ ~(call.required \subseteq done) /\ GiveUpOrAgain

Wait == WaitForRebase \/ ReadBaseline \/ CompareWithBaseline \/ ListWorkflowRuns
        \/ CheckStatuses

-----------------------------------------------------------------------------
(* The CI of the commit                                                       *)

own == <<call, pc, elapsed, attempts, expected, waited, tries, held, outcome>>

\* Nobody looks at the CI any more, or did not from the start.
Unwatched == pc = "end" \/ call.kind = "rebase"

Queue(w) ==
  /\ ~Unwatched
  /\ Len(runs[w]) < MaxRuns[w]
  /\ runs' = [runs EXCEPT ![w] = Append(@, "running")]
  /\ UNCHANGED <<contexts, own>>

Conclude(w) ==
  /\ ~Unwatched
  /\ \E i \in DOMAIN runs[w], c \in Conclusions :
       /\ runs[w][i] = "running"
       /\ runs' = [runs EXCEPT ![w][i] = c]
       /\ UNCHANGED <<contexts, own>>

Report(c) ==
  /\ ~Unwatched
  /\ \/ contexts[c] = "none" /\ contexts' = [contexts EXCEPT ![c] = "pending"]
     \/ /\ contexts[c] = "pending"
        /\ \E s \in {"success", "failure"} : contexts' = [contexts EXCEPT ![c] = s]
  /\ UNCHANGED <<runs, own>>

Next ==
  \/ Wait
  \/ \E w \in Workflows : Queue(w) \/ Conclude(w)
  \/ \E c \in Contexts : Report(c)

Spec == Init /\ [][Next]_vars

-----------------------------------------------------------------------------
(* Properties                                                                 *)

\* Every variable has its type.
TypeOK ==
  /\ call     \in Calls
  /\ runs     \in [Workflows -> Seq({"running"} \cup Conclusions)]
  /\ contexts \in [Contexts -> {"none", "pending", "success", "failure"}]
  /\ pc       \in {"turn", "runs", "statuses", "end"}
  /\ elapsed  \in 0..Limit(call) + 1
  /\ attempts \in 0..MaxInt32
  /\ expected \in (SUBSET Workflows) \cup {None}
  /\ waited   \in 0..15
  /\ tries    \in 0..6
  /\ held     \in BOOLEAN
  /\ outcome  \in {"none", "passed", "failed", "exceeded", "error", "panic"}

\* A wait outlasts its time, with one pause and the time for workflows to be
\* queued on top, only in WaitForStatusChecks and only because the last turn
\* found a check that had not finished.
OverdueOnlyForRunning ==
  elapsed > Limit(call) => call.kind = "status" /\ held

\* A wait that gives up has used its time, or has slept the whole pause as
\* often as it may try; so with the defaults, with negative values and zeros.
GivesUpInTime ==
  outcome = "exceeded" =>
    elapsed > Retry.wait \/ elapsed >= Retry.attempts * Retry.pause

\* A wait for checks passes only what is settled: required checks have
\* finished, no workflow is unfinished or has failed, and there are as many of
\* them as for the pull request merged last, unless they did not come in the
\* whole time they were given or there is nothing to compare with.
PassedIsSettled ==
  [][outcome' = "passed" /\ outcome = "none" /\ call.kind # "rebase" =>
       /\ \A w \in Queued : Latest(w) \in {"success", "neutral"}
       /\ call.kind = "status" => call.required \subseteq Finished
       /\ \/ expected = None \/ AllQueued
          \/ waited >= QueueTime(call.kind)
          \/ call.kind = "push" /\ Queued = {}]_vars
=============================================================================
