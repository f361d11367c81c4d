-------------------------- MODULE PullRequestReview --------------------------
(* reviewer.PullRequestReview of pkg/review/review.go against GitHub.         *)
(*                                                                            *)
(* One repository with pull requests, its default branch and its CI.  A run   *)
(* is one call of PullRequestReview, started by a webhook event; its pc names *)
(* the GitHub call it makes next.  Everything between two calls is local and  *)
(* belongs to the first of them, so an action reads GitHub once, decides, and *)
(* moves on.  A polling loop is one action: a poll that decides nothing       *)
(* changes nothing but the attempt counter, so the action waits for a read    *)
(* that ends the loop, or for Retry to run out, which it may at any moment.   *)
(*                                                                            *)
(* What GitHub and the people do in between are actions of their own.         *)
EXTENDS Naturals, FiniteSets

CONSTANTS PRs,          \* pull requests of the repository
          Runs,         \* calls of PullRequestReview
          prOf,         \* the pull request of each run's event
          Serial,       \* reviewer type: "queue" (TRUE) or "direct" (FALSE)
          HasBaseline,  \* some merged pull request had workflow runs
          Required,     \* branch protection asks for the CI check
          CfgStatuses,  \* dunebot.yml lists it under required_statuses
          Policies,     \* sets of config sections whose conditions may hold
          MainCI,       \* workflows run on pushes to the default branch
          Timely,       \* GitHub does what it accepted before Retry runs out
          Reruns,       \* results of a head's workflows that get another run
          MaxRerun,     \* bound: such runs in all
          MaxRev,       \* bound: pushes by the author of one pull request
          MaxMain,      \* bound: pushes by others to the default branch
          MaxTip,       \* bound: commits of the default branch
          None

\* A head commit: the author's revision on top of a commit of the default branch.
Heads == [pr : PRs, rev : 0..MaxRev, base : 0..MaxTip]

\* The result of its workflows: "none" until they are queued.
CI    == {"none", "running", "success", "failure"}

\* A pull request as a run keeps it: a closed one ends the run.
Snapshots == [state : {"open"}, head : Heads, pol : Policies]

\* How a run ends: "silent" an error without a comment, "told" a comment on the
\* pull request (and perhaps an error), "unheard" with a call for a comment that
\* failed, which most callers ignore, "closed" or "merged" neither.  A "panic"
\* ends the webhook request, or the process and its one busy run.
Outcomes == {"silent", "told", "unheard", "closed", "merged", "panic"}

ASSUME ReviewAssumption ==
  /\ prOf \in [Runs -> PRs]
  /\ {Serial, HasBaseline, Required, CfgStatuses, MainCI, Timely} \subseteq BOOLEAN
  /\ Policies \subseteq SUBSET {"Approve", "Merge"}
  /\ Reruns \subseteq {"success", "failure"}
  /\ {MaxRerun, MaxRev, MaxMain, MaxTip} \subseteq Nat
  /\ None \notin Snapshots \cup Heads \cup Outcomes

VARIABLES head,         \* the live head of each pull request
          state,        \* open, closed or merged
          pol,          \* the config sections whose labels, author, ... hold now
          pending,      \* GitHub accepted to update the branch and has yet to
          ci,           \* the CI result of each head, "absent" if never pushed
          reruns,       \* how often workflows of heads were run again
          reviews,      \* approvals: who gave it and the head it was given to
          mainTip,      \* the newest commit of the default branch
          mainCi,       \* the CI result of each of its commits
          pc,           \* where each run is
          snap,         \* its variable pr: the pull request as last fetched
          orig,         \* its variable prC: the pull request as first fetched
          cur,          \* the head WaitForStatusChecks looks at
          outcome,      \* how it ended
          everOk,       \* history: what held at some moment since it began
          mainOk        \* history: MainFine at some moment since its approval

world == <<head, state, pol, pending, ci, reruns, reviews, mainTip, mainCi>>
run   == <<pc, snap, orig, cur, outcome>>
hist  == <<everOk, mainOk>>
vars  == <<world, run, hist>>

Busy(r) == pc[r] \notin {"idle", "end"}
Live(p) == [state |-> state[p], head |-> head[p], pol |-> pol[p]]

\* The newest commit of the default branch has no failed or unfinished run.
MainFine == mainCi[mainTip] \in {"none", "success"}

\* Where a run is after its approval.
PastApproval == {"main", "head", "recheck", "merge"}

\* A step that changes the default branch or its CI, for the history.
SeeMain == mainOk' = [r \in Runs |-> mainOk[r] \/ (pc[r] \in PastApproval /\ MainFine')]

Init ==
  /\ head    = [p \in PRs |-> [pr |-> p, rev |-> 0, base |-> 0]]
  /\ state   = [p \in PRs |-> "open"]
  /\ pol     \in [PRs -> Policies]
  /\ pending = [p \in PRs |-> FALSE]
  /\ ci      = [h \in Heads |-> IF h.rev = 0 /\ h.base = 0 THEN "none" ELSE "absent"]
  /\ reruns  = 0
  /\ reviews = [p \in PRs |-> {}]
  /\ mainTip = 0
  /\ mainCi  = [t \in 0..MaxTip |-> "none"]
  /\ pc      = [r \in Runs |-> "idle"]
  /\ snap    = [r \in Runs |-> None]
  /\ orig    = [r \in Runs |-> None]
  /\ cur     = [r \in Runs |-> None]
  /\ outcome = [r \in Runs |-> None]
  /\ everOk  = [r \in Runs |-> {}]
  /\ mainOk  = [r \in Runs |-> FALSE]

-----------------------------------------------------------------------------
(* Ends of a run                                                              *)

\* The call returns.
Stop(r, how) ==
  /\ pc'      = [pc EXCEPT ![r] = "end"]
  /\ snap'    = [snap EXCEPT ![r] = None]
  /\ orig'    = [orig EXCEPT ![r] = None]
  /\ cur'     = [cur EXCEPT ![r] = None]
  /\ outcome' = [outcome EXCEPT ![r] = how]

Goto(r, l) ==
  /\ pc' = [pc EXCEPT ![r] = l]
  /\ UNCHANGED <<snap, orig, cur, outcome>>

\* AddComment and AddCommentSilent, then the return.
Comment(r) == \E how \in {"told", "unheard"} : Stop(r, how)

Refuse(r) == Comment(r) /\ UNCHANGED <<world, hist>>

\* GetStatuses dereferences the nil result of a failed call.
Panic(r) == Stop(r, "panic") /\ UNCHANGED <<world, hist>>

-----------------------------------------------------------------------------
(* Plausible bugs, each put in the place of an action to see a property fail: *)
(* the closed pull request not noticed, Retry ignored for a missing check, an *)
(* error or a condition of the approval ignored, a failed main passed or      *)
(* reported to nobody, running checks passed.                                 *)

GetAnyPullRequest(r) ==
  /\ pc[r] = "get"
  /\ snap' = [snap EXCEPT ![r] = Live(prOf[r])]
  /\ orig' = [orig EXCEPT ![r] = Live(prOf[r])]
  /\ pc'   = [pc EXCEPT ![r] = "repo"]
  /\ UNCHANGED <<cur, outcome, world, hist>>

AddRebaseCommentOnly(r) ==
  LET p == prOf[r] IN
  /\ pc[r] = "update"
  /\ state[p] = "open" /\ head[p].base < mainTip
  /\ pending' = [pending EXCEPT ![p] = TRUE]
  /\ Goto(r, "status")
  /\ UNCHANGED <<head, state, pol, ci, reruns, reviews, mainTip, mainCi, hist>>

CheckStatusesForever(r) ==
  /\ pc[r] = "checks"
  /\ \E s \in {ci[cur[r]], "none"} :
       \/ s = "success" /\ Goto(r, "validate")
       \/ s \in {"running", "none"} /\ Goto(r, "status")
       \/ s = "failure" /\ Comment(r)
  /\ UNCHANGED <<world, hist>>

ApproveIgnoringError(r) ==
  LET p == prOf[r] IN
  /\ pc[r] = "approve"
  /\ reviews' \in {reviews, [reviews EXCEPT ![p] = @ \cup {[by |-> r, head |-> head[p]]}]}
  /\ mainOk' = [mainOk EXCEPT ![r] = MainFine]
  /\ IF "Merge" \in snap[r].pol THEN Goto(r, "main") ELSE Comment(r)
  /\ UNCHANGED <<head, state, pol, pending, ci, reruns, mainTip, mainCi, everOk>>

ApproveWithoutConditions(r) ==
  LET p == prOf[r] IN
  /\ pc[r] = "approve"
  /\ reviews' = [reviews EXCEPT ![p] = @ \cup {[by |-> r, head |-> head[p]]}]
  /\ mainOk' = [mainOk EXCEPT ![r] = MainFine]
  /\ Goto(r, "main")
  /\ UNCHANGED <<head, state, pol, pending, ci, reruns, mainTip, mainCi, everOk>>

FinishedMainIsFine(r) ==
  /\ pc[r] = "main"
  /\ \/ mainCi[snap[r].head.base] # "running" /\ Goto(r, "head")
     \/ Stop(r, "silent")
  /\ UNCHANGED <<world, hist>>

UnfailedHeadIsFine(r) ==
  /\ pc[r] = "head"
  /\ ci[snap[r].head] \in {"running", "success"}
  /\ Goto(r, "recheck")
  /\ UNCHANGED <<world, hist>>

-----------------------------------------------------------------------------
(* A run up to the approval                                                   *)

\* The queue hands over one event at a time, the direct reviewer all at once.
Start(r) ==
  /\ pc[r] = "idle"
  /\ Serial => \A q \in Runs : ~Busy(q)
  /\ Goto(r, "get")
  /\ everOk' = [everOk EXCEPT ![r] = pol[prOf[r]]]
  /\ UNCHANGED <<world, mainOk>>

GetPullRequest(r) ==
  LET p == prOf[r] IN
  /\ pc[r] = "get"
  /\ \/ Stop(r, "silent")
     \/ state[p] # "open" /\ Stop(r, "closed")
     \/ /\ state[p] = "open"
        /\ snap' = [snap EXCEPT ![r] = Live(p)]
        /\ orig' = [orig EXCEPT ![r] = Live(p)]
        /\ pc'   = [pc EXCEPT ![r] = "repo"]
        /\ UNCHANGED <<cur, outcome>>
  /\ UNCHANGED <<world, hist>>

\* ValidateApproveConditions judges the pull request as it was fetched.
GetRepository(r) ==
  /\ pc[r] = "repo"
  /\ \/ Stop(r, "silent")
     \/ "Approve" \notin orig[r].pol /\ Comment(r)
     \/ "Approve" \in orig[r].pol /\ Goto(r, "compare")
  /\ UNCHANGED <<world, hist>>

\* A failed comparison counts as out of date.
IsOutOfDate(r) ==
  /\ pc[r] = "compare"
  /\ \/ Goto(r, "update")
     \/ snap[r].head.base >= mainTip /\ Goto(r, "status")
     \/ Stop(r, "silent")        \* no client for the approver
  /\ UNCHANGED <<world, hist>>

\* GitHub refuses to update a branch that is up to date.
AddRebaseComment(r) ==
  LET p == prOf[r] IN
  /\ pc[r] = "update"
  /\ \/ Refuse(r)
     \/ /\ state[p] = "open" /\ head[p].base < mainTip
        /\ pending' = [pending EXCEPT ![p] = TRUE]
        /\ Goto(r, "rebase")
        /\ UNCHANGED <<head, state, pol, ci, reruns, reviews, mainTip, mainCi, hist>>

\* Retry runs out, unless GitHub is sure to be about to move the branch.
RebaseExpires(p) == ~(Timely /\ pending[p] /\ state[p] = "open")

\* The loop ends when the head is another one, when the fetch fails (the nil
\* pull request has no head) or when Retry runs out; that error is dropped,
\* because the caller tests err instead of tmplErr.
WaitForRebase(r) ==
  LET p == prOf[r]
      With(s) == IF s # None /\ state[p] # "open"
                 THEN Stop(r, "closed")
                 ELSE /\ snap' = [snap EXCEPT ![r] = s]
                      /\ pc'   = [pc EXCEPT ![r] = "status"]
                      /\ UNCHANGED <<orig, cur, outcome>>
  IN
  /\ pc[r] = "rebase"
  /\ \/ With(None)
     \/ (head[p] # snap[r].head \/ RebaseExpires(p)) /\ With(Live(p))
  /\ UNCHANGED <<world, hist>>

\* One turn of WaitForStatusChecks begins with a fetch of its own; without a
\* pull request from WaitForRebase it asks for number 0 and fails.
WaitForStatusChecks(r) ==
  /\ pc[r] = "status"
  /\ \/ Refuse(r)
     \/ /\ snap[r] # None
        /\ cur' = [cur EXCEPT ![r] = head[prOf[r]]]
        /\ pc'  = [pc EXCEPT ![r] = "checks"]
        /\ UNCHANGED <<snap, orig, outcome, world, hist>>

\* AllWorkflowsPassed waits for the workflows the baseline makes it expect.
\* Without a baseline, or when its retries run out, no runs is an answer.
NoRunsYet(h) == ci[h] = "none" /\ ~(Timely /\ HasBaseline)

\* Without a baseline AllWorkflowsPassed fails on a failed run by itself.  When
\* the CI reports commit statuses rather than check runs, GetStatuses takes a
\* failed call for an empty list.
SeenStatuses(h) ==
  IF ci[h] = "none" THEN {s \in {"none"} : NoRunsYet(h)}
  ELSE {ci[h]} \cup {s \in {"none"} : HasBaseline \/ ci[h] # "failure"}

\* The rest of the turn: AllWorkflowsPassed and GetStatuses for that head.
\* Unfinished checks start another turn whatever Retry says; a required check
\* that is missing is waited for until Retry runs out.
CheckStatuses(r) ==
  /\ pc[r] = "checks"
  /\ \/ Refuse(r)
     \/ Panic(r)
     \/ \E s \in SeenStatuses(cur[r]) :
          LET missing == s = "none" /\ Required IN
          /\ \/ s \in {"success", "none"} /\ ~missing /\ Goto(r, "validate")
             \/ s = "running" /\ Goto(r, "status")
             \/ missing /\ head[prOf[r]] # cur[r] /\ Goto(r, "status")
             \/ (s = "failure" \/ missing) /\ Comment(r)
          /\ UNCHANGED <<world, hist>>

\* ValidateCommentsAndChecks for the statuses of head h.
ValidateChecks(r, h, next) ==
  \/ Refuse(r)
  \/ CfgStatuses /\ Panic(r)
  \/ /\ CfgStatuses => ci[h] = "success"
     /\ Goto(r, next)
     /\ UNCHANGED <<world, hist>>

ValidateApproveCommentsAndChecks(r) ==
  pc[r] = "validate" /\ ValidateChecks(r, snap[r].head, "approve")

\* The approval names no commit, so it goes to the live head.  It is followed
\* by ValidateMergeConditions on the pull request as it was fetched.
ApprovePullRequest(r) ==
  LET p == prOf[r] IN
  /\ pc[r] = "approve"
  /\ \/ Refuse(r)
     \/ /\ reviews' = [reviews EXCEPT ![p] = @ \cup {[by |-> r, head |-> head[p]]}]
        /\ mainOk' = [mainOk EXCEPT ![r] = MainFine]
        /\ IF "Merge" \in snap[r].pol THEN Goto(r, "main") ELSE Comment(r)
        /\ UNCHANGED <<head, state, pol, pending, ci, reruns, mainTip, mainCi, everOk>>

-----------------------------------------------------------------------------
(* A run from the approval to the merge                                       *)

\* No runs on the default branch count as passed; anything else but success is
\* waited for until Retry runs out.
WaitForPRChecksToPassMain(r) ==
  /\ pc[r] = "main"
  /\ \/ Refuse(r)
     \/ /\ mainCi[snap[r].head.base] \in {"none", "success"}
        /\ Goto(r, "head")
        /\ UNCHANGED <<world, hist>>

WaitForPRChecksToPass(r) ==
  LET h == snap[r].head IN
  /\ pc[r] = "head"
  /\ \/ Refuse(r)
     \/ /\ ci[h] = "success" \/ NoRunsYet(h)
        /\ Goto(r, "recheck")
        /\ UNCHANGED <<world, hist>>

\* The pull request as first fetched, before any rebase.
ValidateMergeCommentsAndChecks(r) ==
  pc[r] = "recheck" /\ ValidateChecks(r, orig[r].head, "merge")

\* The merge names no commit either: GitHub merges the live head.
MergePullRequest(r) ==
  LET p == prOf[r] IN
  /\ pc[r] = "merge"
  /\ \/ Refuse(r)
     \/ /\ state[p] = "open" /\ mainTip < MaxTip
        /\ Required => ci[head[p]] = "success"
        /\ state'   = [state EXCEPT ![p] = "merged"]
        /\ mainTip' = mainTip + 1
        /\ Stop(r, "merged")
        /\ UNCHANGED <<head, pol, pending, ci, reruns, reviews, mainCi, everOk>>
        /\ SeeMain

Review(r) ==
  \/ GetPullRequest(r) \/ GetRepository(r) \/ IsOutOfDate(r)
  \/ AddRebaseComment(r) \/ WaitForRebase(r)
  \/ WaitForStatusChecks(r) \/ CheckStatuses(r)
  \/ ValidateApproveCommentsAndChecks(r) \/ ApprovePullRequest(r)
  \/ WaitForPRChecksToPassMain(r) \/ WaitForPRChecksToPass(r)
  \/ ValidateMergeCommentsAndChecks(r) \/ MergePullRequest(r)

-----------------------------------------------------------------------------
(* GitHub and the people                                                      *)

\* The branch moves to head h.
Move(p, h) ==
  /\ head' = [head EXCEPT ![p] = h]
  /\ ci'   = [ci EXCEPT ![h] = IF @ = "absent" THEN "none" ELSE @]

AuthorPush(p) ==
  /\ state[p] = "open" /\ head[p].rev < MaxRev
  /\ Move(p, [head[p] EXCEPT !.rev = @ + 1])
  /\ UNCHANGED <<state, pol, pending, reruns, reviews, mainTip, mainCi, run, hist>>

ClosePullRequest(p) ==
  /\ state[p] = "open"
  /\ state' = [state EXCEPT ![p] = "closed"]
  /\ UNCHANGED <<head, pol, pending, ci, reruns, reviews, mainTip, mainCi, run, hist>>

Relabel(p) ==
  \E s \in Policies \ {pol[p]} :
    /\ state[p] = "open"
    /\ pol'    = [pol EXCEPT ![p] = s]
    /\ everOk' = [r \in Runs |-> IF Busy(r) /\ prOf[r] = p
                                 THEN everOk[r] \cup s ELSE everOk[r]]
    /\ UNCHANGED <<head, state, pending, ci, reruns, reviews, mainTip, mainCi, run, mainOk>>

UpdateBranch(p) ==
  /\ pending[p] /\ state[p] = "open"
  /\ pending' = [pending EXCEPT ![p] = FALSE]
  /\ Move(p, [head[p] EXCEPT !.base = mainTip])
  /\ UNCHANGED <<state, pol, reruns, reviews, mainTip, mainCi, run, hist>>

StartCI(h) ==
  /\ ci[h] = "none"
  /\ ci' = [ci EXCEPT ![h] = "running"]
  /\ UNCHANGED <<head, state, pol, pending, reruns, reviews, mainTip, mainCi, run, hist>>

FinishCI(h) ==
  /\ ci[h] = "running"
  /\ \E s \in {"success", "failure"} : ci' = [ci EXCEPT ![h] = s]
  /\ UNCHANGED <<head, state, pol, pending, reruns, reviews, mainTip, mainCi, run, hist>>

\* Somebody runs the workflows of a head again.
RerunCI(h) ==
  /\ ci[h] \in Reruns /\ reruns < MaxRerun
  /\ ci'     = [ci EXCEPT ![h] = "running"]
  /\ reruns' = reruns + 1
  /\ UNCHANGED <<head, state, pol, pending, reviews, mainTip, mainCi, run, hist>>

\* Workflows of the default branch are queued, end, and may be run again.
ProgressMainCI ==
  /\ MainCI
  /\ \/ /\ mainCi[mainTip] = "none"
        /\ mainCi' = [mainCi EXCEPT ![mainTip] = "running"]
     \/ \E t \in 0..mainTip, s \in {"success", "failure"} :
          \/ mainCi[t] = "running" /\ mainCi' = [mainCi EXCEPT ![t] = s]
          \/ mainCi[t] = s /\ mainCi' = [mainCi EXCEPT ![t] = "running"]
  /\ UNCHANGED <<head, state, pol, pending, ci, reruns, reviews, mainTip, run, everOk>>
  /\ SeeMain

PushToMain ==
  /\ mainTip < MaxMain /\ mainTip < MaxTip
  /\ mainTip' = mainTip + 1
  /\ UNCHANGED <<head, state, pol, pending, ci, reruns, reviews, mainCi, run, everOk>>
  /\ SeeMain

Environment ==
  \/ \E p \in PRs : \/ AuthorPush(p) \/ ClosePullRequest(p) \/ Relabel(p)
                    \/ UpdateBranch(p)
  \/ \E h \in Heads : StartCI(h) \/ FinishCI(h) \/ RerunCI(h)
  \/ ProgressMainCI \/ PushToMain

Next == (\E r \in Runs : Start(r) \/ Review(r)) \/ Environment

\* A run makes its next call, GitHub carries out what it accepted and queues
\* workflows.  That a workflow also ends has to be asked for: a check that never
\* finishes keeps its run waiting for ever, whatever Retry says.
ReviewFairness ==
  /\ \A r \in Runs : WF_vars(Review(r))
  /\ \A p \in PRs : WF_vars(UpdateBranch(p))
  /\ \A h \in Heads : WF_vars(StartCI(h))
CIFairness == \A h \in Heads : WF_vars(FinishCI(h))

Spec == Init /\ [][Next]_vars /\ ReviewFairness /\ CIFairness

-----------------------------------------------------------------------------
(* Properties                                                                 *)

\* Every variable has its type.
TypeOK ==
  /\ head    \in [PRs -> Heads]
  /\ state   \in [PRs -> {"open", "closed", "merged"}]
  /\ pol     \in [PRs -> Policies]
  /\ pending \in [PRs -> BOOLEAN]
  /\ ci      \in [Heads -> CI \cup {"absent"}]
  /\ reruns  \in 0..MaxRerun
  /\ reviews \in [PRs -> SUBSET [by : Runs, head : Heads]]
  /\ mainTip \in 0..MaxTip
  /\ mainCi  \in [0..MaxTip -> CI]
  /\ pc \in [Runs -> {"idle", "get", "repo", "compare", "update", "rebase", "status",
                      "checks", "validate", "approve", "main", "head", "recheck",
                      "merge", "end"}]
  /\ snap    \in [Runs -> Snapshots \cup {None}]
  /\ orig    \in [Runs -> Snapshots \cup {None}]
  /\ cur     \in [Runs -> Heads \cup {None}]
  /\ outcome \in [Runs -> Outcomes \cup {None}]
  /\ everOk  \in [Runs -> SUBSET {"Approve", "Merge"}]
  /\ mainOk  \in [Runs -> BOOLEAN]

Merges(p) == state[p] # "merged" /\ state'[p] = "merged"

\* Nothing dunebot merges is without an approval that a run gave it before.
MergedIsReviewed ==
  [][\A p \in PRs : Merges(p) => reviews[p] # {}]_vars

\* A run merges only if the conditions of both config sections held at some
\* moment while it was under way, however often the labels changed: neither
\* the first snapshot nor the one after the rebase is older than the run.
PolicyHeldDuringRun ==
  [][\A r \in Runs : outcome[r] = None /\ outcome'[r] = "merged"
       => {"Approve", "Merge"} \subseteq everOk[r]]_vars

\* A run that approved a pull request does not leave its author in the dark on
\* purpose: it merges or calls for a comment, and never ends on a silent error
\* or a closed pull request.  Only a panic, or the failure of the very call that
\* writes the comment, keeps it from an answer.
ApprovedIsAnswered ==
  \A r \in Runs : (\E v \in reviews[prOf[r]] : v.by = r) /\ pc[r] = "end"
                    => outcome[r] \in {"merged", "told", "unheard", "panic"}

\* The head that is merged has passed its CI.
MergedIsGreen ==
  [][\A p \in PRs : Merges(p) => ci[head[p]] = "success"]_vars

\* The head that is merged is the very one the merging run approved.
MergedIsApproved ==
  [][\A r \in Runs : outcome[r] = None /\ outcome'[r] = "merged"
       => [by |-> r, head |-> head[prOf[r]]] \in reviews[prOf[r]]]_vars

\* A run merges only if the newest commit of the default branch had no failed
\* and no unfinished workflow at some moment between its approval and the merge:
\* a red default branch holds it up unless somebody runs the workflows again,
\* and what it knew of the branch before the approval does not count.
NothingOnRedMain ==
  [][\A r \in Runs : outcome[r] = None /\ outcome'[r] = "merged" => mainOk[r]]_vars

\* When WaitForRebase is over the pull request has another head than before.
RebaseIsDone ==
  [][\A r \in Runs : pc[r] = "rebase" /\ pc'[r] = "status" /\ snap'[r] # None
       => snap'[r].head # snap[r].head]_vars

\* Every run comes to an end, be it by a panic.
ReviewsEnd == \A r \in Runs : Busy(r) ~> ~Busy(r)

\* What the reviews do to the pull requests, seen as a train of merges.
Train == INSTANCE MergeTrain
           WITH state    <- state,
                base     <- [p \in PRs |-> head[p].base],
                passed   <- [p \in PRs |-> ci[head[p]] = "success"],
                approved <- [p \in PRs |-> \E v \in reviews[p] : v.head = head[p]],
                tip      <- mainTip

\* Serial reviews, polling and rebasing through an asynchronous GitHub, merge
\* the pull requests of a repository as the merge train does: one at a time,
\* each approved and tested on top of everything merged before it.
ImplementsMergeTrain == Train!Spec
=============================================================================
