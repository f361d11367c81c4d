--------------------------- MODULE MergeTrainProofs ---------------------------
(* What the queue and a prompt GitHub buy: under Calm the reviews of any      *)
(* pull requests in any number of runs implement MergeTrain.                  *)
(*                                                                            *)
(* The argument.  Only one run is under way, so the default branch stands     *)
(* still while it lasts, and nobody but GitHub moves the branch of a pull     *)
(* request, once, onto the tip (PullRequestInv).  When the run is past the    *)
(* rebase, what it keeps is therefore the live head, on top of the tip, until *)
(* it ends (KeepsHead, KeepsTip); what it then learns of that head, its       *)
(* approval and its checks, is still true at the merge.  Of the default       *)
(* branch it learns that the tip was fine at some moment since its approval:  *)
(* the history mainOk is set whenever the tip is, so the read need only find  *)
(* it so (Learned).                                                           *)
EXTENDS PullRequestReviewProofs

\* The queue reviewer, GitHub in time, nobody else pushing, and nobody to run
\* the workflows of a head again that have passed.
Calm == /\ Serial /\ Timely /\ HasBaseline /\ MaxRev = 0 /\ MaxMain = 0
        /\ "success" \notin Reruns

\* A pull request is not ahead of the default branch, is to be rebased only when
\* behind, and what is known of it is known of heads it has or had.
PullRequestInv(p) ==
  /\ head[p].pr = p /\ head[p].base <= mainTip
  /\ pending[p] => head[p].base < mainTip
  /\ \A h \in Heads : h.pr = p /\ h.base > head[p].base => ci[h] = "absent"
  /\ \A v \in reviews[p] : v.head.base <= head[p].base

OneAtATime == \A r, q \in Runs : Busy(r) /\ Busy(q) => r = q

\* Until the rebase is over: the head a run keeps is the live one, or GitHub has
\* moved the branch onto the tip in the meantime.
KeepsHead(r) ==
  LET p == prOf[r] IN
  /\ pc[r] \in {"repo", "compare", "update", "rebase"} =>
       \/ snap[r].head = head[p]
       \/ snap[r].head.base < mainTip /\ head[p].base = mainTip
  /\ pc[r] = "rebase" => pending[p] \/ head[p].base = mainTip

\* After it: the head a run keeps is the live one and contains the tip.
KeepsTip(r) ==
  pc[r] \in {"status", "checks", "validate", "approve"} \cup PastApproval /\ snap[r] # None
    => snap[r].head = head[prOf[r]] /\ head[prOf[r]].base = mainTip

\* What a run has learned of that head and of the tip.
Learned(r) ==
  /\ pc[r] \in PastApproval => [by |-> r, head |-> snap[r].head] \in reviews[prOf[r]]
  /\ pc[r] \in {"recheck", "merge"} => ci[snap[r].head] = "success"
  /\ pc[r] \in PastApproval /\ MainFine => mainOk[r]
  /\ pc[r] \in {"head", "recheck", "merge"} => mainOk[r]

CalmRun(r) == KeepsHead(r) /\ KeepsTip(r) /\ Learned(r)

CalmInv == OneAtATime /\ (\A p \in PRs : PullRequestInv(p)) /\ \A r \in Runs : CalmRun(r)

-----------------------------------------------------------------------------
(* Facts about heads and runs                                                 *)

LEMMA NumbersAreNaturals ==
  ASSUME TypeOK
  PROVE  /\ mainTip \in Nat
         /\ \A h \in Heads : h.pr \in PRs /\ h.rev \in Nat /\ h.base \in Nat
         /\ \A p \in PRs : head[p] \in Heads
         /\ \A p \in PRs : \A v \in reviews[p] : v.head \in Heads
         /\ \A r \in Runs : snap[r] # None => snap[r].head \in Heads
  BY ReviewAssumption DEF TypeOK, Heads, Snapshots

\* Without pushes the base tells the heads of a pull request apart.
LEMMA SameHead ==
  ASSUME Calm, NEW g \in Heads, NEW h \in Heads, g.pr = h.pr, g.base = h.base
  PROVE  g = h
<1>1. g.rev = 0 /\ h.rev = 0
  BY DEF Calm, Heads
<1>2. g = [pr |-> g.pr, rev |-> g.rev, base |-> g.base]
  BY DEF Heads
<1>3. h = [pr |-> h.pr, rev |-> h.rev, base |-> h.base]
  BY DEF Heads
<1> QED BY <1>1, <1>2, <1>3

\* Nothing is asked of a run that is not under way.
LEMMA IdleCalm ==
  ASSUME NEW q \in Runs, ~Busy(q)'
  PROVE  CalmRun(q)'
  BY DEF CalmRun, KeepsHead, KeepsTip, Learned, Busy, PastApproval

\* While one run takes a step, the others are not under way.
LEMMA OthersCalm ==
  ASSUME IInv, CalmInv, NEW r \in Runs, Busy(r),
         \/ \E how : Stop(r, how)
         \/ \E l : Goto(r, l)
         \/ \E l : pc' = [pc EXCEPT ![r] = l]
  PROVE  OneAtATime' /\ \A q \in Runs \ {r} : CalmRun(q)'
<1>1. \A q \in Runs \ {r} : ~Busy(q)'
  BY DEF CalmInv, OneAtATime, Busy, Stop, Goto, IInv, TypeOK
<1> QED BY <1>1, IdleCalm DEF OneAtATime

\* A run is left alone by whatever takes back nothing it has learned.
LEMMA LeftAlone ==
  ASSUME NEW q \in Runs, CalmRun(q),
         pc'[q] = pc[q], snap'[q] = snap[q],
         head'[prOf[q]] = head[prOf[q]], mainTip' = mainTip,
         pending[prOf[q]] => pending'[prOf[q]],
         reviews[prOf[q]] \subseteq reviews'[prOf[q]],
         ci[snap[q].head] = "success" => ci'[snap[q].head] = "success",
         UNCHANGED <<mainCi, mainOk>> \/ SeeMain
  PROVE  CalmRun(q)'
<1>1. KeepsHead(q)'
  BY DEF CalmRun, KeepsHead
<1>2. KeepsTip(q)'
  BY DEF CalmRun, KeepsTip
<1>3. /\ mainOk[q] => mainOk'[q]
      /\ pc[q] \in PastApproval /\ MainFine' => mainOk'[q]
  <2>1. CASE UNCHANGED <<mainCi, mainOk>>
    BY <2>1 DEF CalmRun, Learned, MainFine
  <2>2. CASE SeeMain
    BY <2>2 DEF SeeMain
  <2> QED BY <2>1, <2>2
<1>4. Learned(q)'
  BY <1>3 DEF CalmRun, Learned
<1> QED BY <1>1, <1>2, <1>4 DEF CalmRun

\* So is a pull request.
LEMMA PullRequestLeftAlone ==
  ASSUME NEW p \in PRs, PullRequestInv(p),
         head'[p] = head[p], mainTip' = mainTip, pending'[p] = pending[p],
         reviews'[p] = reviews[p], \A h \in Heads : ci[h] = "absent" => ci'[h] = "absent"
  PROVE  PullRequestInv(p)'
  BY DEF PullRequestInv

\* A run that ends, leaving GitHub as it was.
LEMMA StopCalm ==
  ASSUME IInv, CalmInv, NEW r \in Runs, Busy(r), NEW how, Stop(r, how), UNCHANGED world
  PROVE  CalmInv'
<1>1. ~Busy(r)'
  BY DEF Stop, Busy, IInv, TypeOK
<1>2. \A q \in Runs : CalmRun(q)'
  BY <1>1, OthersCalm, IdleCalm
<1>3. \A p \in PRs : PullRequestInv(p)'
  BY PullRequestLeftAlone DEF CalmInv, world
<1> QED BY <1>2, <1>3, OthersCalm DEF CalmInv

\* A run that moves on, leaving GitHub as it was.
LEMMA GotoCalm ==
  ASSUME IInv, CalmInv, NEW r \in Runs, Busy(r), NEW l, Goto(r, l), UNCHANGED world,
         CalmRun(r)'
  PROVE  CalmInv'
<1>1. \A p \in PRs : PullRequestInv(p)'
  BY PullRequestLeftAlone DEF CalmInv, world
<1> QED BY <1>1, OthersCalm DEF CalmInv

-----------------------------------------------------------------------------
(* One lemma per step of a run                                                *)

LEMMA StartCalm ==
  ASSUME IInv, Calm, CalmInv, NEW r \in Runs, Start(r)
  PROVE  CalmInv'
<1>1. /\ pc[r] = "idle" /\ UNCHANGED world /\ \A q \in Runs : ~Busy(q)
      /\ pc' = [pc EXCEPT ![r] = "get"]
  BY DEF Start, Goto, Calm
<1>2. \A p \in PRs : PullRequestInv(p)'
  BY <1>1, PullRequestLeftAlone DEF CalmInv, world
<1>3. \A q \in Runs \ {r} : ~Busy(q)'
  BY <1>1 DEF Busy, IInv, TypeOK
<1>4. CalmRun(r)'
  <2>1. pc'[r] = "get"
    BY <1>1 DEF IInv, TypeOK
  <2> QED BY <2>1 DEF CalmRun, KeepsHead, KeepsTip, Learned, PastApproval
<1> QED BY <1>2, <1>3, <1>4, IdleCalm DEF CalmInv, OneAtATime

LEMMA GetPullRequestCalm ==
  ASSUME IInv, CalmInv, NEW r \in Runs, GetPullRequest(r)
  PROVE  CalmInv'
<1> DEFINE p == prOf[r]
<1>1. pc[r] = "get" /\ UNCHANGED <<world, hist>> /\ Busy(r) /\ CalmRun(r)
  BY DEF GetPullRequest, Busy, CalmInv
<1>2. CASE Stop(r, "silent") \/ Stop(r, "closed")
  BY <1>1, <1>2, StopCalm
<1>3. CASE snap' = [snap EXCEPT ![r] = Live(p)] /\ pc' = [pc EXCEPT ![r] = "repo"]
  <2>1. snap'[r] = Live(p) /\ pc'[r] = "repo" /\ Live(p).head = head[p]
    BY <1>3 DEF IInv, TypeOK, Live
  <2>2. head' = head /\ mainTip' = mainTip
    BY <1>1 DEF world
  <2>3. CalmRun(r)'
    BY <1>1, <2>1, <2>2 DEF CalmRun, KeepsHead, KeepsTip, Learned, PastApproval, Busy
  <2>4. \A q \in PRs : PullRequestInv(q)'
    BY <1>1, PullRequestLeftAlone DEF CalmInv, world
  <2> QED BY <1>1, <1>3, <2>3, <2>4, OthersCalm DEF CalmInv
<1> QED BY <1>2, <1>3 DEF GetPullRequest

\* A head that is not behind the tip is the live one.
LEMMA UpToDate ==
  ASSUME IInv, Calm, CalmInv, NEW r \in Runs, pc[r] = "compare", snap[r].head.base >= mainTip
  PROVE  snap[r].head = head[prOf[r]] /\ head[prOf[r]].base = mainTip
<1>1. snap[r] \in Snapshots
  BY DEF IInv, RunInv, KeepsPullRequest, HasSnapshot
<1>2. snap[r].head.base \in Nat /\ mainTip \in Nat /\ head[prOf[r]].base \in Nat
  BY <1>1, NumbersAreNaturals, RunHasPR DEF IInv, Snapshots
<1>3. snap[r].head = head[prOf[r]] /\ head[prOf[r]].base <= mainTip
  BY <1>2, RunHasPR DEF CalmInv, CalmRun, KeepsHead, PullRequestInv
<1> QED BY <1>2, <1>3

\* The steps that only read.
LEMMA ReadingCalm ==
  ASSUME IInv, Calm, CalmInv, NEW r \in Runs,
         \/ GetRepository(r) \/ IsOutOfDate(r) \/ CheckStatuses(r)
         \/ ValidateApproveCommentsAndChecks(r) \/ WaitForPRChecksToPassMain(r)
         \/ WaitForPRChecksToPass(r) \/ ValidateMergeCommentsAndChecks(r)
  PROVE  CalmInv'
<1>1. UNCHANGED <<world, hist>> /\ Busy(r) /\ CalmRun(r)
  BY DEF GetRepository, IsOutOfDate, CheckStatuses, ValidateApproveCommentsAndChecks,
         WaitForPRChecksToPassMain, WaitForPRChecksToPass, ValidateMergeCommentsAndChecks,
         ValidateChecks, Refuse, Panic, Busy, CalmInv
<1>2. CASE \E how : Stop(r, how)
  BY <1>1, <1>2, StopCalm
<1>3. ASSUME NEW l, Goto(r, l),
             <<pc[r], l>> \in {<<"repo", "compare">>, <<"compare", "update">>,
                               <<"compare", "status">>, <<"checks", "validate">>,
                               <<"checks", "status">>, <<"validate", "approve">>,
                               <<"main", "head">>, <<"head", "recheck">>,
                               <<"recheck", "merge">>},
             l = "status" /\ pc[r] = "compare" => snap[r].head.base >= mainTip,
             l = "head" => mainOk[r],
             l = "recheck" => ci[snap[r].head] = "success"
      PROVE  CalmInv'
  <2>1. /\ pc'[r] = l /\ snap' = snap /\ head' = head /\ mainTip' = mainTip /\ ci' = ci
        /\ reviews' = reviews /\ mainCi' = mainCi /\ mainOk' = mainOk
        /\ pending' = pending
    BY <1>1, <1>3 DEF Goto, IInv, TypeOK, world, hist
  <2>2. KeepsHead(r)'
    BY <1>1, <1>3, <2>1 DEF CalmRun, KeepsHead
  <2>3. KeepsTip(r)'
    BY <1>1, <1>3, <2>1, UpToDate DEF CalmRun, KeepsTip, PastApproval
  <2>4. Learned(r)'
    BY <1>1, <1>3, <2>1 DEF CalmRun, Learned, PastApproval, MainFine
  <2> QED BY <1>1, <1>3, <2>2, <2>3, <2>4, GotoCalm DEF CalmRun
<1>4. CASE GetRepository(r) \/ CheckStatuses(r) \/ ValidateApproveCommentsAndChecks(r)
           \/ ValidateMergeCommentsAndChecks(r)
  BY <1>2, <1>3, <1>4 DEF GetRepository, CheckStatuses, ValidateApproveCommentsAndChecks,
                          ValidateMergeCommentsAndChecks, ValidateChecks, Refuse, Comment, Panic
<1>5. CASE IsOutOfDate(r)
  BY <1>2, <1>3, <1>5 DEF IsOutOfDate
<1>6. CASE WaitForPRChecksToPassMain(r)
  <2>1. mainCi[snap[r].head.base] \in {"none", "success"} => mainOk[r]
    <3>1. pc[r] = "main" /\ snap[r] \in Snapshots
      BY <1>6 DEF WaitForPRChecksToPassMain, IInv, RunInv, KeepsPullRequest, HasSnapshot
    <3>2. snap[r].head.base = mainTip
      BY <1>1, <3>1, ReviewAssumption DEF CalmRun, KeepsTip, PastApproval
    <3> QED BY <1>1, <3>1, <3>2 DEF CalmRun, Learned, MainFine, PastApproval
  <2> QED BY <1>2, <1>3, <1>6, <2>1 DEF WaitForPRChecksToPassMain, Refuse, Comment
<1>7. CASE WaitForPRChecksToPass(r)
  BY <1>2, <1>3, <1>7 DEF WaitForPRChecksToPass, NoRunsYet, Refuse, Comment, Calm
<1> QED BY <1>4, <1>5, <1>6, <1>7


LEMMA AddRebaseCommentCalm ==
  ASSUME IInv, CalmInv, NEW r \in Runs, AddRebaseComment(r)
  PROVE  CalmInv'
<1> DEFINE p == prOf[r]
<1>1. pc[r] = "update" /\ Busy(r) /\ CalmRun(r) /\ p \in PRs
  BY RunHasPR DEF AddRebaseComment, Busy, CalmInv
<1>2. CASE Refuse(r)
  BY <1>1, <1>2, StopCalm DEF Refuse, Comment
<1>3. CASE /\ head[p].base < mainTip /\ pending' = [pending EXCEPT ![p] = TRUE]
           /\ Goto(r, "rebase")
           /\ UNCHANGED <<head, state, pol, ci, reruns, reviews, mainTip, mainCi, hist>>
  <2>1. pc'[r] = "rebase" /\ snap' = snap /\ mainOk' = mainOk
    BY <1>3 DEF Goto, IInv, TypeOK, hist
  <2>2. pending'[p] /\ \A q \in PRs \ {p} : pending'[q] = pending[q]
    BY <1>1, <1>3 DEF IInv, TypeOK
  <2>3. KeepsHead(r)'
    BY <1>1, <1>3, <2>1, <2>2 DEF CalmRun, KeepsHead
  <2>4. KeepsTip(r)'
    BY <2>1 DEF KeepsTip, PastApproval
  <2>5. Learned(r)'
    BY <1>1, <1>3, <2>1 DEF CalmRun, Learned, PastApproval, Busy
  <2>6. \A q \in PRs : PullRequestInv(q)'
    <3>1. \A q \in PRs \ {p} : PullRequestInv(q)'
      BY <1>3, <2>2, PullRequestLeftAlone DEF CalmInv
    <3>2. PullRequestInv(p)'
      BY <1>1, <1>3 DEF CalmInv, PullRequestInv
    <3> QED BY <3>1, <3>2
  <2> QED BY <1>1, <1>3, <2>3, <2>4, <2>5, <2>6, OthersCalm DEF CalmInv, CalmRun
<1> QED BY <1>2, <1>3 DEF AddRebaseComment

\* An open pull request whose wait is over has been moved onto the tip.
LEMMA WaitForRebaseCalm ==
  ASSUME IInv, Calm, CalmInv, NEW r \in Runs, WaitForRebase(r)
  PROVE  CalmInv'
<1> DEFINE p == prOf[r]
           Keep(s) == /\ snap' = [snap EXCEPT ![r] = s]
                      /\ pc'   = [pc EXCEPT ![r] = "status"]
                      /\ UNCHANGED <<orig, cur, outcome>>
<1>1. pc[r] = "rebase" /\ UNCHANGED <<world, hist>> /\ Busy(r) /\ CalmRun(r)
  BY DEF WaitForRebase, Busy, CalmInv
<1>2. CASE Stop(r, "closed")
  BY <1>1, <1>2, StopCalm
<1>3. ASSUME NEW s, Keep(s), s = None \/ (s = Live(p) /\ head[p].base = mainTip)
      PROVE  CalmInv'
  <2>1. /\ pc'[r] = "status" /\ snap'[r] = s /\ head' = head /\ mainTip' = mainTip
        /\ mainCi' = mainCi /\ mainOk' = mainOk
    BY <1>1, <1>3 DEF IInv, TypeOK, world, hist
  <2>2. CalmRun(r)'
    BY <1>1, <1>3, <2>1 DEF CalmRun, KeepsHead, KeepsTip, Learned, PastApproval, Busy, Live
  <2>3. \A q \in PRs : PullRequestInv(q)'
    BY <1>1, PullRequestLeftAlone DEF CalmInv, world
  <2> QED BY <1>1, <1>3, <2>2, <2>3, OthersCalm DEF CalmInv
<1>4. CASE Keep(None)
  BY <1>3, <1>4
<1>5. CASE state[p] = "open" /\ Keep(Live(p)) /\ (head[p] # snap[r].head \/ RebaseExpires(p))
  <2>1. head[p].base = mainTip
    BY <1>1, <1>5 DEF CalmRun, KeepsHead, RebaseExpires, Calm
  <2> QED BY <1>3, <1>5, <2>1
<1>6. state[p] = "open" \/ state[p] # "open"
  OBVIOUS
<1> QED BY <1>2, <1>4, <1>5, <1>6 DEF WaitForRebase, Live

LEMMA WaitForStatusChecksCalm ==
  ASSUME IInv, CalmInv, NEW r \in Runs, WaitForStatusChecks(r)
  PROVE  CalmInv'
<1>1. pc[r] = "status" /\ Busy(r) /\ CalmRun(r)
  BY DEF WaitForStatusChecks, Busy, CalmInv
<1>2. CASE Refuse(r)
  BY <1>1, <1>2, StopCalm DEF Refuse, Comment
<1>3. CASE pc' = [pc EXCEPT ![r] = "checks"] /\ UNCHANGED <<snap, orig, outcome, world, hist>>
  <2>1. /\ pc'[r] = "checks" /\ snap' = snap /\ head' = head /\ mainTip' = mainTip
        /\ mainCi' = mainCi /\ mainOk' = mainOk
    BY <1>3 DEF IInv, TypeOK, world, hist
  <2>2. CalmRun(r)'
    BY <1>1, <2>1 DEF CalmRun, KeepsHead, KeepsTip, Learned, PastApproval, Busy
  <2>3. \A q \in PRs : PullRequestInv(q)'
    BY <1>3, PullRequestLeftAlone DEF CalmInv, world
  <2> QED BY <1>1, <1>3, <2>2, <2>3, OthersCalm DEF CalmInv
<1> QED BY <1>2, <1>3 DEF WaitForStatusChecks

\* Where a run keeps the live head.
LEMMA LiveHead ==
  ASSUME IInv, CalmInv, NEW r \in Runs,
         pc[r] \in {"checks", "validate", "approve"} \cup PastApproval
  PROVE  snap[r] \in Snapshots /\ snap[r].head = head[prOf[r]] /\ head[prOf[r]].base = mainTip
<1>1. snap[r] \in Snapshots
  BY DEF IInv, RunInv, KeepsPullRequest, HasSnapshot, PastApproval
<1> QED BY <1>1, ReviewAssumption DEF CalmInv, CalmRun, KeepsTip

LEMMA ApprovePullRequestCalm ==
  ASSUME IInv, CalmInv, NEW r \in Runs, ApprovePullRequest(r)
  PROVE  CalmInv'
<1> DEFINE p == prOf[r]
           v == [by |-> r, head |-> head[p]]
<1>1. pc[r] = "approve" /\ Busy(r) /\ CalmRun(r) /\ p \in PRs
  BY RunHasPR DEF ApprovePullRequest, Busy, CalmInv
<1>2. CASE Refuse(r)
  BY <1>1, <1>2, StopCalm DEF Refuse, Comment
<1>3. CASE ~Refuse(r)
  <2>1. /\ reviews' = [reviews EXCEPT ![p] = @ \cup {v}]
        /\ Goto(r, "main") \/ Comment(r)
        /\ mainOk' = [mainOk EXCEPT ![r] = MainFine]
        /\ UNCHANGED <<head, state, pol, pending, ci, mainTip, mainCi>>
    BY <1>3 DEF ApprovePullRequest
  <2>2. reviews'[p] = reviews[p] \cup {v} /\ \A q \in PRs \ {p} : reviews'[q] = reviews[q]
    BY <1>1, <2>1 DEF IInv, TypeOK
  <2>3. \A q \in PRs : PullRequestInv(q)'
    <3>1. \A q \in PRs \ {p} : PullRequestInv(q)'
      BY <2>1, <2>2, PullRequestLeftAlone DEF CalmInv
    <3>2. \A x \in reviews'[p] : x.head.base <= head[p].base
      BY <1>1, <2>2, NumbersAreNaturals DEF CalmInv, PullRequestInv, IInv
    <3>3. PullRequestInv(p)'
      BY <1>1, <2>1, <3>2 DEF CalmInv, PullRequestInv
    <3> QED BY <3>1, <3>3
  <2>4. CalmRun(r)'
    <3>1. CASE Comment(r)
      BY <3>1, IdleCalm DEF Comment, Stop, Busy, IInv, TypeOK
    <3>2. CASE Goto(r, "main")
      <4>1. pc'[r] = "main" /\ snap' = snap /\ mainOk'[r] = MainFine /\ MainFine' = MainFine
        BY <2>1, <3>2 DEF Goto, IInv, TypeOK, MainFine
      <4>2. snap[r].head = head[p] /\ head[p].base = mainTip
        BY <1>1, LiveHead
      <4> QED BY <1>1, <2>1, <2>2, <4>1, <4>2
              DEF CalmRun, KeepsHead, KeepsTip, Learned, PastApproval
    <3> QED BY <2>1, <3>1, <3>2
  <2> QED BY <1>1, <2>1, <2>3, <2>4, OthersCalm DEF CalmInv, Comment
<1> QED BY <1>2, <1>3

LEMMA MergePullRequestCalm ==
  ASSUME IInv, CalmInv, NEW r \in Runs, MergePullRequest(r)
  PROVE  CalmInv'
<1>1. pc[r] = "merge" /\ Busy(r)
  BY DEF MergePullRequest, Busy
<1>2. CASE Refuse(r)
  BY <1>1, <1>2, StopCalm DEF Refuse, Comment
<1>3. CASE ~Refuse(r)
  <2>1. /\ mainTip' = mainTip + 1 /\ Stop(r, "merged")
        /\ UNCHANGED <<head, pol, pending, ci, reviews, mainCi>>
    BY <1>3 DEF MergePullRequest
  <2>2. \A p \in PRs : head[p].base \in Nat /\ mainTip \in Nat
    BY NumbersAreNaturals DEF IInv
  <2>3. \A p \in PRs : PullRequestInv(p)'
    BY <2>1, <2>2 DEF CalmInv, PullRequestInv
  <2>4. CalmRun(r)'
    BY <2>1, IdleCalm DEF Stop, Busy, IInv, TypeOK
  <2> QED BY <1>1, <2>1, <2>3, <2>4, OthersCalm DEF CalmInv
<1> QED BY <1>2, <1>3


-----------------------------------------------------------------------------
(* GitHub and the people                                                      *)

\* The branch moves onto the tip: a head that nobody has seen.
LEMMA UpdateBranchCalm ==
  ASSUME IInv, CalmInv, NEW p \in PRs, UpdateBranch(p)
  PROVE  CalmInv'
<1> DEFINE h == [head[p] EXCEPT !.base = mainTip]
<1>1. /\ head' = [head EXCEPT ![p] = h]
      /\ ci' = [ci EXCEPT ![h] = IF @ = "absent" THEN "none" ELSE @]
      /\ pending' = [pending EXCEPT ![p] = FALSE]
      /\ UNCHANGED <<state, pol, reviews, mainTip, mainCi, run, hist>>
  BY DEF UpdateBranch, Move
<1>2. head[p] \in Heads /\ head[p].base < mainTip /\ PullRequestInv(p) /\ pending[p]
  BY NumbersAreNaturals DEF UpdateBranch, CalmInv, PullRequestInv, IInv
<1>3. h \in Heads /\ h.pr = p /\ h.base = mainTip
  BY <1>2 DEF Heads, IInv, TypeOK, PullRequestInv
<1>4. /\ head'[p] = h /\ ~pending'[p]
      /\ \A q \in PRs \ {p} : head'[q] = head[q] /\ pending'[q] = pending[q]
      /\ \A g \in Heads : g # h => ci'[g] = ci[g]
  BY <1>1 DEF IInv, TypeOK
<1>5. \A q \in PRs : PullRequestInv(q)'
  <2>1. ASSUME NEW q \in PRs \ {p} PROVE PullRequestInv(q)'
    <3>1. \A g \in Heads : g.pr = q => ci'[g] = ci[g]
      BY <1>3, <1>4
    <3> QED BY <1>1, <1>4, <3>1 DEF CalmInv, PullRequestInv
  <2>2. PullRequestInv(p)'
    <3>1. \A v \in reviews[p] : v.head.base <= mainTip
      BY <1>2, NumbersAreNaturals DEF PullRequestInv, IInv
    <3>2. ASSUME NEW g \in Heads, g.pr = p, g.base > mainTip PROVE ci'[g] = "absent"
      <4>1. g.base \in Nat /\ mainTip \in Nat /\ head[p].base \in Nat
        BY <1>2, NumbersAreNaturals DEF IInv
      <4>2. g.base > head[p].base
        BY <1>2, <3>2, <4>1
      <4>3. g # h
        <5> HIDE DEF h
        <5> QED BY <1>3, <3>2, <4>1
      <4> QED BY <1>2, <1>4, <3>2, <4>2, <4>3 DEF PullRequestInv
    <3>3. mainTip <= mainTip
      BY NumbersAreNaturals DEF IInv
    <3> QED BY <1>1, <1>3, <1>4, <3>1, <3>2, <3>3 DEF PullRequestInv
  <2> QED BY <2>1, <2>2
<1>6. \A q \in Runs : CalmRun(q)'
  <2> SUFFICES ASSUME NEW q \in Runs PROVE CalmRun(q)'
    OBVIOUS
  <2>1. /\ pc' = pc /\ snap' = snap /\ mainOk' = mainOk
        /\ reviews' = reviews /\ mainTip' = mainTip /\ mainCi' = mainCi
    BY <1>1 DEF run, hist
  <2>2. snap[q] # None => (ci[snap[q].head] = "success" => ci'[snap[q].head] = "success")
    BY <1>1, <1>4, NumbersAreNaturals DEF IInv, TypeOK
  <2>3. CASE prOf[q] # p
    <3>1. pc[q] \in {"recheck", "merge"} => snap[q] # None
      BY ReviewAssumption DEF IInv, RunInv, KeepsPullRequest, HasSnapshot
    <3>2. KeepsHead(q)' /\ KeepsTip(q)'
      BY <1>4, <2>1, <2>3, RunHasPR DEF CalmInv, CalmRun, KeepsHead, KeepsTip
    <3>3. Learned(q)'
      BY <2>1, <2>2, <3>1 DEF CalmInv, CalmRun, Learned, MainFine
    <3> QED BY <3>2, <3>3 DEF CalmRun
  <2>4. CASE prOf[q] = p
    <3>1. head[p].base < mainTip /\ head'[p].base = mainTip /\ head[p].base \in Nat
          /\ mainTip \in Nat
      BY <1>2, <1>3, <1>4, NumbersAreNaturals DEF IInv
    <3>2. KeepsHead(q)'
      BY <2>1, <2>4, <3>1 DEF CalmInv, CalmRun, KeepsHead
    <3>3. pc[q] \notin {"checks", "validate", "approve"} \cup PastApproval
      BY <2>4, <3>1, LiveHead
    <3>4. KeepsTip(q)'
      BY <2>1, <2>4, <3>1, <3>3 DEF CalmInv, CalmRun, KeepsTip
    <3>5. Learned(q)'
      BY <2>1, <3>3 DEF CalmInv, CalmRun, Learned, PastApproval
    <3> QED BY <3>2, <3>4, <3>5 DEF CalmRun
  <2> QED BY <2>3, <2>4
<1>7. OneAtATime'
  BY <1>1 DEF CalmInv, OneAtATime, Busy, run
<1> QED BY <1>5, <1>6, <1>7 DEF CalmInv

\* Nobody pushes under Calm, and what the others do takes nothing back.
LEMMA EnvironmentCalm ==
  ASSUME IInv, Calm, CalmInv, Environment
  PROVE  CalmInv'
<1>1. CASE \E p \in PRs : UpdateBranch(p)
  BY <1>1, UpdateBranchCalm
<1>2. ASSUME UNCHANGED <<head, pending, reviews, mainTip, run>>,
             \A h \in Heads : /\ ci[h] = "absent" => ci'[h] = "absent"
                              /\ ci[h] = "success" => ci'[h] = "success",
             UNCHANGED <<mainCi, mainOk>> \/ SeeMain
      PROVE  CalmInv'
  <2>1. pc' = pc /\ snap' = snap
    BY <1>2 DEF run
  <2>2. \A p \in PRs : PullRequestInv(p)'
    BY <1>2, PullRequestLeftAlone DEF CalmInv
  <2>3. ASSUME NEW q \in Runs PROVE CalmRun(q)'
    <3>1. CASE snap[q] # None
      <4>1. snap[q].head \in Heads
        BY <3>1, NumbersAreNaturals DEF IInv
      <4> QED BY <1>2, <2>1, <4>1, LeftAlone DEF CalmInv
    <3>2. CASE snap[q] = None
      <4>1. pc[q] \notin {"recheck", "merge"} \cup PastApproval
        BY <3>2, ReviewAssumption DEF IInv, RunInv, KeepsPullRequest, HasSnapshot, PastApproval
      <4> QED BY <1>2, <2>1, <4>1 DEF CalmInv, CalmRun, KeepsHead, KeepsTip, Learned, PastApproval
    <3> QED BY <3>1, <3>2
  <2>4. OneAtATime'
    BY <2>1 DEF CalmInv, OneAtATime, Busy
  <2> QED BY <2>2, <2>3, <2>4 DEF CalmInv
<1>3. ASSUME NEW p \in PRs PROVE ~AuthorPush(p)
  BY NumbersAreNaturals DEF AuthorPush, Calm, IInv
<1>4. ~PushToMain
  BY NumbersAreNaturals DEF PushToMain, Calm, IInv
<1>5. ASSUME NEW p \in PRs, ClosePullRequest(p) \/ Relabel(p) PROVE CalmInv'
  BY <1>2, <1>5 DEF ClosePullRequest, Relabel, hist
<1>6. ASSUME NEW h \in Heads, StartCI(h) \/ FinishCI(h) \/ RerunCI(h) PROVE CalmInv'
  <2>1. ci[h] \notin {"absent", "success"} /\ \A g \in Heads \ {h} : ci'[g] = ci[g]
    BY <1>6, ReviewAssumption DEF StartCI, FinishCI, RerunCI, Calm, IInv, TypeOK
  <2> QED BY <1>2, <1>6, <2>1 DEF StartCI, FinishCI, RerunCI, hist
<1>7. CASE ProgressMainCI
  BY <1>2, <1>7 DEF ProgressMainCI
<1> QED BY <1>1, <1>3, <1>4, <1>5, <1>6, <1>7 DEF Environment

LEMMA InitCalm == Init => CalmInv
<1> SUFFICES ASSUME Init PROVE CalmInv
  OBVIOUS
<1>1. OneAtATime /\ \A r \in Runs : CalmRun(r)
  BY DEF Init, OneAtATime, CalmRun, KeepsHead, KeepsTip, Learned, Busy, PastApproval
<1>2. ASSUME NEW p \in PRs PROVE PullRequestInv(p)
  <2>1. \A h \in Heads : h.base > 0 => ci[h] = "absent"
    BY DEF Init, Heads
  <2> QED BY <2>1 DEF Init, PullRequestInv
<1> QED BY <1>1, <1>2 DEF CalmInv

LEMMA NextCalm ==
  ASSUME IInv, Calm, CalmInv, [Next]_vars
  PROVE  CalmInv'
<1>1. ASSUME NEW r \in Runs, Review(r) PROVE CalmInv'
  BY <1>1, GetPullRequestCalm, ReadingCalm, AddRebaseCommentCalm, WaitForRebaseCalm,
     WaitForStatusChecksCalm, ApprovePullRequestCalm, MergePullRequestCalm DEF Review
<1>2. CASE UNCHANGED vars
  BY <1>2 DEF vars, world, run, hist, CalmInv, OneAtATime, PullRequestInv, CalmRun, KeepsHead,
              KeepsTip, Learned, MainFine, Busy
<1> QED BY <1>1, <1>2, StartCalm, EnvironmentCalm DEF Next


-----------------------------------------------------------------------------
(* The train                                                                  *)

TrainBase     == [p \in PRs |-> head[p].base]
TrainPassed   == [p \in PRs |-> ci[head[p]] = "success"]
TrainApproved == [p \in PRs |-> \E v \in reviews[p] : v.head = head[p]]

LEMMA InitTrain == Init => Train!Init
<1> SUFFICES ASSUME Init PROVE Train!Init
  OBVIOUS
<1>1. \A p \in PRs : head[p] \in Heads /\ head[p].base = 0 /\ ci[head[p]] = "none" /\ reviews[p] = {}
  BY ReviewAssumption DEF Init, Heads
<1> QED BY <1>1 DEF Init, Train!Init

\* A step that changes no head, state, tip, approval or success is a stutter.
LEMMA TrainStutters ==
  ASSUME UNCHANGED <<head, state, mainTip, reviews>>,
         \A p \in PRs : ci[head[p]] = "success" <=> ci'[head[p]] = "success"
  PROVE  UNCHANGED Train!vars
  BY DEF Train!vars


LEMMA RebaseTrain ==
  ASSUME IInv, CalmInv, NEW p \in PRs, UpdateBranch(p)
  PROVE  Train!Rebase(p)
<1> DEFINE h == [head[p] EXCEPT !.base = mainTip]
<1>1. /\ state[p] = "open" /\ pending[p]
      /\ head' = [head EXCEPT ![p] = h]
      /\ ci' = [ci EXCEPT ![h] = IF @ = "absent" THEN "none" ELSE @]
      /\ UNCHANGED <<state, reviews, mainTip>>
  BY DEF UpdateBranch, Move
<1>2. head[p] \in Heads /\ head[p].base < mainTip /\ PullRequestInv(p)
  BY <1>1, NumbersAreNaturals DEF CalmInv, PullRequestInv, IInv
<1>3. h \in Heads /\ h.pr = p /\ h.base = mainTip
  BY <1>2 DEF Heads, IInv, TypeOK, PullRequestInv
<1> HIDE DEF h
<1>4. /\ head'[p] = h /\ \A q \in PRs \ {p} : head'[q] = head[q]
      /\ \A g \in Heads : g # h => ci'[g] = ci[g]
  BY <1>1 DEF IInv, TypeOK
<1>5. ci'[h] # "success"
  <2>1. mainTip > head[p].base
    BY <1>2, NumbersAreNaturals DEF IInv
  <2>2. ci[h] = "absent"
    BY <1>2, <1>3, <2>1 DEF PullRequestInv
  <2> QED BY <1>1, <1>3, <2>2 DEF IInv, TypeOK
<1>6. ~ \E v \in reviews[p] : v.head = h
  <2> SUFFICES ASSUME NEW v \in reviews[p], v.head = h PROVE FALSE
    OBVIOUS
  <2>1. h.base <= head[p].base
    BY <1>2 DEF PullRequestInv
  <2> QED BY <1>2, <1>3, <2>1, NumbersAreNaturals DEF IInv
<1>7. ASSUME NEW q \in PRs \ {p} PROVE head[q] # h /\ ci'[head[q]] = ci[head[q]]
  <2>1. head[q] \in Heads /\ head[q].pr = q
    BY NumbersAreNaturals DEF CalmInv, PullRequestInv, IInv
  <2> QED BY <1>3, <1>4, <2>1
<1>8. [q \in PRs |-> head'[q].base] = [TrainBase EXCEPT ![p] = mainTip]
  BY <1>3, <1>4 DEF TrainBase
<1>9. [q \in PRs |-> ci'[head'[q]] = "success"] = [TrainPassed EXCEPT ![p] = FALSE]
  <2>1. ci'[head'[p]] # "success"
    BY <1>4, <1>5
  <2>2. \A q \in PRs \ {p} : ci'[head'[q]] = ci[head[q]]
    BY <1>4, <1>7
  <2> QED BY <2>1, <2>2 DEF TrainPassed
<1>10. [q \in PRs |-> \E v \in reviews[q] : v.head = head'[q]] = [TrainApproved EXCEPT ![p] = FALSE]
  BY <1>4, <1>6 DEF TrainApproved
<1>11. TrainBase[p] < mainTip
  BY <1>2 DEF TrainBase
<1> QED BY <1>1, <1>8, <1>9, <1>10, <1>11 DEF Train!Rebase, TrainBase, TrainPassed, TrainApproved

LEMMA PassTrain ==
  ASSUME IInv, Calm, CalmInv, NEW h \in Heads, StartCI(h) \/ FinishCI(h) \/ RerunCI(h)
  PROVE  [Train!Next]_Train!vars
<1>1. /\ UNCHANGED <<head, state, mainTip, reviews>>
      /\ ci[h] # "success" /\ \A g \in Heads \ {h} : ci'[g] = ci[g]
  BY DEF StartCI, FinishCI, RerunCI, Calm, IInv, TypeOK
<1>2. \A q \in PRs : head[q] \in Heads /\ head[q].pr = q
  BY NumbersAreNaturals DEF CalmInv, PullRequestInv, IInv
<1>3. CASE \E p \in PRs : head[p] = h /\ ci'[h] = "success"
  <2> PICK p \in PRs : head[p] = h /\ ci'[h] = "success"
    BY <1>3
  <2>1. \A q \in PRs \ {p} : head[q] # h
    BY <1>2
  <2>2. [q \in PRs |-> ci'[head'[q]] = "success"] = [TrainPassed EXCEPT ![p] = TRUE]
    BY <1>1, <1>2, <2>1 DEF TrainPassed
  <2>3. Train!Pass(p)
    BY <1>1, <2>2 DEF Train!Pass, TrainPassed
  <2> QED BY <2>3 DEF Train!Next
<1>4. CASE ~ \E p \in PRs : head[p] = h /\ ci'[h] = "success"
  BY <1>1, <1>2, <1>4, TrainStutters
<1> QED BY <1>3, <1>4

LEMMA ApproveTrain ==
  ASSUME IInv, CalmInv, NEW r \in Runs, ApprovePullRequest(r), ~Refuse(r)
  PROVE  Train!Approve(prOf[r])
<1> DEFINE p == prOf[r]
           v == [by |-> r, head |-> head[p]]
<1>1. /\ pc[r] = "approve" /\ p \in PRs
      /\ reviews' = [reviews EXCEPT ![p] = @ \cup {v}]
      /\ UNCHANGED <<head, state, ci, mainTip>>
  BY RunHasPR DEF ApprovePullRequest
<1>2. reviews'[p] = reviews[p] \cup {v} /\ \A q \in PRs \ {p} : reviews'[q] = reviews[q]
  BY <1>1 DEF IInv, TypeOK
<1>3. TrainBase[p] = mainTip
  BY <1>1, LiveHead DEF TrainBase
<1>4. \E x \in reviews'[p] : x.head = head[p]
  <2>1. v \in reviews'[p] /\ v.head = head[p]
    BY <1>2
  <2> QED BY <2>1
<1>5. [q \in PRs |-> \E x \in reviews'[q] : x.head = head'[q]] = [TrainApproved EXCEPT ![p] = TRUE]
  BY <1>1, <1>2, <1>4 DEF TrainApproved
<1> QED BY <1>1, <1>3, <1>5 DEF Train!Approve, TrainBase, TrainApproved

LEMMA MergeTrainStep ==
  ASSUME IInv, CalmInv, NEW r \in Runs, MergePullRequest(r), ~Refuse(r)
  PROVE  Train!Merge(prOf[r])
<1> DEFINE p == prOf[r]
<1>1. /\ pc[r] = "merge" /\ p \in PRs /\ state[p] = "open"
      /\ state' = [state EXCEPT ![p] = "merged"] /\ mainTip' = mainTip + 1
      /\ UNCHANGED <<head, ci, reviews>>
  BY RunHasPR DEF MergePullRequest
<1>2. snap[r].head = head[p] /\ head[p].base = mainTip
  BY <1>1, LiveHead DEF PastApproval
<1>3. ci[head[p]] = "success" /\ \E v \in reviews[p] : v.head = head[p]
  <2>1. ci[head[p]] = "success" /\ [by |-> r, head |-> head[p]] \in reviews[p]
    BY <1>1, <1>2 DEF CalmInv, CalmRun, Learned, PastApproval
  <2> QED BY <2>1
<1> QED BY <1>1, <1>2, <1>3 DEF Train!Merge


LEMMA ReviewTrain ==
  ASSUME IInv, CalmInv, NEW r \in Runs, Start(r) \/ Review(r)
  PROVE  [Train!Next]_Train!vars
<1>1. CASE ApprovePullRequest(r) /\ ~Refuse(r)
  BY <1>1, ApproveTrain, RunHasPR DEF Train!Next
<1>2. CASE MergePullRequest(r) /\ ~Refuse(r)
  BY <1>2, MergeTrainStep, RunHasPR DEF Train!Next
<1>3. CASE UNCHANGED <<head, state, mainTip, reviews, ci>>
  BY <1>3, TrainStutters
<1>4. CASE Refuse(r)
  BY <1>3, <1>4 DEF Refuse, world
<1>5. CASE AddRebaseComment(r)
  BY <1>3, <1>4, <1>5 DEF AddRebaseComment
<1>6. CASE Panic(r)
  BY <1>3, <1>6 DEF Panic, world
<1>7. CASE CheckStatuses(r) \/ ValidateApproveCommentsAndChecks(r)
           \/ ValidateMergeCommentsAndChecks(r)
  BY <1>3, <1>4, <1>6, <1>7 DEF CheckStatuses, ValidateApproveCommentsAndChecks,
     ValidateMergeCommentsAndChecks, ValidateChecks, world
<1>8. CASE Start(r) \/ GetPullRequest(r) \/ GetRepository(r) \/ IsOutOfDate(r)
           \/ WaitForRebase(r)
  BY <1>3, <1>8 DEF Start, GetPullRequest, GetRepository, IsOutOfDate, WaitForRebase, world
<1>9. CASE WaitForStatusChecks(r) \/ WaitForPRChecksToPassMain(r) \/ WaitForPRChecksToPass(r)
  BY <1>3, <1>4, <1>9 DEF WaitForStatusChecks, WaitForPRChecksToPassMain,
     WaitForPRChecksToPass, world
<1> QED BY <1>1, <1>2, <1>4, <1>5, <1>7, <1>8, <1>9 DEF Review

LEMMA EnvironmentTrain ==
  ASSUME IInv, Calm, CalmInv, Environment
  PROVE  [Train!Next]_Train!vars
<1>1. ASSUME NEW p \in PRs, UpdateBranch(p) PROVE [Train!Next]_Train!vars
  BY <1>1, RebaseTrain DEF Train!Next
<1>2. ASSUME NEW h \in Heads, StartCI(h) \/ FinishCI(h) \/ RerunCI(h) PROVE [Train!Next]_Train!vars
  BY <1>2, PassTrain
<1>3. ASSUME NEW p \in PRs, ClosePullRequest(p) PROVE [Train!Next]_Train!vars
  BY <1>3 DEF ClosePullRequest, Train!Close, Train!Next
<1>4. ASSUME NEW p \in PRs, Relabel(p) PROVE [Train!Next]_Train!vars
  BY <1>4, TrainStutters DEF Relabel
<1>5. ASSUME NEW p \in PRs PROVE ~AuthorPush(p)
  BY NumbersAreNaturals DEF AuthorPush, Calm, IInv
<1>6. ~PushToMain
  BY NumbersAreNaturals DEF PushToMain, Calm, IInv
<1>7. CASE ProgressMainCI
  BY <1>7, TrainStutters DEF ProgressMainCI
<1> QED BY <1>1, <1>2, <1>3, <1>4, <1>5, <1>6, <1>7 DEF Environment

LEMMA StepTrain ==
  ASSUME IInv, Calm, CalmInv, [Next]_vars
  PROVE  [Train!Next]_Train!vars
<1>1. CASE UNCHANGED vars
  BY <1>1, TrainStutters DEF vars, world
<1> QED BY <1>1, ReviewTrain, EnvironmentTrain DEF Next

-----------------------------------------------------------------------------
(* What holds of the reviews of a calm repository                             *)

\* The invariant under its assumptions, which are about constants only.
LEMMA CalmInvariance == Spec => [](IInv /\ (Calm => CalmInv))
<1>1. Init => IInv /\ (Calm => CalmInv)
  BY InitInv, InitCalm
<1>2. IInv /\ (Calm => CalmInv) /\ [Next]_vars => (IInv /\ (Calm => CalmInv))'
  <2> SUFFICES ASSUME IInv, Calm => CalmInv, [Next]_vars
               PROVE  IInv' /\ (Calm => CalmInv')
    BY DEF Calm
  <2>1. IInv'
    BY NextInv
  <2> QED BY <2>1, NextCalm
<1> QED BY <1>1, <1>2, PTL DEF Spec

\* Serial reviews and a prompt GitHub make a merge train of any number of pull
\* requests and runs: one merge at a time, each approved and tested on top of
\* everything merged before it.
THEOREM MergeTrainRefined == ASSUME Calm PROVE Spec => ImplementsMergeTrain
<1>1. Init => Train!Init
  BY InitTrain
<1>2. IInv /\ (Calm => CalmInv) /\ [Next]_vars => [Train!Next]_Train!vars
  BY StepTrain
<1> QED BY <1>1, <1>2, CalmInvariance, PTL DEF Spec, Train!Spec, ImplementsMergeTrain

\* A run merges the very head it approved.
THEOREM ApprovedAsMerged == ASSUME Calm PROVE Spec => MergedIsApproved
<1> DEFINE A == \A r \in Runs : outcome[r] = None /\ outcome'[r] = "merged"
                  => [by |-> r, head |-> head[prOf[r]]] \in reviews[prOf[r]]
<1>1. IInv /\ (Calm => CalmInv) /\ [Next]_vars => [A]_vars
  <2> SUFFICES ASSUME IInv, CalmInv, [Next]_vars, NEW r \in Runs,
                      outcome[r] = None, outcome'[r] = "merged"
               PROVE  [by |-> r, head |-> head[prOf[r]]] \in reviews[prOf[r]]
    OBVIOUS
  <2>1. pc[r] = "merge"
    BY MergeStep
  <2>2. snap[r].head = head[prOf[r]]
    BY <2>1, LiveHead DEF PastApproval
  <2> QED BY <2>1, <2>2 DEF CalmInv, CalmRun, Learned, PastApproval
<1> QED BY <1>1, CalmInvariance, PTL DEF Spec, MergedIsApproved

\* A run merges only if the default branch had no failed and no unfinished
\* workflow at some moment between its approval and the merge, however often
\* workflows of the default branch fail and are run again.
THEOREM NeverOnRed == ASSUME Calm PROVE Spec => NothingOnRedMain
<1> DEFINE A == \A r \in Runs : outcome[r] = None /\ outcome'[r] = "merged" => mainOk[r]
<1>1. IInv /\ (Calm => CalmInv) /\ [Next]_vars => [A]_vars
  <2> SUFFICES ASSUME IInv, CalmInv, [Next]_vars, NEW r \in Runs,
                      outcome[r] = None, outcome'[r] = "merged"
               PROVE  mainOk[r]
    OBVIOUS
  <2>1. pc[r] = "merge"
    BY MergeStep
  <2> QED BY <2>1 DEF CalmInv, CalmRun, Learned
<1> QED BY <1>1, CalmInvariance, PTL DEF Spec, NothingOnRedMain

\* The head that is merged has passed its CI, if nobody pushes.
THEOREM GreenAtMerge == ASSUME Calm PROVE Spec => MergedIsGreen
<1> DEFINE A == \A p \in PRs : Merges(p) => ci[head[p]] = "success"
<1>1. IInv /\ (Calm => CalmInv) /\ [Next]_vars => [A]_vars
  <2> SUFFICES ASSUME IInv, CalmInv, [Next]_vars, NEW p \in PRs, Merges(p)
               PROVE  ci[head[p]] = "success"
    OBVIOUS
  <2> PICK r \in Runs : prOf[r] = p /\ pc[r] = "merge"
    BY MergeStep
  <2>1. snap[r].head = head[p]
    BY LiveHead DEF PastApproval
  <2> QED BY <2>1 DEF CalmInv, CalmRun, Learned
<1> QED BY <1>1, CalmInvariance, PTL DEF Spec, MergedIsGreen

=============================================================================
