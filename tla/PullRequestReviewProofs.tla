----------------------- MODULE PullRequestReviewProofs -----------------------
(* PullRequestReview for any pull requests, runs, configuration and bounds.   *)
(*                                                                            *)
(* The argument.  What a run keeps of its pull request was fetched while the  *)
(* run was under way, so the policy in it held at some moment of the run      *)
(* (KeepsWhatHeld).  The run gets past a gate only when the gate's condition  *)
(* is in what it keeps (PassedGates), and it gets to the merge only past the  *)
(* gates of both config sections and its own approval.                        *)
EXTENDS PullRequestReview, TLAPS

\* Where a run is sure to keep a pull request, and where it has passed a gate.
HasSnapshot  == {"repo", "compare", "update", "rebase", "checks", "validate",
                 "approve", "main", "head", "recheck", "merge"}
PastApprove  == {"compare", "update", "rebase", "status", "checks", "validate",
                 "approve", "main", "head", "recheck", "merge"}

\* What is known of one run: it keeps a pull request from its first fetch to
\* its end and nothing before, the policy in what it keeps held at some moment
\* since it began, and it has what the gates behind it ask for.
KeepsPullRequest(r) ==
  /\ pc[r] \in HasSnapshot => snap[r] \in Snapshots
  /\ pc[r] \in PastApprove \cup {"repo"} => orig[r] \in Snapshots
  /\ pc[r] = "checks" => cur[r] \in Heads
  /\ pc[r] = "idle" => snap[r] = None /\ orig[r] = None

KeepsWhatHeld(r) ==
  Busy(r) => /\ pol[prOf[r]] \subseteq everOk[r]
             /\ snap[r] # None => snap[r].pol \subseteq everOk[r]
             /\ orig[r] # None => orig[r].pol \subseteq everOk[r]

PassedGates(r) ==
  /\ pc[r] \in PastApprove => "Approve" \in everOk[r]
  /\ pc[r] \in PastApproval => /\ "Merge" \in everOk[r]
                               /\ \E v \in reviews[prOf[r]] : v.by = r

RunInv(r) == KeepsPullRequest(r) /\ KeepsWhatHeld(r) /\ PassedGates(r)

IInv == TypeOK /\ \A r \in Runs : RunInv(r)

-----------------------------------------------------------------------------
(* Type correctness                                                           *)

LEMMA RunHasPR == \A r \in Runs : prOf[r] \in PRs
  BY ReviewAssumption

LEMMA NoneIsNoOutcome ==
  None \notin {"silent", "told", "unheard", "closed", "merged", "panic"}
  BY ReviewAssumption DEF Outcomes

LEMMA InitType == Init => TypeOK
  BY ReviewAssumption DEF Init, TypeOK, Heads, CI

\* The history of the default branch keeps its type.
LEMMA SeeMainType ==
  ASSUME TypeOK, SeeMain
  PROVE  mainOk' \in [Runs -> BOOLEAN]
<1>1. \A r \in Runs : (mainOk[r] \/ (pc[r] \in PastApproval /\ MainFine')) \in BOOLEAN
  OBVIOUS
<1> QED BY <1>1 DEF SeeMain

\* The two ways a run moves on, and a branch that moves, keep the types.
LEMMA RunTypes ==
  ASSUME TypeOK, NEW r \in Runs,
         \/ \E how \in Outcomes : Stop(r, how)
         \/ \E l \in {"get", "compare", "update", "rebase", "status", "validate", "approve",
                     "main", "head", "recheck", "merge"} : Goto(r, l)
  PROVE  /\ pc' \in [Runs -> {"idle", "get", "repo", "compare", "update", "rebase", "status",
                      "checks", "validate", "approve", "main", "head", "recheck",
                      "merge", "end"}]
         /\ snap'    \in [Runs -> Snapshots \cup {None}]
         /\ orig'    \in [Runs -> Snapshots \cup {None}]
         /\ cur'     \in [Runs -> Heads \cup {None}]
         /\ outcome' \in [Runs -> Outcomes \cup {None}]
<1>1. CASE \E how \in Outcomes : Stop(r, how)
  BY <1>1 DEF Stop, TypeOK
<1>2. CASE \E l \in {"get", "compare", "update", "rebase", "status", "validate", "approve",
                   "main", "head", "recheck", "merge"} : Goto(r, l)
  BY <1>2 DEF Goto, TypeOK
<1> QED BY <1>1, <1>2

\* The outcomes that end a run somewhere, and the two of a comment.
LEMMA OutcomesKnown ==
  /\ {"silent", "told", "unheard", "closed", "merged", "panic"} \subseteq Outcomes
  /\ \A r \in Runs : Comment(r) => \E how \in Outcomes : Stop(r, how)
  BY DEF Outcomes, Comment

LEMMA MoveTypes ==
  ASSUME TypeOK, NEW p \in PRs, NEW h \in Heads, Move(p, h)
  PROVE  head' \in [PRs -> Heads] /\ ci' \in [Heads -> CI \cup {"absent"}]
  BY DEF Move, TypeOK, CI

LEMMA NextType == TypeOK /\ [Next]_vars => TypeOK'
<1> SUFFICES ASSUME TypeOK, [Next]_vars PROVE TypeOK'
  OBVIOUS
<1> USE ReviewAssumption, OutcomesKnown
<1>1. ASSUME NEW r \in Runs, Start(r) PROVE TypeOK'
  <2>1. Goto(r, "get") /\ UNCHANGED world
    BY <1>1 DEF Start
  <2>2. everOk' \in [Runs -> SUBSET {"Approve", "Merge"}]
    <3>1. pol[prOf[r]] \in SUBSET {"Approve", "Merge"}
      <4>1. pol[prOf[r]] \in Policies
        BY RunHasPR DEF TypeOK
      <4> QED BY <4>1
    <3>2. everOk' = [everOk EXCEPT ![r] = pol[prOf[r]]]
      BY <1>1 DEF Start
    <3>3. everOk \in [Runs -> SUBSET {"Approve", "Merge"}]
      BY DEF TypeOK
    <3> QED BY <3>1, <3>2, <3>3
  <2>3. mainOk' = mainOk
    BY <1>1 DEF Start
  <2> QED BY <2>1, <2>2, <2>3, RunTypes DEF TypeOK, world
<1>2. ASSUME NEW r \in Runs, GetPullRequest(r) PROVE TypeOK'
  <2> DEFINE p == prOf[r]
  <2>1. CASE state[p] = "open" /\ snap' = [snap EXCEPT ![r] = Live(p)]
             /\ orig' = [orig EXCEPT ![r] = Live(p)] /\ pc' = [pc EXCEPT ![r] = "repo"]
             /\ UNCHANGED <<cur, outcome, world, hist>>
    <3>1. Live(p) \in Snapshots
      BY <2>1 DEF Live, Snapshots, TypeOK
    <3> QED BY <2>1, <3>1 DEF TypeOK, world, hist
  <2>2. CASE (Stop(r, "silent") \/ Stop(r, "closed")) /\ UNCHANGED <<world, hist>>
    BY <2>2, RunTypes DEF TypeOK, world, hist
  <2> QED BY <1>2, <2>1, <2>2 DEF GetPullRequest
<1>3. ASSUME NEW r \in Runs, GetRepository(r) \/ IsOutOfDate(r) PROVE TypeOK'
  BY <1>3, RunTypes DEF GetRepository, IsOutOfDate, TypeOK, world, hist
<1>4. ASSUME NEW r \in Runs, AddRebaseComment(r) PROVE TypeOK'
  <2>1. CASE Refuse(r)
    BY <2>1, RunTypes DEF Refuse, TypeOK, world, hist
  <2>2. CASE pending' = [pending EXCEPT ![prOf[r]] = TRUE] /\ Goto(r, "rebase")
             /\ UNCHANGED <<head, state, pol, ci, reruns, reviews, mainTip, mainCi, hist>>
    BY <2>2, RunTypes DEF TypeOK, hist
  <2> QED BY <1>4, <2>1, <2>2 DEF AddRebaseComment
<1>5. ASSUME NEW r \in Runs, WaitForRebase(r) PROVE TypeOK'
  <2> DEFINE Keep(s) == /\ snap' = [snap EXCEPT ![r] = s]
                        /\ pc'   = [pc EXCEPT ![r] = "status"]
                        /\ UNCHANGED <<orig, cur, outcome, world, hist>>
  <2>1. CASE Stop(r, "closed") /\ UNCHANGED <<world, hist>>
    BY <2>1, RunTypes DEF TypeOK, world, hist
  <2>2. CASE Keep(None)
    BY <2>2 DEF TypeOK, world, hist
  <2>3. CASE state[prOf[r]] = "open" /\ Keep(Live(prOf[r]))
    <3>1. Live(prOf[r]) \in Snapshots
      BY <2>3 DEF Live, Snapshots, TypeOK
    <3> QED BY <2>3, <3>1 DEF TypeOK, world, hist
  <2>4. state[prOf[r]] = "open" \/ state[prOf[r]] # "open"
    OBVIOUS
  <2> QED BY <1>5, <2>1, <2>2, <2>3, <2>4 DEF WaitForRebase, Live
<1>6. ASSUME NEW r \in Runs, WaitForStatusChecks(r) PROVE TypeOK'
  <2>1. CASE Refuse(r)
    BY <2>1, RunTypes DEF Refuse, TypeOK, world, hist
  <2>2. CASE cur' = [cur EXCEPT ![r] = head[prOf[r]]] /\ pc' = [pc EXCEPT ![r] = "checks"]
             /\ UNCHANGED <<snap, orig, outcome, world, hist>>
    BY <2>2 DEF TypeOK, world, hist
  <2> QED BY <1>6, <2>1, <2>2 DEF WaitForStatusChecks
<1>7. ASSUME NEW r \in Runs, CheckStatuses(r) PROVE TypeOK'
  <2>1. /\ UNCHANGED <<world, hist>>
        /\ \/ Comment(r) \/ Goto(r, "validate") \/ Goto(r, "status") \/ Stop(r, "panic")
    BY <1>7 DEF CheckStatuses, Refuse, Panic
  <2> QED BY <2>1, RunTypes DEF TypeOK, world, hist
<1>8. ASSUME NEW r \in Runs,
             ValidateApproveCommentsAndChecks(r) \/ ValidateMergeCommentsAndChecks(r)
      PROVE  TypeOK'
  <2>1. /\ UNCHANGED <<world, hist>>
        /\ \/ Comment(r) \/ Goto(r, "approve") \/ Goto(r, "merge") \/ Stop(r, "panic")
    BY <1>8 DEF ValidateApproveCommentsAndChecks, ValidateMergeCommentsAndChecks,
                ValidateChecks, Refuse, Panic
  <2> QED BY <2>1, RunTypes DEF TypeOK, world, hist
<1>9. ASSUME NEW r \in Runs, ApprovePullRequest(r) PROVE TypeOK'
  <2> DEFINE p == prOf[r]
  <2>1. CASE Refuse(r)
    BY <2>1, RunTypes DEF Refuse, TypeOK, world, hist
  <2>2. CASE /\ reviews' = [reviews EXCEPT ![p] = @ \cup {[by |-> r, head |-> head[p]]}]
             /\ Goto(r, "main") \/ Comment(r)
             /\ mainOk' = [mainOk EXCEPT ![r] = MainFine]
             /\ UNCHANGED <<head, state, pol, pending, ci, reruns, mainTip, mainCi, everOk>>
    <3>1. reviews' \in [PRs -> SUBSET [by : Runs, head : Heads]]
      BY <2>2 DEF TypeOK
    <3>2. mainOk' \in [Runs -> BOOLEAN]
      BY <2>2 DEF TypeOK, MainFine
    <3> QED BY <2>2, <3>1, <3>2, RunTypes DEF TypeOK
  <2> QED BY <1>9, <2>1, <2>2 DEF ApprovePullRequest
<1>10. ASSUME NEW r \in Runs, WaitForPRChecksToPassMain(r) \/ WaitForPRChecksToPass(r)
       PROVE  TypeOK'
  <2>1. /\ UNCHANGED <<world, hist>>
        /\ Comment(r) \/ Goto(r, "head") \/ Goto(r, "recheck")
    BY <1>10 DEF WaitForPRChecksToPassMain, WaitForPRChecksToPass, Refuse
  <2> QED BY <2>1, RunTypes DEF TypeOK, world, hist
<1>11. ASSUME NEW r \in Runs, MergePullRequest(r) PROVE TypeOK'
  <2>1. CASE Refuse(r)
    BY <2>1, RunTypes DEF Refuse, TypeOK, world, hist
  <2>2. CASE ~Refuse(r)
    <3>1. /\ state' = [state EXCEPT ![prOf[r]] = "merged"]
          /\ mainTip < MaxTip /\ mainTip' = mainTip + 1
          /\ Stop(r, "merged")
          /\ UNCHANGED <<head, pol, pending, ci, reruns, reviews, mainCi, everOk>>
          /\ SeeMain
      BY <1>11, <2>2 DEF MergePullRequest
    <3>2. mainTip' \in 0..MaxTip /\ state' \in [PRs -> {"open", "closed", "merged"}]
      BY <3>1 DEF TypeOK
    <3> QED BY <3>1, <3>2, SeeMainType, RunTypes DEF TypeOK
  <2> QED BY <2>1, <2>2
<1>12. ASSUME NEW p \in PRs, AuthorPush(p) PROVE TypeOK'
  <2>1. head[p] \in [pr : PRs, rev : 0..MaxRev, base : 0..MaxTip] /\ head[p].rev < MaxRev
    BY <1>12 DEF AuthorPush, TypeOK, Heads
  <2>2. head[p].rev + 1 \in 0..MaxRev
    BY <2>1
  <2>3. [head[p] EXCEPT !.rev = @ + 1] \in Heads
    BY <2>1, <2>2 DEF Heads
  <2> QED BY <1>12, <2>3, MoveTypes DEF AuthorPush, TypeOK, run, hist
<1>13. ASSUME NEW p \in PRs, UpdateBranch(p) PROVE TypeOK'
  <2>1. head[p] \in [pr : PRs, rev : 0..MaxRev, base : 0..MaxTip] /\ mainTip \in 0..MaxTip
    BY DEF TypeOK, Heads
  <2>2. [head[p] EXCEPT !.base = mainTip] \in Heads
    BY <2>1 DEF Heads
  <2> QED BY <1>13, <2>2, MoveTypes DEF UpdateBranch, TypeOK, run, hist
<1>14. ASSUME NEW p \in PRs, ClosePullRequest(p) PROVE TypeOK'
  BY <1>14 DEF ClosePullRequest, TypeOK, run, hist
<1>15. ASSUME NEW p \in PRs, Relabel(p) PROVE TypeOK'
  <2> PICK s \in Policies : /\ pol' = [pol EXCEPT ![p] = s]
                            /\ everOk' = [r \in Runs |-> IF Busy(r) /\ prOf[r] = p
                                                         THEN everOk[r] \cup s ELSE everOk[r]]
                            /\ UNCHANGED <<head, state, pending, ci, reruns, reviews, mainTip,
                                            mainCi, run, mainOk>>
    BY <1>15 DEF Relabel
  <2>1. everOk' \in [Runs -> SUBSET {"Approve", "Merge"}]
    <3>1. \A r \in Runs : everOk[r] \cup s \in SUBSET {"Approve", "Merge"}
      BY DEF TypeOK
    <3> QED BY <3>1 DEF TypeOK
  <2> QED BY <2>1 DEF TypeOK, run
<1>16. ASSUME NEW h \in Heads, StartCI(h) \/ FinishCI(h) \/ RerunCI(h) PROVE TypeOK'
  <2>1. PICK c \in {"running", "success", "failure"} : ci' = [ci EXCEPT ![h] = c]
    BY <1>16 DEF StartCI, FinishCI, RerunCI
  <2>2. c \in CI /\ ci \in [Heads -> CI \cup {"absent"}]
    BY DEF TypeOK, CI
  <2>3. ci' \in [Heads -> CI \cup {"absent"}]
    BY <2>1, <2>2
  <2>4. reruns' \in 0..MaxRerun
    BY <1>16 DEF StartCI, FinishCI, RerunCI, TypeOK
  <2> QED BY <1>16, <2>3, <2>4 DEF StartCI, FinishCI, RerunCI, TypeOK, run, hist
<1>17. CASE ProgressMainCI
  <2>1. ASSUME NEW t \in 0..MaxTip, NEW c \in CI, mainCi' = [mainCi EXCEPT ![t] = c]
        PROVE  mainCi' \in [0..MaxTip -> CI]
    BY <2>1 DEF TypeOK
  <2>2. mainCi' \in [0..MaxTip -> CI]
    <3>1. mainTip \in 0..MaxTip /\ \A t \in 0..mainTip : t \in 0..MaxTip
      BY DEF TypeOK
    <3>2. {"running", "success", "failure"} \subseteq CI
      BY DEF CI
    <3> QED BY <1>17, <2>1, <3>1, <3>2 DEF ProgressMainCI
  <2> QED BY <1>17, <2>2, SeeMainType DEF ProgressMainCI, TypeOK, run
<1>18. CASE PushToMain
  <2>1. mainTip' \in 0..MaxTip
    BY <1>18 DEF PushToMain, TypeOK
  <2> QED BY <1>18, <2>1, SeeMainType DEF PushToMain, TypeOK, run
<1>19. CASE UNCHANGED vars
  BY <1>19 DEF vars, world, run, hist, TypeOK
<1> QED BY <1>1, <1>2, <1>3, <1>4, <1>5, <1>6, <1>7, <1>8, <1>9, <1>10, <1>11, <1>12,
        <1>13, <1>14, <1>15, <1>16, <1>17, <1>18, <1>19 DEF Next, Review, Environment

\* Every variable of GitHub and of the runs keeps its type, for any pull
\* requests, runs, configuration and bounds.
THEOREM TypeCorrect == Spec => []TypeOK
  BY InitType, NextType, PTL DEF Spec

-----------------------------------------------------------------------------
(* The invariant of a run                                                     *)

\* A run is left alone by whatever keeps its variables and takes no approval back.
LEMMA Untouched ==
  ASSUME NEW q \in Runs, RunInv(q),
         pc'[q] = pc[q], snap'[q] = snap[q], orig'[q] = orig[q], cur'[q] = cur[q],
         everOk'[q] = everOk[q],
         pol'[prOf[q]] = pol[prOf[q]], reviews[prOf[q]] \subseteq reviews'[prOf[q]]
  PROVE  RunInv(q)'
  BY DEF RunInv, KeepsPullRequest, KeepsWhatHeld, PassedGates, Busy

\* Nothing is asked of a run that is over.
LEMMA NotBusyInv ==
  ASSUME NEW q \in Runs, pc'[q] = "end"
  PROVE  RunInv(q)'
  BY DEF RunInv, KeepsPullRequest, KeepsWhatHeld, PassedGates, Busy, HasSnapshot,
         PastApprove, PastApproval

\* A run that only moves on keeps what it has; it must have passed the gates
\* before its new place.
LEMMA GotoInv ==
  ASSUME TypeOK, NEW r \in Runs, NEW l, Goto(r, l), RunInv(r), Busy(r),
         pol' = pol, everOk' = everOk, reviews[prOf[r]] \subseteq reviews'[prOf[r]],
         l \in HasSnapshot => snap[r] \in Snapshots,
         l \in PastApprove \cup {"repo"} => orig[r] \in Snapshots,
         l \notin {"idle", "checks"},
         l \in PastApprove => "Approve" \in everOk[r],
         l \in PastApproval => "Merge" \in everOk[r] /\ \E v \in reviews'[prOf[r]] : v.by = r
  PROVE  RunInv(r)'
<1>1. pc'[r] = l /\ snap' = snap /\ orig' = orig /\ cur' = cur
  BY DEF Goto, TypeOK
<1> QED BY <1>1 DEF RunInv, KeepsPullRequest, KeepsWhatHeld, PassedGates, Busy

\* A step of run r leaves the other runs alone.
LEMMA OthersInv ==
  ASSUME TypeOK, NEW r \in Runs, \A q \in Runs : RunInv(q),
         \/ \E how : Stop(r, how)
         \/ \E l : Goto(r, l),
         pol' = pol, everOk' = everOk,
         \A q \in Runs : reviews[prOf[q]] \subseteq reviews'[prOf[q]]
  PROVE  \A q \in Runs \ {r} : RunInv(q)'
<1> SUFFICES ASSUME NEW q \in Runs \ {r} PROVE RunInv(q)'
  OBVIOUS
<1>1. pc'[q] = pc[q] /\ snap'[q] = snap[q] /\ orig'[q] = orig[q] /\ cur'[q] = cur[q]
  BY DEF Stop, Goto, TypeOK
<1> QED BY <1>1, Untouched

\* A run that ends, with any outcome.
LEMMA StopInv ==
  ASSUME TypeOK, NEW r \in Runs, \A q \in Runs : RunInv(q), NEW how, Stop(r, how),
         pol' = pol, everOk' = everOk,
         \A q \in Runs : reviews[prOf[q]] \subseteq reviews'[prOf[q]]
  PROVE  \A q \in Runs : RunInv(q)'
<1>1. pc'[r] = "end"
  BY DEF Stop, TypeOK
<1>2. RunInv(r)'
  BY <1>1, NotBusyInv
<1> QED BY <1>2, OthersInv

LEMMA RefuseInv ==
  ASSUME IInv, NEW r \in Runs, Refuse(r)
  PROVE  \A q \in Runs : RunInv(q)'
<1>1. (\E how : Stop(r, how)) /\ pol' = pol /\ everOk' = everOk /\ reviews' = reviews
  BY DEF Refuse, Comment, world, hist
<1> QED BY <1>1, StopInv DEF IInv

LEMMA PanicInv ==
  ASSUME IInv, NEW r \in Runs, Panic(r)
  PROVE  \A q \in Runs : RunInv(q)'
<1>1. Stop(r, "panic") /\ pol' = pol /\ everOk' = everOk /\ reviews' = reviews
  BY DEF Panic, world, hist
<1> QED BY <1>1, StopInv DEF IInv

\* A run that moves on among places that ask for no more than where it was.
LEMMA MoveOnInv ==
  ASSUME IInv, NEW r \in Runs, NEW l, Goto(r, l), UNCHANGED <<world, hist>>,
         pc[r] \in PastApprove, l \in PastApprove \ {"checks"},
         l \in HasSnapshot => snap[r] \in Snapshots,
         l \in PastApproval => pc[r] \in PastApproval
  PROVE  \A q \in Runs : RunInv(q)'
<1>1. pol' = pol /\ everOk' = everOk /\ reviews' = reviews
  BY DEF world, hist
<1>2. RunInv(r)'
  BY <1>1, GotoInv DEF IInv, RunInv, KeepsPullRequest, PassedGates, Busy, PastApprove
<1> QED BY <1>1, <1>2, OthersInv DEF IInv

\* A run that takes variables snap, orig and cur for itself leaves the others
\* alone.
LEMMA KeepInv ==
  ASSUME IInv, NEW r \in Runs, NEW l, NEW s, NEW o, NEW c,
         pc'   = [pc EXCEPT ![r] = l],
         snap' = [snap EXCEPT ![r] = s],
         orig' = [orig EXCEPT ![r] = o],
         cur'  = [cur EXCEPT ![r] = c],
         UNCHANGED <<world, hist>>,
         Busy(r),
         l \in HasSnapshot => s \in Snapshots,
         l \in PastApprove \cup {"repo"} => o \in Snapshots,
         l = "checks" => c \in Heads,
         s # None => s.pol \subseteq everOk[r],
         o # None => o.pol \subseteq everOk[r],
         l \in PastApprove => "Approve" \in everOk[r],
         l \notin PastApproval \cup {"idle"}
  PROVE  \A q \in Runs : RunInv(q)'
<1> SUFFICES ASSUME NEW q \in Runs PROVE RunInv(q)'
  OBVIOUS
<1>1. pol' = pol /\ everOk' = everOk /\ reviews' = reviews
  BY DEF world, hist
<1>2. CASE q = r
  <2>1. pc'[r] = l /\ snap'[r] = s /\ orig'[r] = o /\ cur'[r] = c
    BY DEF IInv, TypeOK
  <2>2. RunInv(r)
    BY DEF IInv
  <2> QED BY <1>1, <1>2, <2>1, <2>2 DEF RunInv, KeepsPullRequest, KeepsWhatHeld, PassedGates, Busy
<1>3. CASE q # r
  <2>1. pc'[q] = pc[q] /\ snap'[q] = snap[q] /\ orig'[q] = orig[q] /\ cur'[q] = cur[q]
    BY <1>3 DEF IInv, TypeOK
  <2> QED BY <1>1, <2>1, Untouched DEF IInv
<1> QED BY <1>2, <1>3

\* What a run fetches now satisfies now what it satisfies.
LEMMA LiveHeld ==
  ASSUME IInv, NEW r \in Runs, Busy(r), state[prOf[r]] = "open"
  PROVE  Live(prOf[r]) \in Snapshots /\ Live(prOf[r]).pol \subseteq everOk[r]
<1>1. prOf[r] \in PRs
  BY RunHasPR
<1>2. Live(prOf[r]) \in Snapshots
  BY <1>1 DEF Live, Snapshots, IInv, TypeOK
<1> QED BY <1>2 DEF Live, IInv, RunInv, KeepsWhatHeld

-----------------------------------------------------------------------------
(* One lemma per step of a run                                                *)

LEMMA StartInv ==
  ASSUME IInv, NEW r \in Runs, Start(r)
  PROVE  \A q \in Runs : RunInv(q)'
<1> SUFFICES ASSUME NEW q \in Runs PROVE RunInv(q)'
  OBVIOUS
<1>1. /\ pol' = pol /\ reviews' = reviews /\ pc[r] = "idle"
      /\ pc' = [pc EXCEPT ![r] = "get"] /\ snap' = snap /\ orig' = orig /\ cur' = cur
      /\ everOk' = [everOk EXCEPT ![r] = pol[prOf[r]]]
  BY DEF Start, Goto, world
<1>2. CASE q # r
  BY <1>1, <1>2, Untouched DEF IInv, TypeOK
<1>3. CASE q = r
  <2>1. snap[r] = None /\ orig[r] = None
    BY <1>1 DEF IInv, RunInv, KeepsPullRequest
  <2>2. pc'[r] = "get" /\ everOk'[r] = pol[prOf[r]]
    BY <1>1 DEF IInv, TypeOK
  <2> QED BY <1>1, <1>3, <2>1, <2>2 DEF RunInv, KeepsPullRequest, KeepsWhatHeld, PassedGates,
             Busy, HasSnapshot, PastApprove, PastApproval
<1> QED BY <1>2, <1>3

LEMMA GetPullRequestInv ==
  ASSUME IInv, NEW r \in Runs, GetPullRequest(r)
  PROVE  \A q \in Runs : RunInv(q)'
<1> DEFINE p == prOf[r]
<1>1. pc[r] = "get" /\ UNCHANGED <<world, hist>>
  BY DEF GetPullRequest
<1>2. CASE Stop(r, "silent") \/ Stop(r, "closed")
  BY <1>1, <1>2, StopInv DEF IInv, world, hist
<1>3. CASE /\ state[p] = "open" /\ cur' = cur
           /\ snap' = [snap EXCEPT ![r] = Live(p)]
           /\ orig' = [orig EXCEPT ![r] = Live(p)]
           /\ pc'   = [pc EXCEPT ![r] = "repo"]
  <2>1. Busy(r) /\ cur' = [cur EXCEPT ![r] = cur[r]]
    BY <1>1, <1>3 DEF Busy, IInv, TypeOK
  <2>2. Live(p) \in Snapshots /\ Live(p).pol \subseteq everOk[r]
    BY <1>3, <2>1, LiveHeld
  <2> QED BY <1>1, <1>3, <2>1, <2>2, KeepInv DEF PastApprove, PastApproval
<1> QED BY <1>2, <1>3 DEF GetPullRequest

\* The gate of the approve section.
LEMMA GetRepositoryInv ==
  ASSUME IInv, NEW r \in Runs, GetRepository(r)
  PROVE  \A q \in Runs : RunInv(q)'
<1>1. pc[r] = "repo" /\ pol' = pol /\ everOk' = everOk /\ reviews' = reviews
  BY DEF GetRepository, world, hist
<1>2. CASE Stop(r, "silent") \/ Comment(r)
  BY <1>1, <1>2, StopInv DEF IInv, Comment
<1>3. CASE "Approve" \in orig[r].pol /\ Goto(r, "compare")
  <2>1. RunInv(r) /\ Busy(r)
    BY <1>1 DEF IInv, Busy
  <2>2. snap[r] \in Snapshots /\ orig[r] \in Snapshots
    BY <1>1, <2>1 DEF RunInv, KeepsPullRequest, HasSnapshot
  <2>3. "Approve" \in everOk[r]
    BY <1>3, <2>1, <2>2, ReviewAssumption DEF RunInv, KeepsWhatHeld
  <2>4. RunInv(r)'
    BY <1>1, <1>3, <2>1, <2>2, <2>3, GotoInv DEF IInv, PastApproval
  <2> QED BY <1>1, <1>3, <2>4, OthersInv DEF IInv
<1> QED BY <1>2, <1>3 DEF GetRepository

\* The steps between two gates.
LEMMA WaitingInv ==
  ASSUME IInv, NEW r \in Runs,
         \/ IsOutOfDate(r) \/ WaitForPRChecksToPassMain(r) \/ WaitForPRChecksToPass(r)
  PROVE  \A q \in Runs : RunInv(q)'
<1>1. UNCHANGED <<world, hist>> /\ pol' = pol /\ everOk' = everOk /\ reviews' = reviews
  BY DEF IsOutOfDate, WaitForPRChecksToPassMain, WaitForPRChecksToPass, Refuse, world, hist
<1>2. CASE Stop(r, "silent") \/ Comment(r)
  BY <1>1, <1>2, StopInv DEF IInv, Comment
<1>3. ASSUME NEW l, <<pc[r], l>> \in {<<"compare", "update">>, <<"compare", "status">>,
                                     <<"main", "head">>, <<"head", "recheck">>},
             Goto(r, l)
      PROVE  \A q \in Runs : RunInv(q)'
  <2>1. pc[r] \in HasSnapshot /\ pc[r] \in PastApprove /\ l \in PastApprove \ {"checks"}
        /\ (l \in PastApproval => pc[r] \in PastApproval)
    BY <1>3 DEF HasSnapshot, PastApprove, PastApproval
  <2>2. snap[r] \in Snapshots
    BY <2>1 DEF IInv, RunInv, KeepsPullRequest
  <2> QED BY <1>1, <1>3, <2>1, <2>2, MoveOnInv
<1> QED BY <1>1, <1>2, <1>3
        DEF IsOutOfDate, WaitForPRChecksToPassMain, WaitForPRChecksToPass, Refuse

LEMMA AddRebaseCommentInv ==
  ASSUME IInv, NEW r \in Runs, AddRebaseComment(r)
  PROVE  \A q \in Runs : RunInv(q)'
<1>1. CASE Refuse(r)
  BY <1>1, RefuseInv
<1>2. CASE /\ pc[r] = "update" /\ Goto(r, "rebase")
           /\ UNCHANGED <<head, state, pol, ci, reruns, reviews, mainTip, mainCi, hist>>
  <2>1. RunInv(r) /\ Busy(r) /\ pol' = pol /\ everOk' = everOk /\ reviews' = reviews
    BY <1>2 DEF IInv, Busy, hist
  <2>2. snap[r] \in Snapshots /\ orig[r] \in Snapshots /\ "Approve" \in everOk[r]
    BY <1>2, <2>1 DEF RunInv, KeepsPullRequest, PassedGates, HasSnapshot, PastApprove
  <2>3. RunInv(r)'
    BY <1>2, <2>1, <2>2, GotoInv DEF IInv, PastApproval
  <2> QED BY <1>2, <2>1, <2>3, OthersInv DEF IInv
<1> QED BY <1>1, <1>2 DEF AddRebaseComment

\* The pull request is fetched again and replaces the one the run kept.
LEMMA WaitForRebaseInv ==
  ASSUME IInv, NEW r \in Runs, WaitForRebase(r)
  PROVE  \A q \in Runs : RunInv(q)'
<1> DEFINE p == prOf[r]
<1>1. pc[r] = "rebase" /\ UNCHANGED <<world, hist>> /\ Busy(r) /\ RunInv(r)
  BY DEF WaitForRebase, Busy, IInv
<1>2. CASE Stop(r, "closed")
  BY <1>1, <1>2, StopInv DEF IInv, world, hist
<1>3. ASSUME NEW s, s = None \/ (s = Live(p) /\ state[p] = "open"),
             /\ snap' = [snap EXCEPT ![r] = s]
             /\ pc'   = [pc EXCEPT ![r] = "status"]
             /\ UNCHANGED <<orig, cur, outcome>>
      PROVE  \A q \in Runs : RunInv(q)'
  <2>1. orig' = [orig EXCEPT ![r] = orig[r]] /\ cur' = [cur EXCEPT ![r] = cur[r]]
    BY <1>3 DEF IInv, TypeOK
  <2>2. orig[r] \in Snapshots /\ orig[r].pol \subseteq everOk[r] /\ "Approve" \in everOk[r]
    BY <1>1, ReviewAssumption DEF RunInv, KeepsPullRequest, KeepsWhatHeld, PassedGates, PastApprove
  <2>3. s # None => s.pol \subseteq everOk[r]
    BY <1>1, <1>3, LiveHeld
  <2>4. "status" \notin HasSnapshot /\ "status" \notin PastApproval \cup {"idle"}
    BY DEF HasSnapshot, PastApproval
  <2> QED BY <1>1, <1>3, <2>1, <2>2, <2>3, <2>4, KeepInv
<1>4. state[p] = "open" \/ state[p] # "open"
  OBVIOUS
<1> QED BY <1>2, <1>3, <1>4 DEF WaitForRebase, Live

LEMMA WaitForStatusChecksInv ==
  ASSUME IInv, NEW r \in Runs, WaitForStatusChecks(r)
  PROVE  \A q \in Runs : RunInv(q)'
<1>1. CASE Refuse(r)
  BY <1>1, RefuseInv
<1>2. CASE /\ pc[r] = "status" /\ snap[r] # None
           /\ cur' = [cur EXCEPT ![r] = head[prOf[r]]]
           /\ pc'  = [pc EXCEPT ![r] = "checks"]
           /\ UNCHANGED <<snap, orig, outcome, world, hist>>
  <2>1. RunInv(r) /\ Busy(r) /\ snap' = [snap EXCEPT ![r] = snap[r]]
        /\ orig' = [orig EXCEPT ![r] = orig[r]]
    BY <1>2 DEF IInv, Busy, TypeOK
  <2>2. head[prOf[r]] \in Heads /\ snap[r] \in Snapshots
    BY <1>2, RunHasPR DEF IInv, TypeOK
  <2>6. orig[r] \in Snapshots
    BY <1>2, <2>1 DEF RunInv, KeepsPullRequest, PastApprove
  <2>3. /\ snap[r].pol \subseteq everOk[r] /\ "Approve" \in everOk[r]
        /\ orig[r] # None => orig[r].pol \subseteq everOk[r]
    BY <1>2, <2>1 DEF RunInv, KeepsWhatHeld, PassedGates, PastApprove
  <2>4. "checks" \notin PastApproval \cup {"idle"}
    BY DEF PastApproval
  <2>5. UNCHANGED <<world, hist>>
    BY <1>2
  <2> HIDE DEF world, hist
  <2> QED BY <1>2, <2>1, <2>2, <2>3, <2>4, <2>5, <2>6, KeepInv
<1> QED BY <1>1, <1>2 DEF WaitForStatusChecks

LEMMA CheckStatusesInv ==
  ASSUME IInv, NEW r \in Runs, CheckStatuses(r)
  PROVE  \A q \in Runs : RunInv(q)'
<1>1. CASE Refuse(r)
  BY <1>1, RefuseInv
<1>2. CASE Panic(r)
  BY <1>2, PanicInv
<1>3. CASE Comment(r) /\ UNCHANGED <<world, hist>>
  BY <1>3, RefuseInv DEF Refuse
<1>4. ASSUME NEW l \in {"validate", "status"}, Goto(r, l), UNCHANGED <<world, hist>>
      PROVE  \A q \in Runs : RunInv(q)'
  <2>1. pc[r] \in PastApprove /\ l \in PastApprove \ {"checks"} /\ l \notin PastApproval
    BY DEF CheckStatuses, PastApprove, PastApproval
  <2>2. snap[r] \in Snapshots
    BY DEF CheckStatuses, IInv, RunInv, KeepsPullRequest, HasSnapshot
  <2> QED BY <1>4, <2>1, <2>2, MoveOnInv
<1> QED BY <1>1, <1>2, <1>3, <1>4 DEF CheckStatuses

LEMMA ValidateChecksInv ==
  ASSUME IInv, NEW r \in Runs,
         ValidateApproveCommentsAndChecks(r) \/ ValidateMergeCommentsAndChecks(r)
  PROVE  \A q \in Runs : RunInv(q)'
<1>1. CASE Refuse(r)
  BY <1>1, RefuseInv
<1>2. CASE Panic(r)
  BY <1>2, PanicInv
<1>3. ASSUME NEW l, <<pc[r], l>> \in {<<"validate", "approve">>, <<"recheck", "merge">>},
             Goto(r, l), UNCHANGED <<world, hist>>
      PROVE  \A q \in Runs : RunInv(q)'
  <2>1. pc[r] \in HasSnapshot /\ pc[r] \in PastApprove /\ l \in PastApprove \ {"checks"}
        /\ (l \in PastApproval => pc[r] \in PastApproval)
    BY <1>3 DEF HasSnapshot, PastApprove, PastApproval
  <2>2. snap[r] \in Snapshots
    BY <2>1 DEF IInv, RunInv, KeepsPullRequest
  <2> QED BY <1>3, <2>1, <2>2, MoveOnInv
<1> QED BY <1>1, <1>2, <1>3
        DEF ValidateApproveCommentsAndChecks, ValidateMergeCommentsAndChecks, ValidateChecks

\* The approval and the gate of the merge section.
LEMMA ApprovePullRequestInv ==
  ASSUME IInv, NEW r \in Runs, ApprovePullRequest(r)
  PROVE  \A q \in Runs : RunInv(q)'
<1> DEFINE p == prOf[r]
           v == [by |-> r, head |-> head[p]]
<1>1. CASE Refuse(r)
  BY <1>1, RefuseInv
<1>2. CASE ~Refuse(r)
  <2>1. /\ pc[r] = "approve" /\ pol' = pol /\ everOk' = everOk
        /\ reviews' = [reviews EXCEPT ![p] = @ \cup {v}]
        /\ ("Merge" \in snap[r].pol /\ Goto(r, "main")) \/ Comment(r)
    BY <1>2 DEF ApprovePullRequest
  <2>2. RunInv(r) /\ Busy(r) /\ p \in PRs
    BY <2>1, RunHasPR DEF IInv, Busy
  <2>3. v \in reviews'[p] /\ v.by = r /\ \A x \in PRs : reviews[x] \subseteq reviews'[x]
    BY <2>1, <2>2 DEF IInv, TypeOK
  <2>4. \A q \in Runs : reviews[prOf[q]] \subseteq reviews'[prOf[q]]
    BY <2>3, RunHasPR
  <2>5. CASE Comment(r)
    BY <2>1, <2>4, <2>5, StopInv DEF IInv, Comment
  <2>6. CASE "Merge" \in snap[r].pol /\ Goto(r, "main")
    <3>1. /\ snap[r] \in Snapshots /\ orig[r] \in Snapshots
          /\ "Approve" \in everOk[r] /\ "Merge" \in everOk[r]
      BY <2>1, <2>2, <2>6, ReviewAssumption
         DEF RunInv, KeepsPullRequest, KeepsWhatHeld, PassedGates, HasSnapshot, PastApprove
    <3>2. \E x \in reviews'[prOf[r]] : x.by = r
      BY <2>3
    <3>3. RunInv(r)'
      BY <2>1, <2>2, <2>4, <2>6, <3>1, <3>2, GotoInv DEF IInv
    <3> QED BY <2>1, <2>4, <2>6, <3>3, OthersInv DEF IInv
  <2> QED BY <2>1, <2>5, <2>6
<1> QED BY <1>1, <1>2

LEMMA MergePullRequestInv ==
  ASSUME IInv, NEW r \in Runs, MergePullRequest(r)
  PROVE  \A q \in Runs : RunInv(q)'
<1>1. CASE Refuse(r)
  BY <1>1, RefuseInv
<1>2. CASE ~Refuse(r)
  <2>1. Stop(r, "merged") /\ pol' = pol /\ everOk' = everOk /\ reviews' = reviews
    BY <1>2 DEF MergePullRequest
  <2> QED BY <2>1, StopInv DEF IInv
<1> QED BY <1>1, <1>2

\* GitHub and the people touch no run; new labels count for the runs under way.
LEMMA EnvironmentInv ==
  ASSUME IInv, Environment
  PROVE  \A q \in Runs : RunInv(q)'
<1> SUFFICES ASSUME NEW q \in Runs PROVE RunInv(q)'
  OBVIOUS
<1> USE RunHasPR
<1>1. ASSUME NEW p \in PRs, Relabel(p) PROVE RunInv(q)'
  <2> PICK s \in Policies : /\ pol' = [pol EXCEPT ![p] = s]
                            /\ everOk' = [r \in Runs |-> IF Busy(r) /\ prOf[r] = p
                                                         THEN everOk[r] \cup s ELSE everOk[r]]
                            /\ UNCHANGED <<reviews, run>>
    BY <1>1 DEF Relabel
  <2>1. pc' = pc /\ snap' = snap /\ orig' = orig /\ cur' = cur /\ reviews' = reviews
    BY DEF run
  <2>2. RunInv(q) /\ everOk[q] \subseteq everOk'[q] /\ Busy(q)' = Busy(q)
    BY <2>1 DEF IInv, Busy
  <2>3. Busy(q) => pol'[prOf[q]] \subseteq everOk'[q]
    BY <2>2 DEF IInv, TypeOK, RunInv, KeepsWhatHeld
  <2>4. KeepsPullRequest(q)'
    BY <2>1, <2>2 DEF RunInv, KeepsPullRequest
  <2>5. KeepsWhatHeld(q)'
    BY <2>1, <2>2, <2>3 DEF RunInv, KeepsWhatHeld
  <2>6. PassedGates(q)'
    BY <2>1, <2>2 DEF RunInv, PassedGates
  <2> QED BY <2>4, <2>5, <2>6 DEF RunInv
<1>2. CASE UNCHANGED <<pol, reviews, run, everOk>>
  BY <1>2, Untouched DEF IInv, run
<1>3. CASE ~ \E p \in PRs : Relabel(p)
  <2>1. UNCHANGED <<pol, reviews, run, everOk>>
    BY <1>3 DEF Environment, AuthorPush, ClosePullRequest, UpdateBranch, StartCI, FinishCI,
                RerunCI, ProgressMainCI, PushToMain, hist
  <2> QED BY <1>2, <2>1
<1> QED BY <1>1, <1>3

-----------------------------------------------------------------------------
(* What a merge tells                                                         *)

LEMMA InitInv == Init => IInv
<1> SUFFICES ASSUME Init PROVE IInv
  OBVIOUS
<1>1. \A r \in Runs : pc[r] = "idle" /\ snap[r] = None /\ orig[r] = None
  BY DEF Init
<1>2. \A r \in Runs : RunInv(r)
  BY <1>1 DEF RunInv, KeepsPullRequest, KeepsWhatHeld, PassedGates, Busy, HasSnapshot,
              PastApprove, PastApproval
<1> QED BY <1>2, InitType DEF IInv

LEMMA NextInv == IInv /\ [Next]_vars => IInv'
<1> SUFFICES ASSUME IInv, [Next]_vars PROVE \A q \in Runs : RunInv(q)'
  BY NextType DEF IInv
<1>1. ASSUME NEW r \in Runs, Start(r) PROVE \A q \in Runs : RunInv(q)'
  BY <1>1, StartInv
<1>2. ASSUME NEW r \in Runs, Review(r) PROVE \A q \in Runs : RunInv(q)'
  BY <1>2, GetPullRequestInv, GetRepositoryInv, WaitingInv, AddRebaseCommentInv,
     WaitForRebaseInv, WaitForStatusChecksInv, CheckStatusesInv, ValidateChecksInv,
     ApprovePullRequestInv, MergePullRequestInv DEF Review
<1>3. CASE Environment
  BY <1>3, EnvironmentInv
<1>4. CASE UNCHANGED vars
  <2>1. /\ pc' = pc /\ snap' = snap /\ orig' = orig /\ cur' = cur /\ pol' = pol
        /\ reviews' = reviews /\ everOk' = everOk
    BY <1>4 DEF vars, world, run, hist
  <2> QED BY <2>1, Untouched DEF IInv
<1> QED BY <1>1, <1>2, <1>3, <1>4 DEF Next

LEMMA Invariance == Spec => []IInv
  BY InitInv, NextInv, PTL DEF Spec

\* Only the merge of a run merges a pull request, and the run ends with it.
LEMMA MergeStep ==
  ASSUME IInv, [Next]_vars
  PROVE  /\ \A p \in PRs : Merges(p) =>
              \E r \in Runs : prOf[r] = p /\ pc[r] = "merge" /\ reviews' = reviews
         /\ \A r \in Runs : outcome[r] = None /\ outcome'[r] = "merged" => pc[r] = "merge"
<1> USE RunHasPR, NoneIsNoOutcome
<1>1. ASSUME NEW r \in Runs, MergePullRequest(r), ~Refuse(r)
      PROVE  /\ \A p \in PRs : Merges(p) => prOf[r] = p /\ pc[r] = "merge" /\ reviews' = reviews
             /\ \A q \in Runs : outcome[q] = None /\ outcome'[q] = "merged" => pc[q] = "merge"
  <2>1. /\ pc[r] = "merge" /\ reviews' = reviews
        /\ state' = [state EXCEPT ![prOf[r]] = "merged"]
        /\ outcome' = [outcome EXCEPT ![r] = "merged"]
    BY <1>1 DEF MergePullRequest, Stop
  <2>2. ASSUME NEW p \in PRs, Merges(p) PROVE prOf[r] = p
    BY <2>1, <2>2 DEF Merges, IInv, TypeOK
  <2>3. ASSUME NEW q \in Runs, outcome[q] = None, outcome'[q] = "merged" PROVE pc[q] = "merge"
    BY <2>1, <2>3 DEF IInv, TypeOK
  <2> QED BY <2>1, <2>2, <2>3
<1>2. ASSUME NEW r \in Runs, Refuse(r)
      PROVE  state' = state /\ \A q \in Runs : outcome'[q] \in {outcome[q], "told", "unheard"}
  BY <1>2 DEF Refuse, Comment, Stop, world, IInv, TypeOK
<1>3. ASSUME NEW r \in Runs, Start(r) \/ Review(r), ~(MergePullRequest(r) /\ ~Refuse(r))
      PROVE  state' = state /\ \A q \in Runs : outcome'[q] = outcome[q] \/ outcome'[q] # "merged"
  <2>1. state' = state
    BY <1>3, <1>2 DEF Start, Review, GetPullRequest, GetRepository, IsOutOfDate, AddRebaseComment,
       WaitForRebase, WaitForStatusChecks, CheckStatuses, ValidateApproveCommentsAndChecks,
       ValidateMergeCommentsAndChecks, ValidateChecks, ApprovePullRequest,
       WaitForPRChecksToPassMain, WaitForPRChecksToPass, Panic, world
  <2>2. \/ outcome' = outcome
        \/ \E how \in Outcomes \ {"merged"} : Stop(r, how)
    BY <1>3 DEF Start, Review, GetPullRequest, GetRepository, IsOutOfDate, AddRebaseComment,
       WaitForRebase, WaitForStatusChecks, CheckStatuses, ValidateApproveCommentsAndChecks,
       ValidateMergeCommentsAndChecks, ValidateChecks, ApprovePullRequest, Refuse, Goto, Comment,
       WaitForPRChecksToPassMain, WaitForPRChecksToPass, Panic, Outcomes
  <2>3. ASSUME NEW how \in Outcomes \ {"merged"}, Stop(r, how), NEW q \in Runs
        PROVE  outcome'[q] = outcome[q] \/ outcome'[q] # "merged"
    BY <2>3 DEF Stop, IInv, TypeOK
  <2> QED BY <2>1, <2>2, <2>3
<1>4. CASE Environment
  <2>1. outcome' = outcome
    BY <1>4 DEF Environment, AuthorPush, ClosePullRequest, Relabel, UpdateBranch, StartCI,
       FinishCI, RerunCI, ProgressMainCI, PushToMain, run
  <2>2. state' = state \/ \E p \in PRs : state' = [state EXCEPT ![p] = "closed"]
    BY <1>4 DEF Environment, AuthorPush, ClosePullRequest, Relabel, UpdateBranch, StartCI,
       FinishCI, RerunCI, ProgressMainCI, PushToMain
  <2>3. ASSUME NEW p \in PRs PROVE ~Merges(p)
    BY <2>2 DEF Merges, IInv, TypeOK
  <2> QED BY <2>1, <2>3
<1>5. CASE UNCHANGED vars
  BY <1>5 DEF vars, world, run, Merges
<1>6. CASE \E r \in Runs : MergePullRequest(r) /\ ~Refuse(r)
  BY <1>1, <1>6
<1>7. CASE \E r \in Runs : (Start(r) \/ Review(r)) /\ ~(MergePullRequest(r) /\ ~Refuse(r))
  BY <1>3, <1>7 DEF Merges
<1> QED BY <1>4, <1>5, <1>6, <1>7 DEF Next

\* Whatever the interleaving of runs, pushes, updates and labels, whether the
\* reviewer is serial or direct: only a pull request some run approved is merged.
THEOREM Reviewed == Spec => MergedIsReviewed
<1>1. IInv /\ [Next]_vars => [\A p \in PRs : Merges(p) => reviews[p] # {}]_vars
  <2> SUFFICES ASSUME IInv, [Next]_vars, NEW p \in PRs, Merges(p) PROVE reviews[p] # {}
    OBVIOUS
  <2> PICK r \in Runs : prOf[r] = p /\ pc[r] = "merge"
    BY MergeStep
  <2> QED BY DEF IInv, RunInv, PassedGates, PastApproval
<1> QED BY <1>1, Invariance, PTL DEF Spec, MergedIsReviewed

\* A run that merges a pull request saw the conditions of both config sections
\* hold, each at some moment since the run began.
THEOREM PolicyHeld == Spec => PolicyHeldDuringRun
<1> DEFINE A == \A r \in Runs : outcome[r] = None /\ outcome'[r] = "merged"
                                => {"Approve", "Merge"} \subseteq everOk[r]
<1>1. IInv /\ [Next]_vars => [A]_vars
  <2> SUFFICES ASSUME IInv, [Next]_vars, NEW r \in Runs,
                      outcome[r] = None, outcome'[r] = "merged"
               PROVE  {"Approve", "Merge"} \subseteq everOk[r]
    OBVIOUS
  <2>1. pc[r] = "merge"
    BY MergeStep
  <2> QED BY <2>1 DEF IInv, RunInv, PassedGates, PastApproval, PastApprove
<1> QED BY <1>1, Invariance, PTL DEF Spec, PolicyHeldDuringRun

-----------------------------------------------------------------------------
(* What an approval promises                                                  *)

Approved(r) == \E v \in reviews[prOf[r]] : v.by = r
Answers(r)  == pc[r] = "end" /\ outcome[r] \in {"merged", "told", "unheard", "panic"}

\* A run that approved is past its approval, or has ended with an answer.
AnswerInv == \A r \in Runs : Approved(r) => pc[r] \in PastApproval \/ Answers(r)

\* A run keeps its answer when a step leaves it alone and gives it no approval.
LEMMA AnswerKept ==
  ASSUME AnswerInv, NEW q \in Runs, pc'[q] = pc[q], outcome'[q] = outcome[q],
         Approved(q)' => Approved(q)
  PROVE  Approved(q)' => (pc[q] \in PastApproval \/ Answers(q))'
  BY DEF AnswerInv, Answers

LEMMA ReviewAnswer ==
  ASSUME IInv, AnswerInv, NEW r \in Runs, Start(r) \/ Review(r)
  PROVE  AnswerInv'
<1> DEFINE Moves  == (\E l : pc' = [pc EXCEPT ![r] = l]) /\ outcome' = outcome
           Stops  == \E how : Stop(r, how)
           Told   == \E how \in {"merged", "told", "unheard", "panic"} : Stop(r, how)
           Onward == \E l \in PastApproval : Goto(r, l)
<1> USE RunHasPR
<1>1. ASSUME NEW q \in Runs \ {r} PROVE pc'[q] = pc[q] /\ outcome'[q] = outcome[q]
  <2>1. Moves \/ Stops \/ \E l : Goto(r, l)
    BY DEF Start, Review, GetPullRequest, GetRepository, IsOutOfDate, AddRebaseComment,
       WaitForRebase, WaitForStatusChecks, CheckStatuses, ValidateApproveCommentsAndChecks,
       ValidateMergeCommentsAndChecks, ValidateChecks, ApprovePullRequest, Refuse, Comment,
       WaitForPRChecksToPassMain, WaitForPRChecksToPass, Panic, MergePullRequest
  <2> QED BY <2>1 DEF Goto, Stop, IInv, TypeOK
<1>2. ASSUME Told \/ Onward PROVE (pc[r] \in PastApproval \/ Answers(r))'
  BY <1>2 DEF Goto, Stop, Answers, IInv, TypeOK
<1>3. CASE ApprovePullRequest(r)
  <2>1. Told \/ Onward
    BY <1>3 DEF ApprovePullRequest, Refuse, Comment, PastApproval
  <2>2. ASSUME NEW q \in Runs \ {r} PROVE Approved(q)' => Approved(q)
    <3>1. reviews' = reviews \/ reviews' = [reviews EXCEPT ![prOf[r]] =
                                              @ \cup {[by |-> r, head |-> head[prOf[r]]]}]
      BY <1>3 DEF ApprovePullRequest, Refuse, world
    <3>2. \A v \in reviews'[prOf[q]] : v \in reviews[prOf[q]] \/ v.by = r
      BY <3>1 DEF IInv, TypeOK
    <3> QED BY <3>2 DEF Approved
  <2> QED BY <1>1, <1>2, <2>1, <2>2, AnswerKept DEF AnswerInv
<1>4. CASE pc[r] \in PastApproval
  <2>1. (Told \/ Onward) /\ reviews' = reviews
    BY <1>4 DEF Start, Review, GetPullRequest, GetRepository, IsOutOfDate, AddRebaseComment,
       WaitForRebase, WaitForStatusChecks, CheckStatuses, ValidateApproveCommentsAndChecks,
       ValidateMergeCommentsAndChecks, ValidateChecks, ApprovePullRequest, Refuse, Comment,
       WaitForPRChecksToPassMain, WaitForPRChecksToPass, Panic, MergePullRequest,
       PastApproval, world
  <2> QED BY <1>1, <1>2, <2>1, AnswerKept DEF AnswerInv, Approved
<1>5. CASE pc[r] \notin PastApproval /\ ~ApprovePullRequest(r)
  <2>1. reviews' = reviews /\ pc[r] # "end"
    BY <1>5 DEF Start, Review, GetPullRequest, GetRepository, IsOutOfDate, AddRebaseComment,
       WaitForRebase, WaitForStatusChecks, CheckStatuses, ValidateApproveCommentsAndChecks,
       ValidateMergeCommentsAndChecks, ValidateChecks, Refuse,
       WaitForPRChecksToPassMain, WaitForPRChecksToPass, Panic, MergePullRequest,
       PastApproval, world
  <2>2. ~Approved(r) /\ \A q \in Runs : Approved(q)' = Approved(q)
    BY <1>5, <2>1 DEF AnswerInv, Answers, Approved
  <2> QED BY <1>1, <2>2, AnswerKept DEF AnswerInv
<1> QED BY <1>3, <1>4, <1>5

\* A run that approved a pull request merges it, calls for a comment or panics:
\* in every deployment, whatever GitHub answers and whoever else pushes, closes or
\* labels.  It stays without an answer only by a panic or when that call fails.
THEOREM Answered == Spec => []ApprovedIsAnswered
<1>1. Init => AnswerInv
  BY RunHasPR DEF Init, AnswerInv, Approved
<1>2. IInv /\ AnswerInv /\ [Next]_vars => AnswerInv'
  <2> SUFFICES ASSUME IInv, AnswerInv, [Next]_vars PROVE AnswerInv'
    OBVIOUS
  <2>1. CASE UNCHANGED <<pc, outcome, reviews>>
    BY <2>1 DEF AnswerInv, Approved, Answers
  <2>2. CASE Environment
    BY <2>1, <2>2 DEF Environment, AuthorPush, ClosePullRequest, Relabel, UpdateBranch, StartCI,
       FinishCI, RerunCI, ProgressMainCI, PushToMain, run
  <2> QED BY <2>1, <2>2, ReviewAnswer DEF Next, vars, world, run
<1>3. AnswerInv => ApprovedIsAnswered
  BY DEF AnswerInv, ApprovedIsAnswered, Approved, Answers, PastApproval
<1> QED BY <1>1, <1>2, <1>3, Invariance, PTL DEF Spec

=============================================================================
