# DuneBot in TLA+

DuneBot is a GitHub App that approves and merges pull requests. A webhook (or a
`repository_dispatch` event, sent by the `dispatch` command) names a pull
request; DuneBot queues it per repository, and for each event brings the branch
up to date, waits for its checks, approves it and merges it, as the
repository's `.github/dunebot.yml` allows.

This directory models that core, checks it with TLC on small instances, and
proves with TLAPS what holds for every instance.

## Inventory

| component | state | operations | interacts with | hard to test |
|---|---|---|---|---|
| repository queue, `pkg/queue/queue.go` | map from `owner/name` to a slice of events, a mutex, a `WaitGroup`, a shutdown channel | `AddEvent`, `ReceiveEvent` (goroutine), `GraceFullShutdown`, `WaitUntilFinished` | called by the queue reviewer, calls its `HandleEvent` | a goroutine that ends while an event arrives; shutdown against both |
| reviewer, `pkg/review/review.go`, `queue.go` | locals of a call: `pr`, `prC`, `sha` | `PullRequestReview` | the GitHub client, the validator, user tokens | everything it reads is stale a call later; some 15 GitHub calls that can fail; two reviews of one repository |
| GitHub client, `pkg/github/client.go` | `Retry` counters and start times | `IsOutOfDate`, `AddRebaseComment`, `WaitForRebase`, `WaitForStatusChecks`, `GetStatuses`, `AllWorkflowsPassed`, `ApprovePullRequest`, `WaitForPRChecksToPass`, `MergePullRequest` | GitHub | loops with several exits, late and missing CI, failed calls taken for answers |
| validator, `pkg/validator` | none | conditions (author, label, age) and checks (comments, required statuses) per config section and branch | the config, the pull request | strict branches, the empty config |
| repository config, `pkg/config/repoconfig.go`, `merge.go`, `duration.go` | none | `LoadConfig`, `mergeDeep`, `parseDuration` | GitHub contents | organisation defaults that are missing; overflow |
| webhook handlers, `cmd/*.go` | none | `PRHandler.Handle`, `RepositoryDispatchHandler.Handle`, `AppHandler.Handle` | config, reviewer, tokens | filters that differ from the validator's |
| user tokens, `oauth2/token.go` | a token, and the refreshed one | `RetrieveToken`, `StoreToken`, `RevokeToken`, `DuneBotTokenSource.Token` | the token service (another program), GitHub OAuth | concurrent refresh of a rotating token; a failed store |
| service authentication, `pkg/auth` | none | sign and parse JWTs | token service | validity window |
| dispatch command, `cmd/dispatch` | paging state | `run`, `runAppMode`, `dispatchForRepos` | GitHub | partial failure between pages |
| web application, `cmd/app` | cookies, session | login, setup, dashboard | OAuth, tokens | - |
| temporal reviewer, templates, logging, version, update | - | - | - | not modelled: external service, formatting, no state |

What makes the core correct:

- queue: one review per repository at a time, events in order, none lost when
  goroutines end and start, a shutdown that waits for what was accepted;
- reviewer: nothing is merged without an approval, without the conditions of
  both config sections, without its checks, on top of an outdated default branch
  or one that was not green for a moment since the approval; for an author whose
  pull request was approved and not merged it writes a comment, which GitHub may
  refuse; every review ends, because the queue of its repository waits for it;
- configuration: what is merged was ready and allowed, setting by setting, by files
  that were in force since its event came in.

`PROJECT.json` lists the components with their status and the hazards at their
lines.

## Modules

    SerialQueue               what the queue promises (abstract)
    RepositoryQueue           the queue as it is written; refines SerialQueue
    RepositoryQueueProofs     its theorems
    MCRepositoryQueue         instance for TLC
    MergeTrain                what a repository may rely on (abstract)
    PullRequestReview         the review of one repository against GitHub; refines MergeTrain
    PullRequestReviewProofs   its theorems that need no promise of GitHub
    MergeTrainProofs          the refinement, and what needs such a promise
    MCPullRequestReview       instances for TLC (four configurations)
    Checks                    the waits of the GitHub client, with Retry and a clock
    ChecksProofs              its theorems
    MCChecks                  instance for TLC
    Validator                 the verdicts of one config section on a pull request
    ValidatorProofs           its theorems
    MCValidator               instance for TLC (two configurations)
    Dispatch                  one run of the dispatch command
    DispatchProofs            its theorems
    MCDispatch                instance for TLC (two configurations)
    UserToken                 the approver's token, shared by concurrent reviews
    UserTokenProofs           its theorems
    MCUserToken               instance for TLC
    DuneBot                   from an event to the merge, in the large
    DuneBotProofs             its theorems
    MCDuneBot                 instance for TLC

### RepositoryQueue

Each critical section of the mutex is one action, and so is every step of a
goroutine outside it that another goroutine can tell.

| code | action |
|---|---|
| `AddEvent` (queue.go:64-79), with `wg.Add` and the `go` statement | `AddEvent(e)` |
| `ReceiveEvent`: the `select` (87-91) | `Select(w)` |
| the locked branch with an event (93-103) | `Take(w)` |
| the handler call returns, with or without error (105-108) | `HandleEvent(w)` |
| the locked branch without one (109-118) | `Delete(w)` |
| deferred `wg.Done` (82-84) | `Done(w)` |
| `GraceFullShutdown` (124-127), `WaitUntilFinished` (129-141) | `GraceFullShutdown`, `PollEmpty`, `Wait`, `Wake`, `Close` |

A map entry whose slice is empty and a missing entry are different states, so
`keys` is a variable beside `queues`. `Workers` are slots for goroutines; a slot
is free again after `wg.Done`. `Wake` is the documented panic of
`sync.WaitGroup` when `AddEvent` calls `Add` before a woken `Wait` has returned;
it takes the process down, which is `~Running`. A bounded number of events is
delivered, each once. `GraceFullShutdown` is called once, as the tests do; the
program itself never calls it. `Entries`, which hands out the map unguarded, is
used by tests only.

### PullRequestReview

A run is one call of `PullRequestReview`. It is a program counter named after
the GitHub call that comes next, the pull request as last fetched (`snap`, the
code's `pr`) and as first fetched (`orig`, its `prC`), and an outcome. An action
is one GitHub call with everything the code does until the next one: all of it
is local, so nothing can come between.

| code | action |
|---|---|
| queue hand-over (review/queue.go:34-65) or the webhook handler | `Start` |
| first fetch, closed check (review.go:92-117) | `GetPullRequest` |
| approve conditions, repository (120-128) | `GetRepository` |
| `IsOutOfDate` (client.go:245-257) | `IsOutOfDate` |
| `AddRebaseComment` (client.go:265-273) | `AddRebaseComment` |
| `WaitForRebase` (client.go:293-316), closed check (review.go:184) | `WaitForRebase` |
| `WaitForStatusChecks` (client.go:591-683), each turn in two reads | `WaitForStatusChecks`, `CheckStatuses` |
| required statuses of the approve section (review.go:205-210) | `ValidateApproveCommentsAndChecks` |
| approval, merge conditions (review.go:212-225) | `ApprovePullRequest` |
| the default branch is green (review.go:230-244) | `WaitForPRChecksToPassMain` |
| the head is green (review.go:246-260, client.go:189-233) | `WaitForPRChecksToPass` |
| required statuses of the merge section, on `prC` (review.go:262-267) | `ValidateMergeCommentsAndChecks` |
| merge (review.go:269-278, client.go:365-374) | `MergePullRequest` |

Every call may fail, with what the code makes of it: a silent return, a comment
(`Refuse`), which may itself fail (`"unheard"`: `AddComment` returns the error or
`AddCommentSilent` drops it, client.go:275-291; either way nobody reads anything), a nil pull request that goes on as number 0 (`WaitForRebase`), an
empty list or a nil dereference (`SeenStatuses`, `Panic`). A polling loop is
one action that waits for the read that ends it. `Retry` may run out at any
moment, since there is no clock in this module; `Checks` has one. GitHub and the people are actions
of their own: pushes, closing, labels, the asynchronous update of a branch, CI
on heads and on the default branch, pushes to the default branch. Workflows of the
default branch are run again freely, after either result, so that a wait may see a
red branch turn green. Those of a head are run again `MaxRerun` times after the
results in `Reruns`.

Constants describe the deployment: reviewer type (`Serial`), whether a merged
pull request with workflow runs exists (`HasBaseline`), whether branch protection
requires the check (`Required`) and `dunebot.yml` lists it (`CfgStatuses`),
which verdicts the conditions of the two config sections may give (`Policies`).
`Timely` is an assumption about the environment and only about it: an accepted
update lands, workflows get queued and the baseline can be read before the
Retry of the waiting call runs out.

The abstractions: one CI result per head commit stands for all its workflows
and statuses; the base of a head is the commit of the default branch it
contains; the conditions of a section (authors, labels, age) are one verdict that
`Relabel` changes; a strict "require branches to be up to date" rule of GitHub is
not assumed; a missing user token shows as calls that fail.

### MergeTrain

What a repository may rely on while DuneBot alone merges into it, without runs,
snapshots, polling or labels: the default branch takes one open pull request at a
time, one that contains its newest commit, has passed its checks on top of it and
was approved there. `PullRequestReview` implements it (`ImplementsMergeTrain`)
with

| `MergeTrain` | `PullRequestReview` |
|---|---|
| `state`, `tip` | `state`, `mainTip` |
| `base[p]` | the commit that the live head of `p` contains |
| `passed[p]` | CI of the live head has succeeded |
| `approved[p]` | there is an approval that was given to the live head |
| `Rebase`, `Pass`, `Close` | `UpdateBranch`, `FinishCI`, `ClosePullRequest` |
| `Approve`, `Merge` | `ApprovePullRequest`, `MergePullRequest` of a run |

All else is a stutter. A push by the author or to the default branch is not
among the steps of `MergeTrain`; that is what `MaxRev = MaxMain = 0` is for, and
`push_during_review` shows what such a push does. Neither is a head that has passed
and runs again: the merge would not wait for it, just as it does not for a push,
so `Reruns` has failures only where `MergeTrain` is to hold.

### Checks

One call of a wait, for a commit whose workflows are queued, run, end and run
again while the code looks at it. Time is counted in units of 20 seconds and passes
while the code sleeps; the calls take none.

| code (`pkg/github/client.go`) | definition |
|---|---|
| `Retry` with its defaults and signs (69-77, 699-715) | `Normal`; `RetryExceeded` (685-688) |
| `WaitForRebase` (293-316) | `WaitForRebase` |
| `AllWorkflowsPassed`: the pull request merged last and its workflows (459-527) | `ReadBaseline` |
| the loop that waits for as many workflows (528-560) | `CompareWithBaseline` |
| without a baseline (562-589) | `ListWorkflowRuns` |
| `WaitForStatusChecks` (591-683): the statuses and what follows from them | `CheckStatuses`, `Again`, `GiveUpOrAgain`, `End` |
| `WaitForPRChecksToPass` (189-233) | `Judge` with its two kinds |

A wait for statuses that asks `AllWorkflowsPassed` has two `Retry`s, one within the
other, and both count here. The abstractions: a turn reads the two lists of
statuses at one moment; each workflow has one check, named after it; `failure`
stands for cancelled, and `success` for skipped as well. Once the call has returned
the CI stands still, since nobody looks.

`Checks` is what two choices of `PullRequestReview` rest on: that `Retry` may run
out at any moment, and that a review is fair at every wait as long as checks end
(`OverdueOnlyForRunning`).

### Validator

The validators keep no state; what moves is the pull request they are asked
about. The module holds one config section (`include`) and one pull request that
is labelled, commented, tested, pushed to and gets older, and translates

| code | operator |
|---|---|
| `authors.go`, `labels.go`, `comments.go`, `age.go`, `requiredstatuses.go` with `compare.Complement` | `ForAuthors`, `ForLabels`, `ForComments`, `ForAge`, `ForRequiredStatuses` |
| `MatchedBranchConfig` (validators.go:29-63), its loop and one turn of it | `MatchedBranchConfig`, `Loop`, a recursive function, and `Visit` |
| the two verdicts (validators.go:65-146, 148-231) | `ValidateCommentsAndChecks`, `ValidateConditions` |
| the filter in front of the queue (cmd/pull_request.go:134-152) | `Handle` |

Prefixes of the name of the pull request's branch are numbers, their length; two
that match and are of one length are the same string. Lists that may be missing are
sets. The branch that the code finds to be nil is `None`; its validators
panic, so it accepts nothing. `Deciding` is the reference definition, without a
loop, that `MatchedBranchConfig` is checked against. A failed read of comments
or checks leaves an empty list and the verdict negative, as the missing ones do.

`Policies` and `CfgStatuses` of `PullRequestReview` are what this module
abstracts to there: one verdict that `Relabel` changes, and whether a section
lists the check.

### Dispatch

One run of the command, one action per call to GitHub, any of which may fail;
`args` holds the flags, whether it runs as an App or with an endpoint, and whether
its token belongs to a member of the organisation.

| code (`cmd/dispatch/dispatch.go`) | action |
|---|---|
| `run` (134-161): the repository of `--repo`, or those a token sees | `Run` |
| `listDuneBotRepositories` (86-132), which asks the web application | `ListDuneBotRepositories` |
| its handler (`cmd/app/handlers.go:23-116`): who may ask, and the repositories of its installation | `DuneBotRepositoriesHandler` |
| `listAllInstallations`, the loop of `runAppMode` (164-228) with its filters | `ListAllInstallations`, `Installation`, `FinishApp` |
| `dispatchForRepos` (232-320): the malformed name, a page, an event, the next page, the end | `SkipMalformed`, `ListPullRequests`, `SendEvent`, `NextPage`, `Return` |

`Page` is GitHub's: an offset into the list of the moment, newest first.
`Opened` and `Closed` move that list while the command runs. A failed event may
have reached GitHub or not. The constants are GitHub's lists; `ListedOnce` says
of them that a repository is in one installation and in no list twice, and a
pull request no more than once in the list of its repository.

### UserToken

The queue keeps reviews of one repository apart, but all of them use the token
of the one approver; so do requests of the dashboard
(`cmd/app/dashboard_handler.go:103-131`), which retrieve it, trade it and store it
like a review, under the context of a request that the browser may end. `Reviews`
stands for both. A review fetches it when it starts (`review.go:154`) and
asks the token source for it before each call that the approver makes. A token
is the number of its grant.

| code | action |
|---|---|
| `RetrieveToken`, `TokenSourceFrom`, `TokenSource` (`token.go:129-211`) | `TokenSourceFrom` |
| `DuneBotTokenSource.Token` (219-230): the trade in the library, with a refused, failed or lost answer; `StoreToken` | `Refresh`, `RefreshRefused`, `StoreToken` |
| the calls of `ghu` (`review.go:166`, `214`), the end of the review | `Call`, `Leave` |
| the device flows of the setup page (`app.go:193-258`), a goroutine for each request | `DeviceAccessToken`, `StoreLogin` |
| the revocation handler (`app_authorization.go`) | `Revoke` |

The token service is a program of its own and modelled as a register that may
fail; it is taken to accept reviews as well as the setup page. The library's
token source caches the token, so `StoreToken` would be repeated at the next
call; there is none, because a failed call ends the review.

### DuneBot

The composition: an event comes in, a handler loads the configuration and filters,
the queue keeps what passes, a review acts on it. Meanwhile configuration files
are edited, calls fail and the process ends. A slot is an event in the program.

| code | action |
|---|---|
| webhook; or `RepositoryDispatchHandler` (repository_dispatch.go:28-67), which makes one of a dispatch | `Deliver` |
| first call of `LoadConfig` (repoconfig.go:136-154, 179-183), for the file of the repository or else that of its owner (`Config`), and, unless a second one follows, the rest of the handler (pull_request.go:121-185) | `LoadConfig` |
| second call of `LoadConfig` (156-178), for the owner's file (`AtRef`), the overlay of `merge.go` (`MergeDeep`, `MergeBranches`, `MergeBranch`), the rest of the handler | `LoadGlobalConfig` |
| an error of either | `LoadFails` |
| the worker of a repository takes its next event (`review/queue.go`) | `Receive` |
| one review (`review.go`) | `Review` |
| a push to a `dunebot.yml` | `Edit`, `EditOrg` |
| the process is killed with all it holds, and started again | `Crash` |

The parts are modelled in detail elsewhere and stand here for what they promise:
the queue is `SerialQueue`, which `RepositoryQueue` implements; a review is one step
that merges what is open, favoured by everything else (`state = "ready"`) and
accepted by both sections of the configuration that came with the event, or fails,
or declines. It ends, as `ReviewsEnd` says.

A file is YAML, so a setting has a value, is null (`Null`) or is missing (`None`).
A section is an `include` with conditions of its own (`authors`, standing for labels
and comments, which are overlaid alike) and branches by their keys; a branch has
a `prefix` and conditions. A condition is the set of the pull requests that
satisfy it. `MergeDeep` recurses as `mergeDeep` does: into `include`, into its
branches, into the settings of each, and whatever is no map on both sides, null
included, replaces what it is laid over. `In` is the verdict of a review on the
result: the section's conditions, and those of one of its branches; `Passes` is the
filter of the handler, which looks at prefixes alone and lets a section without
branches pass.

`.github` of the owner has branches too. The fallback of the first call reads its own
default branch, `OrgRef`. The second call is told the default branch of the
*event's* repository, `refOf` (`pull_request.go:116`, `repoconfig.go:158`, `167`);
if `.github` has no file there, the same fallback (`repoconfig.go:138`) leads to
`OrgRef` again, so a difference in name alone loses nothing, but a file on a
branch that happens to be called so is the one that is read.

`seen` is history: every file that was in force since an event came in. An edit
exempts nothing from `MergedAsConfigured`, it only adds to what may account for a
merge. The two calls of `LoadConfig` may read files of two different moments, and the
property allows for that.

Left out: strict branches, of which one alone counts, and checks that hold for another
branch than the conditions, both of which are `Validator`'s; a branch that is null, which the
handler dereferences; `LOCAL_CONFIG_PATH`, which reads one file; a configuration
file that points to another repository, which `appconfig` resolves; and the webhook
actions that the handler skips (they change nothing; that "labeled" is one of them
is why `OneEventIsEnough` starts from an event that comes in when everything else is
done).

## Runs

| run | instance | shows |
|---|---|---|
| `queue` | 2 repositories, 3 events (2 + 1), 3 goroutines | all properties of the queue, the refinement and the two liveness properties. Two goroutines of one repository (one about to end, one new) beside one of the other is the most that can meet; two events of one repository are needed for order and hand-over |
| `review_queue` | 2 pull requests, 3 serial runs, no pushes, `Timely`, main with CI | what the queue and a prompt GitHub buy: the review implements `MergeTrain`, a head is merged as it was approved, never unless the default branch was green for a moment since the approval, and an approval is never followed by a silent return. Failed heads and the default branch may be run again once, or freely. The first merge outdates the second pull request, which must then be rebased; the third run meets a pull request that was reviewed before |
| `review_alone` | 1 direct run, 1 author push, 1 push to main, 3 verdicts, `Required` and `CfgStatuses`, not `Timely`, one further run of a head after either result | what holds without any promise: no merge without approval and conditions, and every review ends |
| `rebase_timeout` | as above without author push | violation, see below |
| `push_during_review` | `Timely`, one author push, the check not required | violation, see below |
| `checks` | 34 calls: every `Retry` at the edges for a rebase, limits below and above one turn for the others; 2 workflows, one of which runs twice, and 1 commit status | what passes is settled, a wait that gives up has had its time or its attempts, and only an unfinished check holds one beyond its time. Two workflows are the least of which one can be there and the other not, and a second run the least that can undo a first one |
| `validator` | 585 sections of up to 3 branches that differ in prefix and strictness; 520 of at most one branch with every field; 1024 of two branches that both match; against pull requests of 2 authors with two labels, one comment, one check and ages 0 to 2 | the loop selects what `Deciding` says, a nil branch included; a strict branch is only outranked by a longer prefix; the handler drops nothing that the conditions could accept; acceptance is lost only when something is taken away. Three branches are the least in which one comes before, one at and one after the first strict one |
| `minimal_config` | the same | violation, see below |
| `dispatch` | 2 installations of one repository, 3 pull requests on pages of 2 and one that is opened meanwhile, all flags and the endpoint, every call may fail, and a pull request may be closed where there is one page | none is forgotten, only what was asked for is sent, the exit status tells what it can, a second event needs a new pull request, the command ends. Two pages and one insertion are the least that make a list move under the reader |
| `user_token` | 2 concurrent reviews, 4 grants by login or trade, logins that overlap, revocation, crashes | a traded token stays stored only if its successor was lost; what a review uses was stored before; nothing traded is stored. 4 grants are the least for two logins and a trade by each review |
| `dunebot` | 1 repository, 2 pull requests, 2 events in the program; 3 files of the repository and 2 of its owner, on each of the branches `main` and `master`, with 2 branch keys; 1 edit or close, 1 failed call or restart | a pull request is merged only if it is ready and files in force since its event came in accept it, setting by setting; an event that comes in when the edits are over and the files accept is enough, if nothing fails; if events keep coming, what was lost is made up for. The repository has no file, one that sends the reader to the owner's, or one that takes back a condition of a section with null and changes a different setting of each branch: a replaced branch, a replaced section or an ignored null all accept something else. The default branch of the repository is `master`, that of `.github` is `main` |
| `dispatch_closing` | the same as `dispatch`, and pull requests are closed where there are two pages too | violation, see below |

Deadlock is checked for `Validator`, `UserToken` and `DuneBot`: elsewhere the queue is idle, the reviews
or the wait are over or the command has ended.

Bounds: `Events`, `Workers`, `Runs` and `PRs` by their sets; `MaxRev` author
pushes per pull request, `MaxMain` pushes of others to the default branch,
`MaxTip` commits of the default branch, `MaxRerun` further runs of a head's
workflows, `MaxTokens` grants, `MaxRuns` runs of each workflow in `Checks`; in
`DuneBot` `Slots`, `Keys` of the branches of a section, `MaxEdits` edits of
configuration files and closes of pull requests, and `MaxTrouble` failures and
restarts.
In `Checks` the clock stops one unit after the last moment at which a wait that heeds
its `Retry` goes on, and TLC is given 12 for `math.MaxInt32`: attempts without a
limit then run out before the time does where the pause is short, which only adds
steps; the proofs are for any number.

Each property of a passing run has a mutant of the code in `PROJECT.json` that
breaks it (the operators under "Plausible bugs" in the modules).

### What the code does otherwise than it says

- **A rebase that timed out is taken for done** (`review.go:175`): the code tests
  `err` where the error is in `tmplErr`. `RebaseIsDone` is violated.
- **The merge names no commit** (`client.go:368`): a head pushed after the last
  check is merged although no check has seen it, unless branch protection
  requires the check. `MergedIsGreen` is violated.
- **A section without branches accepts nothing** (`validators.go:188`): the
  handler lets it through to the review (`cmd/pull_request.go:139`), whose
  conditions fail with "Branch not found"; the minimal configuration of
  `README.md:17-31` has no branches. `MinimalConfigApproves` is violated. (That
  configuration also writes `include` as a list, where the code reads a mapping;
  and without `merge.include` nothing is ever merged.)

- **Dispatch pages through a list that shrinks** (`dispatch.go:316`): its own
  events start reviews that merge, so a pull request of the second page moves to
  the first, which has been read, and gets no event. `NobodyForgotten` is violated.

More that the modules show and no text of the repository contradicts: an
unfinished check is waited for without limit (`client.go:659-663` does not ask
`retryExceeded`), and the events of the repository wait behind it;
`OverdueOnlyForRunning` says that nothing else does this, and `ReviewsEnd` takes
`CIFairness` for it. Workflows are counted and not compared by name, so as many
as expected may be others; a pending commit status is a failure to
`WaitForStatusChecks` (`client.go:646`). After a
failed `StoreToken`, a lost answer or a crash at the wrong moment the approver's
token is spent, and every review that needs it fails until the approver logs in
again; a revocation never reaches the token service, because the handler's
configuration has no address and no access token for it;
the default branch of the repository picks the branch of `.github` whose file is
laid under (`repoconfig.go:158`, `167`), so a stale one of that name is used in place
of the owner's current file; a `.github` edited between the two calls of
`LoadConfig` may be read half before and half after; an author whose approved pull
request is not merged hears nothing if GitHub refuses the comment
(`client.go:289-291`);
with a token and no endpoint only the first page of repositories is read;
the conditions may hold for one branch and the checks for another, so no single
branch need accept the pull request; a strict branch discards the matching ones
whose keys sort before its own but competes with those after it; and the
`exclude` sections of `dunebot.yml` are read and never consulted.

One text disagrees with what `UserToken` is about and no property states it:
`PRIVACY.md:25-26` says that only the token of the App's installation is used and
that no token is persisted to disk. The approver's user token is used as well
(`review.go:154`, `166`, `214`), and it is handed to the token service to be kept
(`oauth2/token.go:219-230`); whether that program writes it to a disk is not in this
repository.

## Fairness

Dispatch: weak fairness of the command, which is one sequential program whose
calls return, well or badly.

User token: weak fairness of the next step of a review that is under way; each
of its calls returns, well or badly. Nobody has to log in.

DuneBot: weak fairness of the handler's steps for each event and of each
repository's worker; a call returns, well or badly, and a review ends. Neither
events nor edits nor failures need to happen. `HealedByDispatch` has its
assumption in the property, that events for the pull request keep coming, as from
a scheduled `dispatch`; that trouble is over some day is the bound `MaxTrouble`.

Queue: weak fairness of every goroutine and of the closer. The Go scheduler runs
what is runnable, and `sync.Mutex` hands itself to a waiter that starves, so a
goroutine at its lock gets it. A handler is assumed to return; the review
module shows when it does. Nobody has to add events or to shut down.

Review: weak fairness of the next call of each run (every wait except the one
for unfinished checks is limited by time, so it ends in one way or another), of
`UpdateBranch` and `StartCI` (GitHub does what it accepted), and of `FinishCI`
(`CIFairness`): GitHub ends a job that takes longer than its timeout, and without
it a review need not end. Starting a run is not fair.

Checks: none; its properties are about what a step may do and how long a wait has
lasted, and need no step to be taken.

## Proofs

TLAPS proves for any repositories, events, goroutines, pull requests, runs,
configuration and bounds, from the named assumptions on the constants alone:

- `RepositoryQueueProofs`: `TypeCorrect`, `Serial`, `InOrder`, `NoStranded`,
  `Drain` and `Refinement` (the queue implements `SerialQueue`).
  None of these is inductive alone. The invariant `IInv` says who owns a key:
  a key is in the map exactly when one goroutine in the loop has it as its
  prefix (until shutdown), an absent key has an empty slice, an idle repository
  has no open handler call, the goroutine that handles holds the event last
  started. For the shutdown it says that events counted in `before` are accepted,
  and that once the map was seen empty everything in `before` has been taken.
- `PullRequestReviewProofs`: `TypeCorrect`, `Reviewed` (`MergedIsReviewed`),
  `Answered` (`ApprovedIsAnswered`: a run that approved ends with a merge, a comment, a
failed call for one, or a panic) and `PolicyHeld` (`PolicyHeldDuringRun`). The invariant of a run: it keeps a pull
  request from its first fetch to its end; the verdict in what it keeps held at
  some moment since the run began; and past each gate it has what the gate asks
  for, the approval included. These theorems assume nothing of GitHub and
  hold for the direct reviewer too.
- `MergeTrainProofs`: `MergeTrainRefined` (`ImplementsMergeTrain`),
  `ApprovedAsMerged` (`MergedIsApproved`), `NeverOnRed` (`NothingOnRedMain`) and
  `GreenAtMerge` (`MergedIsGreen`), all under `Calm`: the queue reviewer, a `Timely`
  GitHub, a baseline, and nobody else pushing. Since one run is under way at a
  time, the default branch stands still while it lasts, and only GitHub moves the
  branch of the pull request, once, onto its tip; what has passed does not run again
(`"success" \notin Reruns`), what failed may. So the head a run keeps past the
  rebase is the live one on top of the tip until the run ends, and what it learns
  of that head is still true at the merge. The default branch may turn red, and green
again, at any time: `NeverOnRed` says that it was green at some moment since the
approval, which the read that ends the wait has seen. `rebase_timeout` shows what is lost
  without `Timely`, `push_during_review` what is lost once somebody pushes.
- `ChecksProofs`: `TypeCorrect`, `OnlyRunningHolds` (`OverdueOnlyForRunning`),
  `GivesUp` (`GivesUpInTime`) and `PassedSettled` (`PassedIsSettled`), for every
  `Retry`, any number of workflows and of their runs. The invariant relates the
  clock to the attempts (each has slept a whole pause), bounds it at every place of
  the call by what the outer and the inner `Retry` allow, and says that workflows
  once counted as enough stay enough.
- `ValidatorProofs`: `TypeCorrect` and `GainsKeep` (`GainsKeepAcceptance`), from
  the monotonicity of the single validators; the branch selected stays what it is
  there, since the section does not change. `Selects` (`SelectsDeciding`),
  `StrictFirst` (`StrictOutranks`) and `DropsHopeless`
  (`HandlerDropsOnlyHopeless`) say for sections of any length what the loop of
  `MatchedBranchConfig` selects. Their invariant has two shapes: up to the first
  strict branch that matches, all that matched are on the list; from it on, the one
  kept is the first with the longest prefix among those that matched since, and
  none is kept as long as no prefix is longer than empty. `LoopTurns`
  carries it through the turns by the least one at which it would fail, since
  the natural numbers are well-founded; the induction theorems of the library,
  which take an operator, are not used.
- `DispatchProofs`: `TypeCorrect`, `OnlyAsked` (`OnlyWhatWasAsked`) and
  `FailureTold` (`ExitTellsFailure`), from an invariant that says the repositories
  still to do were asked for, the page at hand is of the first of them, and,
  with a token, `firstErr` holds exactly when something failed.
  `NoneForgotten` (`NobodyForgotten`) holds as long as a repository whose pull
  requests are closed meanwhile has no more than fit on a page (`OnePage`): what
  is due an event is still to come, in the installations, the repositories or
  the pages ahead, since an insertion moves a pull request only to a later place.
  `dispatch_closing` shows that this condition is needed.
  `RepeatsBounded` (`RepeatsArePushedOn`) needs no such condition, only
  `ListedOnce`. Its invariant counts for each pull request: its events, and the
  one the page at hand still owes it, are at most the new pull requests of its
  repository, and one more once it is no longer further down the list; so each
  event but the first was paid for by an insertion that pushed it past the end of a
  page. `EndNearer` is the argument behind `Terminates`: turns, repositories,
  pages and events left are a rank that every step of the command lowers, one
  that fails too, and that nothing on GitHub raises, since a page counts for what
  may still be opened as well; that the rank then reaches its end is left to
  TLC. It needs finitely many pull requests to be there.
- `UserTokenProofs`: `TypeCorrect`, `NotStranded` (`SpentHasSuccessor`),
  `StoredFirst` (`SentOnlyStored`) and `NeverBack` (`StoreNeverGoesBack`), for any
  number of reviews. The invariant adds where tokens come from and that whoever
  holds a token that is not stored holds it alone; so nobody else can trade it,
  and it is still good when it is stored.
- `DuneBotProofs`: `TypeCorrect` and `AsConfigured` (`MergedAsConfigured`), for any
  files, keys, branches of `.github`, edits and failures. The invariant follows the
  configuration: the files of the moment are among those seen by each event
  (`NowIsSeen`), what the first call of `LoadConfig` returned is the first file of
  one of them (`First`, `FirstIsSeen`), and what waits or is reviewed accepts nothing
  that some of them do not accept together (`Faithful`, `LoadedIsSeen`). It needs that
  every event is at one place of its own repository. The lemma about `mergeDeep`,
  `InMergeDeep`, says that a section laid over another accepts only what both
  allow together, setting by setting (`Allowed`, which knows nothing of maps and
  recursion): where one of them is null, missing, or without branches as well.

Only model-checked: liveness (`AcceptedIsHandled`, `ShutdownEnds`, `ReviewsEnd`,
`Terminates`, `SpentIsReplaced`, `OneEventIsEnough`, `HealedByDispatch`), which
needs fairness and so `ENABLED`, out of the prover's reach here. Every other
property of a passing run is a theorem.

## Not modelled

- Temporal reviewer (`pkg/review/temporal.go`): it starts a workflow whose code
  is not in this repository.
- `parseDuration` and the file of `LOCAL_CONFIG_PATH`: pure conversions without
  behaviour over time. Strict and null branches in `DuneBot`, and configuration files
  that name another repository.
- The application's configuration (`appconfig.go`): read once at start.
- Service tokens (`pkg/auth`): signing and parsing; their validity window is the
  one thing that depends on time, and they are made anew for every call.
- The pages of the web application, its sessions and its wiring; of the dashboard,
  only its use of the token is here.
- Comments' wording (`error.go`, `pkg/template`), logging, version, update, build.

## Plan

Done: the queue with its refinement; the review, `MergeTrain` and the waits of the
client in detail; the validator; user tokens; dispatch; the composition; the proofs
above.

Left: `parseDuration` with its 64 bits; strict branches in the composition; ranks like that of `EndNearer` for a review and
for the closer of the queue.
