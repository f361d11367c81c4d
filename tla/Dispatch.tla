------------------------------ MODULE Dispatch ------------------------------
(* One run of the dispatch command (cmd/dispatch/dispatch.go): it pages        *)
(* through installations, repositories and open pull requests and sends an    *)
(* event for each, while pull requests come and go.                           *)
(*                                                                            *)
(* GitHub lists open pull requests newest first and serves a page as an offset *)
(* into the list of the moment.  Lists of installations and repositories do   *)
(* not change here, so reading all their pages is one step, and archived      *)
(* repositories are not in them.  The waits of pkg/backoff only take time.    *)
EXTENDS Naturals, FiniteSets, Sequences, SequencesExt

CONSTANTS Repos, PRs, repoOf,
          Installations,   \* the repositories of each, in the order of their names
          UserRepos,       \* those that a token lists
          Endpoint,        \* the installation of the web application at the endpoint
          Open0,           \* the open pull requests of each when the command starts
          PageSize,        \* pull requests on a page (50)
          RepoPage,        \* repositories on the one page that a token reads (30)
          MayClose,        \* where pull requests are merged or closed meanwhile
          Malformed,       \* a --repo that is not owner/name
          None             \* no filter; as a failure, that of the first listing

ASSUME DispatchAssumption ==
  /\ repoOf \in [PRs -> Repos]
  /\ Installations \in Seq(Seq(Repos)) /\ UserRepos \in Seq(Repos)
  /\ Endpoint \in DOMAIN Installations
  /\ Open0 \in [Repos -> Seq(PRs)]
  /\ \A r \in Repos : \A i \in DOMAIN Open0[r] : repoOf[Open0[r][i]] = r
  /\ PageSize \in Nat \ {0} /\ RepoPage \in Nat /\ MayClose \in SUBSET Repos
  /\ Malformed \notin Repos \cup {None} /\ None \notin Repos \cup PRs \cup Nat

\* GitHub lists a repository once, in the one installation of its owner, and a
\* pull request once.
ASSUME ListedOnce ==
  /\ \A i, j \in DOMAIN Installations :
       i # j => ToSet(Installations[i]) \cap ToSet(Installations[j]) = {}
  /\ \A i \in DOMAIN Installations : IsInjective(Installations[i])
  /\ IsInjective(UserRepos) /\ \A r \in Repos : IsInjective(Open0[r])

\* The flags and the configuration; member is whether the token belongs to a
\* member of the organisation.
Args == [app : BOOLEAN, dry : BOOLEAN, endpoint : BOOLEAN, member : BOOLEAN,
         repo : Repos \cup {None, Malformed}, installation : Nat \cup {None}]

VARIABLES args,       \* as above
          pc,         \* the call that comes next
          inst,       \* the installation at hand
          repos,      \* the repositories dispatchForRepos has still to do
          page, batch, more,   \* the page, what is left of it, is there another
          firstErr,   \* dispatchForRepos will return an error
          exit,       \* what the command returned
          open, unopened,      \* the pull requests on GitHub
          sent,       \* history: events sent for each
          failed      \* history: what a call failed for
cursor == <<inst, repos, page, batch, more>>
github == <<open, unopened>>
vars   == <<args, pc, cursor, firstErr, exit, github, sent, failed>>

-----------------------------------------------------------------------------
(* How the command ends, and how dispatchForRepos begins                      *)

Exit(how) == pc' = "done" /\ exit' = how

\* dispatchForRepos is called with these.
Begin(rs) == pc' = "page" /\ repos' = rs /\ page' = 1 /\ firstErr' = FALSE

-----------------------------------------------------------------------------
(* Plausible bugs: a missing --repo is used, a failed event ends the page, an *)
(* error is not noted, the filter of an installation is dropped, pages        *)
(* overlap, the loop over the installations ends one early.                   *)

RunUnfiltered ==
  /\ pc = "start" /\ ~ args.app
  /\ Begin(<<args.repo>>)
  /\ UNCHANGED <<args, inst, batch, more, exit, github, sent, failed>>

SendEventOrStop ==
  /\ pc = "events" /\ batch # <<>>
  /\ LET p == Head(batch) IN
       \/ /\ ~ args.dry /\ sent' = [sent EXCEPT ![p] = @ + 1] /\ batch' = Tail(batch)
          /\ UNCHANGED <<firstErr, failed>>
       \/ /\ ~ args.dry /\ batch' = <<>>
          /\ firstErr' = TRUE /\ failed' = failed \cup {p} /\ UNCHANGED sent
       \/ args.dry /\ batch' = Tail(batch) /\ UNCHANGED <<sent, firstErr, failed>>
  /\ UNCHANGED <<args, pc, inst, repos, page, more, exit, github>>

SendEventUnheard ==
  /\ pc = "events" /\ batch # <<>> /\ batch' = Tail(batch)
  /\ LET p == Head(batch) IN
       \/ ~ args.dry /\ sent' = [sent EXCEPT ![p] = @ + 1] /\ UNCHANGED <<firstErr, failed>>
       \/ ~ args.dry /\ failed' = failed \cup {p} /\ UNCHANGED <<sent, firstErr>>
       \/ args.dry /\ UNCHANGED <<sent, firstErr, failed>>
  /\ UNCHANGED <<args, pc, inst, repos, page, more, exit, github>>

AllOfInstallation(i) == Installations[i]

OverlappingPage(list, k) ==
  SubSeq(list, IF k = 1 THEN 1 ELSE (k - 1) * PageSize,
         IF k * PageSize < Len(list) THEN k * PageSize ELSE Len(list))

FinishAppAtLast ==
  /\ pc = "installation" /\ inst = Len(Installations) /\ Exit("ok")
  /\ UNCHANGED <<args, cursor, firstErr, github, sent, failed>>

-----------------------------------------------------------------------------
(* Which repositories                                                         *)

\* run without an endpoint: the repository of --repo, or one page of those of
\* the token.
Run ==
  /\ pc = "start" /\ ~ args.app
  /\ \/ args.repo # None /\ Begin(<<args.repo>>) /\ UNCHANGED <<exit, failed>>
     \/ /\ args.repo = None /\ ~ args.endpoint
        /\ Begin(SubSeq(UserRepos, 1, IF RepoPage < Len(UserRepos) THEN RepoPage ELSE Len(UserRepos)))
        /\ UNCHANGED <<exit, failed>>
     \/ /\ args.repo = None /\ ~ args.endpoint /\ Exit("error") /\ failed' = failed \cup {None}
        /\ UNCHANGED <<repos, page, firstErr>>
  /\ UNCHANGED <<args, inst, batch, more, github, sent>>

\* The web application answers a member of the organisation with the
\* repositories of its installation; others, and whenever one of its own calls
\* fails, with an error.
DuneBotRepositoriesHandler ==
  \/ args.member /\ Begin(Installations[Endpoint]) /\ UNCHANGED <<exit, failed>>
  \/ Exit("error") /\ failed' = failed \cup {None} /\ UNCHANGED <<repos, page, firstErr>>

\* run with an endpoint.
ListDuneBotRepositories ==
  /\ pc = "start" /\ ~ args.app /\ args.repo = None /\ args.endpoint
  /\ DuneBotRepositoriesHandler
  /\ UNCHANGED <<args, inst, batch, more, github, sent>>

ListAllInstallations ==
  /\ pc = "start" /\ args.app
  /\ \/ pc' = "installation" /\ inst' = 1 /\ UNCHANGED <<exit, failed>>
     \/ Exit("error") /\ failed' = failed \cup {None} /\ UNCHANGED inst
  /\ UNCHANGED <<args, repos, page, batch, more, firstErr, github, sent>>

\* Its repositories, or the one of --repo when it is among them.
OfInstallation(i) ==
  CASE args.repo = None                        -> Installations[i]
    [] args.repo \in ToSet(Installations[i])   -> <<args.repo>>
    [] OTHER                                   -> <<>>

\* One turn of the loop of runAppMode up to the call of dispatchForRepos.
Installation ==
  /\ pc = "installation" /\ inst <= Len(Installations)
  /\ \/ args.installation \notin {None, inst} /\ inst' = inst + 1
        /\ UNCHANGED <<pc, repos, page, firstErr, failed>>
     \/ args.installation \in {None, inst} /\ Begin(OfInstallation(inst))
        /\ UNCHANGED <<inst, failed>>
     \/ args.installation \in {None, inst} /\ inst' = inst + 1 /\ failed' = failed \cup {inst}
        /\ UNCHANGED <<pc, repos, page, firstErr>>
  /\ UNCHANGED <<args, batch, more, exit, github, sent>>

\* Errors of an installation are logged: the command succeeds.
FinishApp ==
  /\ pc = "installation" /\ inst > Len(Installations) /\ Exit("ok")
  /\ UNCHANGED <<args, cursor, firstErr, github, sent, failed>>

-----------------------------------------------------------------------------
(* dispatchForRepos                                                           *)

SkipMalformed ==
  /\ pc = "page" /\ repos # <<>> /\ Head(repos) = Malformed
  /\ repos' = Tail(repos)
  /\ UNCHANGED <<args, pc, inst, page, batch, more, firstErr, exit, github, sent, failed>>

\* Page k of a list; there is another while it ends before the list does.
Page(list, k) ==
  SubSeq(list, (k - 1) * PageSize + 1,
         IF k * PageSize < Len(list) THEN k * PageSize ELSE Len(list))

\* A failed call gives up the repository, its later pages included.
ListPullRequests ==
  /\ pc = "page" /\ repos # <<>> /\ Head(repos) # Malformed
  /\ LET r == Head(repos) IN
       \/ /\ pc' = "events" /\ batch' = Page(open[r], page)
          /\ more' = (page * PageSize < Len(open[r]))
          /\ UNCHANGED <<repos, page, firstErr, failed>>
       \/ /\ repos' = Tail(repos) /\ page' = 1
          /\ firstErr' = TRUE /\ failed' = failed \cup {r}
          /\ UNCHANGED <<pc, batch, more>>
  /\ UNCHANGED <<args, inst, exit, github, sent>>

\* An error is noted and the next event sent; GitHub may have taken the event.
SendEvent ==
  /\ pc = "events" /\ batch # <<>> /\ batch' = Tail(batch)
  /\ LET p == Head(batch) IN
       \/ ~ args.dry /\ sent' = [sent EXCEPT ![p] = @ + 1] /\ UNCHANGED <<firstErr, failed>>
       \/ /\ ~ args.dry /\ (UNCHANGED sent \/ sent' = [sent EXCEPT ![p] = @ + 1])
          /\ firstErr' = TRUE /\ failed' = failed \cup {p}
       \/ args.dry /\ UNCHANGED <<sent, firstErr, failed>>
  /\ UNCHANGED <<args, pc, inst, repos, page, more, exit, github>>

NextPage ==
  /\ pc = "events" /\ batch = <<>> /\ pc' = "page"
  /\ \/ more /\ page' = page + 1 /\ UNCHANGED repos
     \/ ~ more /\ repos' = Tail(repos) /\ page' = 1
  /\ UNCHANGED <<args, inst, batch, more, firstErr, exit, github, sent, failed>>

\* It returns: to the next installation, or out of the command with its error.
Return ==
  /\ pc = "page" /\ repos = <<>>
  /\ \/ args.app /\ pc' = "installation" /\ inst' = inst + 1 /\ UNCHANGED exit
     \/ ~ args.app /\ Exit(IF firstErr THEN "error" ELSE "ok") /\ UNCHANGED inst
  /\ UNCHANGED <<args, repos, page, batch, more, firstErr, github, sent, failed>>

Command == \/ Run \/ ListDuneBotRepositories \/ ListAllInstallations \/ Installation \/ FinishApp
           \/ SkipMalformed \/ ListPullRequests \/ SendEvent \/ NextPage \/ Return

-----------------------------------------------------------------------------
(* The pull requests while the command runs                                   *)

Opened(p) ==
  /\ pc # "done" /\ p \in unopened /\ unopened' = unopened \ {p}
  /\ open' = [open EXCEPT ![repoOf[p]] = <<p>> \o @]
  /\ UNCHANGED <<args, pc, cursor, firstErr, exit, sent, failed>>

\* Merged, possibly by the review that an event of this run has started.
Closed(r) ==
  /\ r \in MayClose /\ pc # "done"
  /\ \E i \in DOMAIN open[r] : open' = [open EXCEPT ![r] = RemoveAt(@, i)]
  /\ UNCHANGED <<args, pc, cursor, firstErr, exit, unopened, sent, failed>>

Init ==
  /\ args \in [app : BOOLEAN, dry : BOOLEAN, endpoint : BOOLEAN, member : BOOLEAN,
               repo : Repos \cup {None, Malformed},
               installation : DOMAIN Installations \cup {None}]
  /\ pc = "start" /\ inst = 0 /\ repos = <<>> /\ page = 1 /\ batch = <<>> /\ more = FALSE
  /\ firstErr = FALSE /\ exit = "none"
  /\ open = Open0 /\ unopened = PRs \ UNION {ToSet(Open0[r]) : r \in Repos}
  /\ sent = [p \in PRs |-> 0] /\ failed = {}

Next == Command \/ (\E p \in PRs : Opened(p)) \/ (\E r \in Repos : Closed(r))

Spec == Init /\ [][Next]_vars /\ WF_vars(Command)

-----------------------------------------------------------------------------
(* Properties                                                                 *)

\* The variables have their types.
TypeOK ==
  /\ args \in Args
  /\ pc \in {"start", "installation", "page", "events", "done"}
  /\ inst \in Nat /\ repos \in Seq(Repos \cup {Malformed})
  /\ page \in Nat \ {0} /\ batch \in Seq(PRs) /\ more \in BOOLEAN
  /\ firstErr \in BOOLEAN /\ exit \in {"none", "ok", "error"}
  /\ open \in [Repos -> Seq(PRs)] /\ unopened \in SUBSET PRs
  /\ sent \in [PRs -> Nat] /\ failed \in SUBSET (Repos \cup PRs \cup Nat \cup {None})

\* The flags ask for this repository, and the listing shows it.
Listed(r) ==
  /\ args.repo \in {None, r}
  /\ IF args.app
     THEN \E i \in DOMAIN Installations \ failed :
            args.installation \in {None, i} /\ r \in ToSet(Installations[i])
     ELSE \/ args.repo = r
          \/ args.endpoint /\ r \in ToSet(Installations[Endpoint])
          \/ ~ args.endpoint /\ \E i \in DOMAIN UserRepos : UserRepos[i] = r /\ i <= RepoPage

StillOpen == {p \in PRs : p \in ToSet(Open0[repoOf[p]]) /\ p \in ToSet(open[repoOf[p]])}

\* "Errors for individual repos/PRs are logged but do not stop processing of
\* others" (dispatch.go:231): a pull request that was open all the time has got
\* its event, unless its own call, or the listing of its own repository or
\* installation, failed.
NobodyForgotten ==
  pc = "done" /\ ~ args.dry /\ None \notin failed =>
    \A p \in StillOpen :
      Listed(repoOf[p]) /\ {p, repoOf[p]} \cap failed = {} => sent[p] > 0

\* With a token the command fails exactly when some call did, whatever came
\* after it; as an App it fails only when it could not list its installations.
ExitTellsFailure ==
  pc = "done" => (exit = "error" <=> IF args.app THEN None \in failed ELSE failed # {})

\* The flags, and what may be listed for them, name this repository.
AskedFor(r) ==
  /\ args.repo \in {None, r}
  /\ args.app => \E i \in DOMAIN Installations :
                   args.installation \in {None, i} /\ r \in ToSet(Installations[i])
  /\ ~ args.app /\ args.repo = None /\ args.endpoint =>
       args.member /\ r \in ToSet(Installations[Endpoint])
  /\ ~ args.app /\ args.repo = None /\ ~ args.endpoint => r \in ToSet(UserRepos)

\* An event is sent only for what the flags ask for, in every mode: none in a
\* dry run, none for another repository or installation, and with an endpoint
\* only for those of its installation, and of a member.
OnlyWhatWasAsked ==
  \A p \in PRs : sent[p] > 0 => ~ args.dry /\ AskedFor(repoOf[p])

\* The review of a pull request is asked for again in one run only because the
\* list was pushed on by new ones, once for each at most.
RepeatsArePushedOn ==
  \A p \in PRs :
    sent[p] <= 1 + Cardinality({q \in PRs \ unopened :
                                  repoOf[q] = repoOf[p] /\ q \notin ToSet(Open0[repoOf[q]])})

\* The command ends, however many calls fail.
Terminates == <>(pc = "done")
=============================================================================
