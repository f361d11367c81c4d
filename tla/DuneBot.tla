------------------------------ MODULE DuneBot ------------------------------
(* From an event of GitHub to the merge: the handlers of cmd/ load the         *)
(* configuration (pkg/config) and filter, the queue keeps what passes, and a   *)
(* review acts on it, while files are edited, calls fail and the process is    *)
(* restarted.  The queue is what RepositoryQueue implements, SerialQueue, and  *)
(* a review is the last step of what PullRequestReview does.                  *)
(*                                                                            *)
(* A file is YAML: a setting of it has a value, is null (Null) or is missing   *)
(* (None).  A section is the "include" of approve or of merge, with conditions *)
(* of its own and branches by their keys.  A condition (the authors, for all   *)
(* lists) and the prefix of a branch are the pull requests that satisfy them;  *)
(* null, missing and an empty list ask for nothing.  Strict branches, of which *)
(* one alone counts, are Validator's.  Webhooks with other actions, as         *)
(* "labeled", are dropped after the configuration is loaded, and are left out. *)
EXTENDS Naturals, FiniteSets, Sequences

CONSTANTS Repos, PRs, repoOf,
          Refs,            \* branches that repositories have, .github among them
          refOf,           \* the default branch of a repository
          OrgRef,          \* and that of .github of the owner
          Keys,            \* bound: keys of the branches of a section
          Slots,           \* bound: events in the program at one time
          Files,           \* dunebot.yml files that a repository may have
          OrgFiles,        \* and those that .github of its owner may have
          MaxEdits,        \* bound: edits of these files, and closes of pull requests
          MaxTrouble,      \* bound: failed calls and restarts
          Null, None

IsMap(x) == x \notin {Null, None}

\* A branch that is null is left out: the handlers dereference it.
Modes      == {"override", "original", "merge"}     \* _config, override by default
Leaves     == {Null, None} \cup SUBSET PRs
Branches   == [prefix : Leaves, authors : Leaves]
BranchMaps == [Keys -> Branches \cup {None}]
Includes   == [authors : Leaves, branches : BranchMaps \cup {Null, None}]
Sections   == Includes \cup {Null, None}
Configs    == [approve : Sections, merge : Sections]
Contents   == [mode : Modes, approve : Sections, merge : Sections]

ASSUME DuneBotAssumption ==
  /\ repoOf \in [PRs -> Repos] /\ refOf \in [Repos -> Refs] /\ OrgRef \in Refs
  /\ MaxEdits \in Nat /\ MaxTrouble \in Nat
  /\ Files \cup OrgFiles \subseteq Contents \cup {None}
  /\ None # Null
  /\ \A x \in Branches : IsMap(x)
  /\ \A x \in BranchMaps : IsMap(x)
  /\ \A x \in Includes : IsMap(x)
  /\ None \notin Contents /\ Null \notin Contents
  /\ None \notin Slots /\ None \notin PRs /\ None \notin Configs

VARIABLES file,            \* the configuration file of each repository
          orgFile,         \* that of .github, on each of its branches
          state,           \* the pull requests; "ready" if labels, checks, ... favour it
          pc, pr, open,    \* of a slot: where the event is, its pull request; was it open
          got, cfg,        \* the first file that LoadConfig read; what it returned
          queue, busy,     \* of a repository: waiting events, the one under review
          edits, trouble,  \* how often each happened
          seen             \* history: the files there were since an event came in
github  == <<state, edits, file, orgFile>>
process == <<pc, pr, open, got, cfg, queue, busy>>
vars    == <<process, trouble, github, seen>>

-----------------------------------------------------------------------------
(* What is open, and what a section accepts                                   *)

Open(p) == state[p] \in {"open", "ready"}

Lets(leaf, p) == IsMap(leaf) => p \in leaf
Found(section) == IF IsMap(section) /\ IsMap(section.branches)
                  THEN {section.branches[k] : k \in Keys} \ {None} ELSE {}

In(section, p) ==
  /\ IsMap(section) /\ Lets(section.authors, p)
  /\ \E b \in Found(section) : Lets(b.prefix, p) /\ Lets(b.authors, p)

-----------------------------------------------------------------------------
(* mergeDeep, level by level: maps are merged by their keys, anything else    *)
(* replaces what it is laid over, and null is something.                      *)

Over(dest, src) == IF src = None THEN dest ELSE src

\* Plausible bug: a branch replaces the whole branch of its key.
ReplaceBranch(dest, src) == Over(dest, src)

MergeBranch(dest, src) ==
  IF IsMap(dest) /\ IsMap(src)
  THEN [prefix  |-> Over(dest.prefix, src.prefix),
        authors |-> Over(dest.authors, src.authors)]
  ELSE Over(dest, src)

MergeBranches(dest, src) ==
  IF IsMap(dest) /\ IsMap(src) THEN [k \in Keys |-> MergeBranch(dest[k], src[k])]
  ELSE Over(dest, src)

MergeDeep(dest, src) ==
  IF IsMap(dest) /\ IsMap(src)
  THEN [authors  |-> Over(dest.authors, src.authors),
        branches |-> MergeBranches(dest.branches, src.branches)]
  ELSE Over(dest, src)

Unmarshal(f) == [approve |-> f.approve, merge |-> f.merge]

-----------------------------------------------------------------------------
(* Plausible bugs: the event is queued before its configuration is loaded, the *)
(* default of the owner is not looked for, every branch has to match in the    *)
(* handler.                                                                   *)

DeliverToQueue(p, d) ==
  /\ pc[d] = "free" /\ pc' = [pc EXCEPT ![d] = "queued"]
  /\ pr' = [pr EXCEPT ![d] = p] /\ open' = [open EXCEPT ![d] = Open(p)]
  /\ queue' = [queue EXCEPT ![repoOf[p]] = Append(@, d)]
  /\ UNCHANGED <<github, got, cfg, busy, trouble, seen>>

LocalConfig(r) == file[r]

PassesAll(section, p) ==
  IsMap(section) /\ \A b \in Found(section) : Lets(b.prefix, p)

-----------------------------------------------------------------------------
(* What LoadConfig returns, and what the handler lets pass                    *)

EmptyConfig == [approve |-> None, merge |-> None]

Merge(org, f) ==
  IF org = None THEN Unmarshal(f)
  ELSE [approve |-> MergeDeep(org.approve, f.approve), merge |-> MergeDeep(org.merge, f.merge)]

\* The handler looks at prefixes alone, and lets a section without branches
\* pass, the review does not.
Passes(section, p) ==
  IsMap(section) /\ (Found(section) = {} \/ \E b \in Found(section) : Lets(b.prefix, p))

-----------------------------------------------------------------------------
(* The steps of an event                                                      *)

NothingSeen == [own |-> {}, org |-> {}]

Free(d) ==
  /\ pc' = [pc EXCEPT ![d] = "free"] /\ pr' = [pr EXCEPT ![d] = None]
  /\ open' = [open EXCEPT ![d] = FALSE]
  /\ got' = [got EXCEPT ![d] = None] /\ cfg' = [cfg EXCEPT ![d] = None]
  /\ seen' = [seen EXCEPT ![d] = NothingSeen]

Drop(d) == Free(d) /\ UNCHANGED <<queue, busy>>

Trouble == trouble < MaxTrouble /\ trouble' = trouble + 1

\* What is left of Handle when c is loaded: the filters, and AddEvent.
Handle(d, c) ==
  \/ /\ open[d] /\ Passes(c.approve, pr[d])
     /\ pc' = [pc EXCEPT ![d] = "queued"] /\ cfg' = [cfg EXCEPT ![d] = c]
     /\ got' = [got EXCEPT ![d] = None]
     /\ queue' = [queue EXCEPT ![repoOf[pr[d]]] = Append(@, d)]
     /\ UNCHANGED <<pr, open, busy, seen>>
  \/ ~ (open[d] /\ Passes(c.approve, pr[d])) /\ Drop(d)

-----------------------------------------------------------------------------
(* Events                                                                     *)

\* A webhook, or a repository_dispatch that RepositoryDispatchHandler turns
\* into one; the payload has the state of the moment.
Deliver(p, d) ==
  /\ pc[d] = "free" /\ pc' = [pc EXCEPT ![d] = "load"]
  /\ pr' = [pr EXCEPT ![d] = p] /\ open' = [open EXCEPT ![d] = Open(p)]
  /\ seen' = [seen EXCEPT ![d] = [own |-> {file[repoOf[p]]}, org |-> {orgFile}]]
  /\ UNCHANGED <<github, got, cfg, queue, busy, trouble>>

\* What appconfig finds: the file of the repository, or that of its owner on
\* the default branch of .github.
Config(r) == IF file[r] # None THEN file[r] ELSE orgFile[OrgRef]

\* Asked for .github itself it reads the branch it is told, the one that is
\* called like the default branch of the repository, and falls back likewise.
AtRef(r) == IF orgFile[refOf[r]] # None THEN orgFile[refOf[r]] ELSE orgFile[OrgRef]

LoadConfig(d) ==
  /\ pc[d] = "load"
  /\ LET c == Config(repoOf[pr[d]]) IN
       \/ c = None /\ Drop(d)
       \/ /\ c # None /\ c.mode \in {"original", "merge"}
          /\ pc' = [pc EXCEPT ![d] = "global"] /\ got' = [got EXCEPT ![d] = c]
          /\ UNCHANGED <<pr, open, cfg, queue, busy, seen>>
       \/ c # None /\ c.mode = "override" /\ Handle(d, Unmarshal(c))
  /\ UNCHANGED <<github, trouble>>

\* The second call asks for the file of the owner, which may be missing.
LoadGlobalConfig(d) ==
  /\ pc[d] = "global"
  /\ LET org == AtRef(repoOf[pr[d]]) IN
       \/ /\ got[d].mode = "original"
          /\ Handle(d, IF org = None THEN EmptyConfig ELSE Unmarshal(org))
       \/ got[d].mode = "merge" /\ Handle(d, Merge(org, got[d]))
  /\ UNCHANGED <<github, trouble>>

LoadFails(d) ==
  /\ pc[d] \in {"load", "global"} /\ Trouble /\ Drop(d)
  /\ UNCHANGED github

Receive(r) ==
  /\ busy[r] = None /\ queue[r] # <<>>
  /\ busy' = [busy EXCEPT ![r] = Head(queue[r])]
  /\ queue' = [queue EXCEPT ![r] = Tail(@)]
  /\ pc' = [pc EXCEPT ![Head(queue[r])] = "review"]
  /\ UNCHANGED <<github, pr, open, got, cfg, trouble, seen>>

\* The review merges what is open, ready and accepted by both sections, or it
\* fails; it returns without a merge otherwise.
Review(r) ==
  /\ busy[r] # None
  /\ LET d == busy[r]
         p == pr[d]
         accepted == state[p] = "ready" /\ In(cfg[d].approve, p) /\ In(cfg[d].merge, p)
     IN /\ Free(d) /\ busy' = [busy EXCEPT ![r] = None]
        /\ \/ accepted /\ state' = [state EXCEPT ![p] = "merged"] /\ UNCHANGED trouble
           \/ ~ accepted /\ UNCHANGED <<state, trouble>>
           \/ Trouble /\ UNCHANGED state
  /\ UNCHANGED <<file, orgFile, edits, queue>>

-----------------------------------------------------------------------------
(* The world                                                                  *)

\* Events that are under way, for the history.
SeeFiles ==
  seen' = [d \in Slots |->
             IF pc[d] = "free" THEN seen[d]
             ELSE [own |-> seen[d].own \cup {file'[repoOf[pr[d]]]},
                   org |-> seen[d].org \cup {orgFile'}]]

Edit(r, f) ==
  /\ edits < MaxEdits /\ edits' = edits + 1 /\ file[r] # f
  /\ file' = [file EXCEPT ![r] = f]
  /\ UNCHANGED <<orgFile, state, process, trouble>>
  /\ SeeFiles

EditOrg(b, f) ==
  /\ edits < MaxEdits /\ edits' = edits + 1 /\ orgFile[b] # f
  /\ orgFile' = [orgFile EXCEPT ![b] = f]
  /\ UNCHANGED <<file, state, process, trouble>>
  /\ SeeFiles

Favour(p) ==
  /\ state[p] = "open" /\ state' = [state EXCEPT ![p] = "ready"]
  /\ UNCHANGED <<file, orgFile, edits, process, trouble, seen>>

Abandon(p) ==
  /\ Open(p) /\ edits < MaxEdits /\ edits' = edits + 1
  /\ state' = [state EXCEPT ![p] = "closed"]
  /\ UNCHANGED <<file, orgFile, process, trouble, seen>>

\* The process ends, with everything the queue holds, and starts again.
Crash ==
  /\ Trouble /\ \E d \in Slots : pc[d] # "free"
  /\ pc' = [d \in Slots |-> "free"] /\ pr' = [d \in Slots |-> None]
  /\ open' = [d \in Slots |-> FALSE] /\ got' = [d \in Slots |-> None]
  /\ cfg' = [d \in Slots |-> None]
  /\ queue' = [r \in Repos |-> <<>>] /\ busy' = [r \in Repos |-> None]
  /\ seen' = [d \in Slots |-> NothingSeen]
  /\ UNCHANGED github

Init ==
  /\ file \in [Repos -> Files] /\ orgFile \in [Refs -> OrgFiles]
  /\ state = [p \in PRs |-> "open"]
  /\ pc = [d \in Slots |-> "free"] /\ pr = [d \in Slots |-> None]
  /\ open = [d \in Slots |-> FALSE] /\ got = [d \in Slots |-> None]
  /\ cfg = [d \in Slots |-> None]
  /\ queue = [r \in Repos |-> <<>>] /\ busy = [r \in Repos |-> None]
  /\ edits = 0 /\ trouble = 0 /\ seen = [d \in Slots |-> NothingSeen]

Step(d) == LoadConfig(d) \/ LoadGlobalConfig(d)
Work(r) == Receive(r) \/ Review(r)

Next ==
  \/ \E p \in PRs, d \in Slots : Deliver(p, d)
  \/ \E d \in Slots : Step(d) \/ LoadFails(d)
  \/ \E r \in Repos : Work(r)
  \/ \E r \in Repos, f \in Files : Edit(r, f)
  \/ \E b \in Refs, f \in OrgFiles : EditOrg(b, f)
  \/ \E p \in PRs : Favour(p) \/ Abandon(p)
  \/ Crash

Spec ==
  /\ Init /\ [][Next]_vars
  /\ \A d \in Slots : WF_vars(Step(d))
  /\ \A r \in Repos : WF_vars(Work(r))

-----------------------------------------------------------------------------
(* Properties                                                                 *)

\* The variables have their types; what waits or is reviewed has a configuration.
TypeOK ==
  /\ file \in [Repos -> Files] /\ orgFile \in [Refs -> OrgFiles]
  /\ state \in [PRs -> {"open", "ready", "merged", "closed"}]
  /\ pc \in [Slots -> {"free", "load", "global", "queued", "review"}]
  /\ pr \in [Slots -> PRs \cup {None}] /\ open \in [Slots -> BOOLEAN]
  /\ got \in [Slots -> Files \cup OrgFiles \cup {None}]
  /\ cfg \in [Slots -> Configs \cup {None}]
  /\ \A d \in Slots : pc[d] \in {"queued", "review"} => cfg[d] \in Configs
  /\ queue \in [Repos -> Seq(Slots)] /\ busy \in [Repos -> Slots \cup {None}]
  /\ edits \in 0 .. MaxEdits /\ trouble \in 0 .. MaxTrouble
  /\ seen \in [Slots -> [own : SUBSET Files, org : SUBSET [Refs -> OrgFiles]]]

\* What a file says about a setting: its value, that it is null, or nothing.  A
\* file that has null for the whole says so of every part.
At(x, key) == IF IsMap(x) THEN x[key] ELSE x

\* The file of a repository decides each setting it says anything about, its
\* owner's the others.
Say(own, org) == IF own # None THEN own ELSE org

\* What two sections together allow, setting by setting.
Allowed(own, org, p) ==
  /\ IsMap(Say(own, org))
  /\ Lets(Say(At(own, "authors"), At(org, "authors")), p)
  /\ \E k \in Keys :
       LET o == At(At(own, "branches"), k)
           g == At(At(org, "branches"), k)
       IN /\ IsMap(Say(o, g))
          /\ Lets(Say(At(o, "prefix"), At(g, "prefix")), p)
          /\ Lets(Say(At(o, "authors"), At(g, "authors")), p)

\* Whether the files accept a pull request: the file of its repository is own,
\* its owner's files are g when the first is looked for and h when the second is.
\* A repository without a file has its owner's, whatever its _config is; the
\* second file comes from another branch of .github, if there is one there.
Accepts(p, own, g, h) ==
  LET first  == IF own # None THEN own ELSE g[OrgRef]
      second == IF h[refOf[repoOf[p]]] # None THEN h[refOf[repoOf[p]]] ELSE h[OrgRef]
      Both(f, x) == /\ Allowed(At(f, "approve"), At(x, "approve"), p)
                    /\ Allowed(At(f, "merge"), At(x, "merge"), p)
  IN /\ first # None
     /\ CASE first.mode = "override" -> Both(first, None)
          [] first.mode = "original" -> Both(second, None)
          [] first.mode = "merge"    -> Both(first, second)

Acceptable(p) == state[p] = "ready" /\ Accepts(p, file[repoOf[p]], orgFile, orgFile)

\* A pull request is merged only if it is ready and files that were in force
\* since its event came in accept it, edited or not in the meantime: what
\* LoadConfig reads in two calls, the overlay, the filters and the waiting in the
\* queue accept nothing that no such files together do, setting by setting.
MergedAsConfigured ==
  [][\A p \in PRs : state[p] # "merged" /\ state'[p] = "merged" =>
       LET s == seen[busy[repoOf[p]]] IN
       /\ state[p] = "ready"
       /\ \E own \in s.own, g \in s.org, h \in s.org : Accepts(p, own, g, h)]_vars

\* One event is enough: when no file is edited and no pull request closed any
\* more, what is acceptable when it comes in, and stays so, is merged, unless a
\* call fails or the process restarts.  (A merged one is no longer acceptable.)
OneEventIsEnough ==
  \A p \in PRs :
    (/\ edits = MaxEdits
     /\ \E d \in Slots : pc[d] = "load" /\ pr[d] = p /\ open[d]
     /\ Acceptable(p)) ~> (trouble > 0 \/ ~ Acceptable(p))

\* Dispatch makes up for everything that was lost, in a failed call, with the
\* queue of a process that ended, by an edit between the two calls of LoadConfig,
\* or with a webhook whose action is ignored: a pull request that stays
\* acceptable is merged if events for it keep coming.
HealedByDispatch ==
  \A p \in PRs :
    []<><<\E d \in Slots : Deliver(p, d)>>_vars => []<>(~ Acceptable(p))
=============================================================================
