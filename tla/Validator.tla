------------------------------ MODULE Validator ------------------------------
(* The verdicts of pkg/validator on a pull request that changes, and the       *)
(* filter of cmd/pull_request.go in front of them.                             *)
(*                                                                            *)
(* One config section (approve or merge) and one pull request.  A branch of   *)
(* the section is what its validators read; its prefix is the number of       *)
(* characters it shares with the name of the pull request's branch, so two    *)
(* prefixes of one length are the same, and None when it is no prefix of it.  *)
(* The branches are in the order of their keys, as MatchedBranchConfig sorts  *)
(* them.  NewValidator never asks to fail fast, so every validator is asked.  *)
EXTENDS Naturals, Sequences

CONSTANTS Authors, Labels, Comments, Statuses,
          MaxPrefix,    \* length of the name of the pull request's branch
          MaxAge,       \* bound: ages of pull requests, in units of time
          Sections,     \* the "include" of the config sections considered
          None          \* no section, no branch, no age, a prefix of another name

Branches ==
  [prefix : 0..MaxPrefix \cup {None}, strict : BOOLEAN,
   authors : SUBSET Authors, labels : SUBSET Labels, age : 0..MaxAge \cup {None},
   comments : SUBSET Comments, required_statuses : SUBSET Statuses]

PullRequests ==
  [author : Authors, labels : SUBSET Labels, age : 0..MaxAge,
   comments : SUBSET Comments, statuses : SUBSET Statuses]

ASSUME ValidatorAssumption ==
  /\ MaxPrefix \in Nat /\ MaxAge \in Nat
  /\ None \notin Nat \cup Branches
  /\ \A s \in Sections : s # None =>
       /\ s.authors \subseteq Authors /\ s.labels \subseteq Labels
       /\ s.comments \subseteq Comments
       /\ s.branches \in Seq(Branches)

VARIABLES include,      \* the section, None when dunebot.yml has none
          pr            \* the pull request; its statuses are the passed ones
vars == <<include, pr>>

-----------------------------------------------------------------------------
(* Plausible bug: the labels have to be exactly those of the section.         *)
ForExactLabels(labels, clabels) == clabels = {} \/ clabels = labels

-----------------------------------------------------------------------------
(* Single validators: a list that is empty or missing asks for nothing        *)

ForAuthors(author, authors)   == authors = {} \/ author \in authors
ForLabels(labels, clabels)    == clabels \subseteq labels
ForComments(comments, wanted) == wanted \subseteq comments

\* Strictly older: a pull request of exactly that age has to wait.
ForAge(age, required) == required = None \/ age > required

\* compare.Complement of the passed statuses in the required ones is empty.
ForRequiredStatuses(passed, required) == required \ passed = {}

-----------------------------------------------------------------------------
(* Plausible bugs: the first strict branch for the longest, the longest       *)
(* prefix of all for that of the strict ones, a filter that looks at one      *)
(* branch, a clock that runs over its bound.                                  *)

VisitFirstStrict(s, b) ==
  IF b.prefix = None THEN s
  ELSE LET strict == s.strict \/ b.strict IN
       [strict |-> strict,
        only   |-> IF strict /\ s.only = None /\ b.prefix > 0 THEN b ELSE s.only,
        max    |-> IF strict /\ s.only = None THEN b.prefix ELSE s.max,
        found  |-> IF strict THEN s.found ELSE Append(s.found, b)]

VisitAnyLongest(s, b) ==
  IF b.prefix = None THEN s
  ELSE LET strict == s.strict \/ b.strict IN
       [strict |-> strict,
        only   |-> IF strict /\ b.prefix > s.max THEN b ELSE s.only,
        max    |-> IF b.prefix > s.max THEN b.prefix ELSE s.max,
        found  |-> IF strict THEN s.found ELSE Append(s.found, b)]

HandleFirstBranch(s) ==
  s # None /\ (s.branches = <<>> \/ s.branches[1].prefix # None)

GetEvenOlder == pr.age <= MaxAge /\ pr' = [pr EXCEPT !.age = @ + 1] /\ UNCHANGED include

-----------------------------------------------------------------------------
(* Which branches of the section count                                        *)

\* One turn of the loop.  From the first strict branch on only the longest
\* prefix counts, and one of length 0 is never longer than none.
Visit(s, b) ==
  IF b.prefix = None THEN s
  ELSE LET strict == s.strict \/ b.strict
           longer == strict /\ b.prefix > s.max
       IN
       [strict |-> strict,
        only   |-> IF longer THEN b ELSE s.only,
        max    |-> IF longer THEN b.prefix ELSE s.max,
        found  |-> IF strict THEN s.found ELSE Append(s.found, b)]

\* What the loop has found after each turn.
Loop(branches) ==
  LET turn[i \in 0..Len(branches)] ==
        IF i = 0 THEN [strict |-> FALSE, only |-> None, max |-> 0, found |-> <<>>]
                 ELSE Visit(turn[i - 1], branches[i])
  IN turn

MatchedBranchConfig(branches) ==
  LET s == Loop(branches)[Len(branches)]
  IN IF s.strict THEN {s.only} ELSE {s.found[i] : i \in DOMAIN s.found}

-----------------------------------------------------------------------------
(* The two verdicts on a section, and the filter in front of the queue.  The   *)
(* branch nobody found is no branch: its validators panic, nothing is accepted *)

ValidateConditions(s, p) ==
  /\ s # None
  /\ ForAuthors(p.author, s.authors) /\ ForLabels(p.labels, s.labels)
  /\ \E b \in MatchedBranchConfig(s.branches) \cap Branches :
       /\ ForAuthors(p.author, b.authors) /\ ForLabels(p.labels, b.labels)
       /\ ForAge(p.age, b.age)

\* Comments that cannot be read are no comments.
ValidateCommentsAndChecks(s, p) ==
  LET found == MatchedBranchConfig(s.branches) IN
  /\ s # None
  /\ ForComments(p.comments, s.comments)
  /\ found = {} \/ \E b \in found \cap Branches :
                     /\ ForComments(p.comments, b.comments)
                     /\ ForRequiredStatuses(p.statuses, b.required_statuses)

\* PRHandler.Handle hands the event on.
Handle(s) ==
  s # None /\ (s.branches = <<>> \/ \E i \in DOMAIN s.branches : s.branches[i].prefix # None)

-----------------------------------------------------------------------------
(* The pull request                                                           *)

\* The pull request has just been opened.
Init ==
  /\ include \in Sections \cup {None}
  /\ pr \in [author : Authors, labels : SUBSET Labels, age : {0},
             comments : {{}}, statuses : {{}}]

Label    == (\E l \in Labels :   pr' = [pr EXCEPT !.labels = @ \cup {l}])   /\ UNCHANGED include
Unlabel  == (\E l \in Labels :   pr' = [pr EXCEPT !.labels = @ \ {l}])      /\ UNCHANGED include
Comment  == (\E c \in Comments : pr' = [pr EXCEPT !.comments = @ \cup {c}]) /\ UNCHANGED include
Finish   == (\E s \in Statuses : pr' = [pr EXCEPT !.statuses = @ \cup {s}]) /\ UNCHANGED include
Rerun    == (\E s \in Statuses : pr' = [pr EXCEPT !.statuses = @ \ {s}])    /\ UNCHANGED include
Push     == pr' = [pr EXCEPT !.statuses = {}] /\ UNCHANGED include
GetOlder == pr.age < MaxAge /\ pr' = [pr EXCEPT !.age = @ + 1] /\ UNCHANGED include

Next == Label \/ Unlabel \/ Comment \/ Finish \/ Rerun \/ Push \/ GetOlder
Spec == Init /\ [][Next]_vars

-----------------------------------------------------------------------------
(* Properties                                                                 *)

\* The variables have their types.
TypeOK == include \in Sections \cup {None} /\ pr \in PullRequests

Matching(branches) == {i \in DOMAIN branches : branches[i].prefix # None}

\* The branches that decide, said without a loop: all that match while none of
\* them is strict; else, of those at or after the first strict one in the order
\* of the keys, the first with the longest prefix, which must not be empty.
Deciding(branches) ==
  LET strict == {i \in Matching(branches) : branches[i].strict}
      rest   == {i \in Matching(branches) : \E j \in strict : j <= i}
      best   == {i \in rest : /\ branches[i].prefix > 0
                              /\ \A j \in rest : branches[j].prefix <= branches[i].prefix
                              /\ \A j \in rest : branches[j].prefix = branches[i].prefix => i <= j}
  IN IF strict = {} THEN {branches[i] : i \in Matching(branches)}
     ELSE IF best = {} THEN {None} ELSE {branches[i] : i \in best}

\* The loop of MatchedBranchConfig selects exactly the deciding branches; the
\* branch that the validators dereference is nil only if every candidate of a
\* strict selection has an empty prefix.
SelectsDeciding ==
  include # None => MatchedBranchConfig(include.branches) = Deciding(include.branches)

\* When a strict branch matches, one branch alone decides, and no matching
\* strict branch has a longer prefix than that one: whatever the keys are
\* called, a rule for "renovate/major" is not overruled by one for "renovate".
StrictOutranks ==
  include # None =>
    \A i \in Matching(include.branches) :
      include.branches[i].strict =>
        \E b \in MatchedBranchConfig(include.branches) :
          /\ MatchedBranchConfig(include.branches) = {b}
          /\ b = None \/ b.prefix >= include.branches[i].prefix

\* An event that the handler drops for its branch could not have passed the
\* conditions of the section, now or later: the filter loses no pull request.
HandlerDropsOnlyHopeless == ~ Handle(include) => ~ ValidateConditions(include, pr)

Gains(p, q) ==
  /\ q.author = p.author
  /\ p.labels \subseteq q.labels /\ p.comments \subseteq q.comments
  /\ p.statuses \subseteq q.statuses
  /\ p.age <= q.age

Accepted(s, p) == ValidateConditions(s, p) /\ ValidateCommentsAndChecks(s, p)

\* A pull request that only gains (labels, comments, finished checks, age) does
\* not lose its acceptance: the review, which judges the conditions first and
\* the checks much later, is wrong only about what was taken away meanwhile.
GainsKeepAcceptance ==
  [][Gains(pr, pr') => (Accepted(include, pr) => Accepted(include, pr'))]_vars

-----------------------------------------------------------------------------
(* What the README says and the code does not do                              *)

\* README.md:17-31 gives a minimal configuration: a section that names authors
\* and nothing else, which accepts their pull requests.
MinimalConfigApproves ==
  (/\ include # None
   /\ include.branches = <<>> /\ include.labels = {} /\ include.comments = {}
   /\ pr.author \in include.authors) => Accepted(include, pr)
=============================================================================
