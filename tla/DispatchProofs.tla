--------------------------- MODULE DispatchProofs ---------------------------
(* What holds of the dispatch command for any installations, pages and pull    *)
(* requests that come and go: it sends only what was asked for, its exit tells *)
(* of failures, nobody is asked twice unless the list was pushed on, and where *)
(* lists that shrink are short, nobody is forgotten.                           *)
EXTENDS Dispatch, SequenceTheorems, FiniteSetTheorems, TLAPS

\* A page of a list holds members of the list.
LEMMA PageOfSeq ==
  ASSUME NEW S, NEW s \in Seq(S), NEW k \in Nat \ {0}
  PROVE  /\ Page(s, k) \in Seq(S)
         /\ \A i \in DOMAIN Page(s, k) : \E j \in DOMAIN s : Page(s, k)[i] = s[j]
<1> DEFINE m == (k - 1) * PageSize + 1
           n == IF k * PageSize < Len(s) THEN k * PageSize ELSE Len(s)
<1>1. PageSize \in Nat \ {0} /\ Len(s) \in Nat /\ DOMAIN s = 1..Len(s)
  BY DispatchAssumption
<1>2. (k - 1) * PageSize \in Nat /\ k * PageSize \in Nat
  BY <1>1
<1>3. m \in Int /\ n \in Int /\ 1 <= m /\ n <= Len(s)
  BY <1>1, <1>2
<1>4. \A i \in m..n : i \in DOMAIN s /\ s[i] \in S
  BY <1>1, <1>3
<1> HIDE DEF m, n
<1>5. /\ SubSeq(s, m, n) \in Seq(S)
      /\ Len(SubSeq(s, m, n)) = IF m <= n THEN n - m + 1 ELSE 0
      /\ \A i \in 1..(n - m + 1) : SubSeq(s, m, n)[i] = s[m + i - 1]
  BY <1>3, <1>4, SubSeqProperties
<1>6. ASSUME NEW i \in DOMAIN SubSeq(s, m, n)
      PROVE  \E j \in DOMAIN s : SubSeq(s, m, n)[i] = s[j]
  <2>1. DOMAIN SubSeq(s, m, n) = 1..Len(SubSeq(s, m, n))
    BY <1>5
  <2>2. m <= n /\ i \in 1..(n - m + 1)
    BY <2>1, <1>3, <1>5
  <2>3. m + i - 1 \in m..n
    BY <2>2, <1>3
  <2> QED BY <2>2, <2>3, <1>4, <1>5
<1>7. Page(s, k) = SubSeq(s, m, n)
  BY DEF Page, m, n
<1> QED BY <1>5, <1>6, <1>7

\* Taking the i-th away leaves members of the list.
LEMMA RemoveAtOfSeq ==
  ASSUME NEW S, NEW s \in Seq(S), NEW i \in DOMAIN s
  PROVE  /\ RemoveAt(s, i) \in Seq(S) /\ Len(RemoveAt(s, i)) = Len(s) - 1
         /\ \A j \in DOMAIN RemoveAt(s, i) :
              /\ j \in Nat /\ (IF j < i THEN j ELSE j + 1) \in DOMAIN s
              /\ RemoveAt(s, i)[j] = s[IF j < i THEN j ELSE j + 1]
<1>1. Len(s) \in Nat /\ DOMAIN s = 1..Len(s) /\ i \in 1..Len(s) /\ \A k \in 1..Len(s) : s[k] \in S
  OBVIOUS
<1> DEFINE l == SubSeq(s, 1, i - 1)
           r == SubSeq(s, i + 1, Len(s))
<1>2. l \in Seq(S) /\ Len(l) = i - 1 /\ \A j \in 1..(i - 1) : l[j] = s[j]
  <2>1. \A k \in 1..(i - 1) : s[k] \in S
    BY <1>1
  <2>2. /\ l \in Seq(S) /\ Len(l) = IF 1 <= i - 1 THEN (i - 1) - 1 + 1 ELSE 0
        /\ \A j \in 1..((i - 1) - 1 + 1) : l[j] = s[1 + j - 1]
    BY <1>1, <2>1, SubSeqProperties
  <2>3. \A j \in 1..(i - 1) : l[j] = s[j]
    <3> HIDE DEF l
    <3> QED BY <1>1, <2>2
  <2>4. Len(l) = i - 1
    <3> HIDE DEF l
    <3> QED BY <1>1, <2>2
  <2> QED BY <2>2, <2>3, <2>4
<1>3. r \in Seq(S) /\ Len(r) = Len(s) - i /\ \A j \in 1..(Len(s) - i) : r[j] = s[i + j]
  <2>1. \A k \in (i + 1)..Len(s) : s[k] \in S
    BY <1>1
  <2>2. /\ r \in Seq(S) /\ Len(r) = IF i + 1 <= Len(s) THEN Len(s) - (i + 1) + 1 ELSE 0
        /\ \A j \in 1..(Len(s) - (i + 1) + 1) : r[j] = s[(i + 1) + j - 1]
    BY <1>1, <2>1, SubSeqProperties
  <2>3. Len(r) = Len(s) - i
    <3> HIDE DEF r
    <3> QED BY <1>1, <2>2
  <2>4. \A j \in 1..(Len(s) - i) : r[j] = s[i + j]
    <3> HIDE DEF r
    <3>1. ASSUME NEW j \in 1..(Len(s) - i)
          PROVE  j \in 1..(Len(s) - (i + 1) + 1) /\ (i + 1) + j - 1 = i + j
      BY <1>1
    <3> QED BY <2>2, <3>1
  <2> QED BY <2>2, <2>3, <2>4
<1>4. RemoveAt(s, i) = l \o r
  BY DEF RemoveAt
<1> HIDE DEF l, r
<1>5. /\ l \o r \in Seq(S) /\ Len(l \o r) = Len(l) + Len(r)
      /\ \A j \in 1..(Len(l) + Len(r)) : (l \o r)[j] = IF j <= Len(l) THEN l[j] ELSE r[j - Len(l)]
  BY <1>2, <1>3, ConcatProperties
<1>6. ASSUME NEW j \in DOMAIN (l \o r)
      PROVE  /\ j \in Nat /\ (IF j < i THEN j ELSE j + 1) \in DOMAIN s
             /\ (l \o r)[j] = s[IF j < i THEN j ELSE j + 1]
  <2>1. j \in 1..(Len(l) + Len(r))
    BY <1>5
  <2>2. CASE j <= i - 1
    BY <1>1, <1>2, <1>3, <1>5, <2>1, <2>2
  <2>3. CASE j > i - 1
    <3>1. j - (i - 1) \in 1..(Len(s) - i) /\ i + (j - (i - 1)) = j + 1 /\ j + 1 \in 1..Len(s)
      BY <1>1, <1>2, <1>3, <2>1, <2>3
    <3>2. (l \o r)[j] = r[j - (i - 1)]
      BY <1>1, <1>2, <1>3, <1>5, <2>1, <2>3
    <3>3. r[j - (i - 1)] = s[j + 1]
      BY <1>3, <3>1
    <3> QED BY <3>1, <3>2, <3>3, <1>1
  <2> QED BY <1>1, <2>1, <2>2, <2>3
<1>7. Len(l \o r) = Len(s) - 1
  BY <1>1, <1>2, <1>3, <1>5
<1> QED BY <1>4, <1>5, <1>6, <1>7

\* A sequence with one more in front of it.
LEMMA InFront ==
  ASSUME NEW S, NEW q \in S, NEW s \in Seq(S)
  PROVE  /\ <<q>> \o s \in Seq(S)
         /\ \A i \in DOMAIN (<<q>> \o s) :
              /\ i \in Nat /\ (i # 1 => i - 1 \in DOMAIN s)
              /\ (<<q>> \o s)[i] = IF i = 1 THEN q ELSE s[i - 1]
         /\ \A i \in DOMAIN s : i + 1 \in DOMAIN (<<q>> \o s) /\ (<<q>> \o s)[i + 1] = s[i]
<1> DEFINE l == <<q>> \o s
<1>1. Len(s) \in Nat /\ DOMAIN s = 1..Len(s) /\ <<q>> \in Seq(S)
  OBVIOUS
<1>2. /\ l \in Seq(S) /\ Len(l) = 1 + Len(s)
      /\ \A i \in 1..Len(l) : l[i] = IF i <= 1 THEN q ELSE s[i - 1]
  BY <1>1, ConcatProperties
<1> HIDE DEF l
<1>3. DOMAIN l = 1..(1 + Len(s))
  BY <1>2
<1>4. ASSUME NEW i \in DOMAIN l PROVE i \in Nat /\ (i <= 1 <=> i = 1) /\ (i # 1 => i - 1 \in 1..Len(s))
  BY <1>1, <1>3
<1>5. ASSUME NEW i \in DOMAIN s PROVE i + 1 \in DOMAIN l /\ l[i + 1] = s[i]
  <2>1. i + 1 \in 1..(1 + Len(s)) /\ ~ (i + 1 <= 1) /\ (i + 1) - 1 = i
    BY <1>1
  <2> QED BY <2>1, <1>2, <1>3
<1>6. \A i \in DOMAIN l : l[i] = IF i = 1 THEN q ELSE s[i - 1]
  BY <1>2, <1>3, <1>4
<1> QED BY <1>1, <1>2, <1>4, <1>5, <1>6 DEF l

-----------------------------------------------------------------------------
(* The inductive invariant                                                    *)

\* What is still to do was asked for, and the page is one of the first of it.
ScopeInv ==
  /\ \A r \in Repos : \A i \in DOMAIN open[r] : repoOf[open[r][i]] = r
  /\ pc \in {"page", "events"} =>
       \A j \in DOMAIN repos : repos[j] \in Repos => AskedFor(repos[j])
  /\ pc = "events" =>
       /\ repos # <<>> /\ Head(repos) \in Repos
       /\ \A k \in DOMAIN batch : repoOf[batch[k]] = Head(repos)

\* With a token the error of dispatchForRepos is the only memory of failures.
ErrorInv ==
  /\ pc = "start" => failed = {}
  /\ pc = "installation" => args.app /\ inst # 0
  /\ ~ args.app /\ pc \in {"page", "events"} => (firstErr <=> failed # {})
  /\ args.app /\ pc # "done" => None \notin failed

IInv == TypeOK /\ ScopeInv /\ ErrorInv /\ OnlyWhatWasAsked /\ ExitTellsFailure

LEMMA OfInstallationTyped ==
  ASSUME NEW i \in DOMAIN Installations, args \in Args
  PROVE  /\ OfInstallation(i) \in Seq(Repos)
         /\ \A j \in DOMAIN OfInstallation(i) :
              /\ args.repo \in {None, OfInstallation(i)[j]}
              /\ OfInstallation(i)[j] \in ToSet(Installations[i])
<1>1. Installations[i] \in Seq(Repos)
  BY DispatchAssumption
<1>2. CASE args.repo = None
  BY <1>1, <1>2 DEF OfInstallation, ToSet
<1>3. CASE args.repo # None /\ args.repo \in ToSet(Installations[i])
  <2>1. args.repo \in Repos
    BY <1>1, <1>3 DEF ToSet
  <2>2. OfInstallation(i) = <<args.repo>>
    BY <1>3 DEF OfInstallation
  <2> QED BY <1>3, <2>1, <2>2
<1>4. CASE args.repo # None /\ args.repo \notin ToSet(Installations[i])
  <2>1. OfInstallation(i) = <<>>
    BY <1>4 DEF OfInstallation
  <2> QED BY <2>1
<1> QED BY <1>2, <1>3, <1>4

LEMMA Initially == Init => IInv
<1> SUFFICES ASSUME Init PROVE IInv
  OBVIOUS
<1>1. TypeOK
  <2>1. args \in Args
    <3>1. DOMAIN Installations \subseteq Nat
      BY DispatchAssumption
    <3> QED BY <3>1 DEF Init, Args
  <2>2. repos \in Seq(Repos \cup {Malformed}) /\ batch \in Seq(PRs)
    BY DEF Init
  <2>3. /\ pc \in {"start", "installation", "page", "events", "done"} /\ inst \in Nat
        /\ page \in Nat \ {0} /\ exit \in {"none", "ok", "error"}
    BY DEF Init
  <2>5. more \in BOOLEAN /\ firstErr \in BOOLEAN
    BY DEF Init
  <2>4. /\ open \in [Repos -> Seq(PRs)] /\ unopened \in SUBSET PRs
        /\ sent \in [PRs -> Nat] /\ failed \in SUBSET (Repos \cup PRs \cup Nat \cup {None})
    BY DispatchAssumption DEF Init
  <2> QED BY <2>1, <2>2, <2>3, <2>4, <2>5 DEF TypeOK
<1> QED BY <1>1, DispatchAssumption
        DEF Init, IInv, ScopeInv, ErrorInv, OnlyWhatWasAsked, AskedFor, ExitTellsFailure

-----------------------------------------------------------------------------
(* Every step keeps it                                                        *)

\* dispatchForRepos is called with repositories that were asked for.
LEMMA BeginStep ==
  ASSUME IInv, ~ args.app, pc = "start",
         NEW rs \in Seq(Repos \cup {Malformed}), Begin(rs), UNCHANGED <<exit, failed>>,
         \A j \in DOMAIN rs : rs[j] \in Repos => AskedFor(rs[j]),
         UNCHANGED <<args, inst, batch, more, github, sent>>
  PROVE  IInv'
<1> USE DEF IInv
<1>1. /\ TypeOK /\ args' = args /\ inst' = inst /\ batch' = batch /\ more' = more
      /\ open' = open /\ unopened' = unopened /\ sent' = sent
      /\ ~ args.app /\ pc = "start" /\ failed = {}
  BY DEF ErrorInv, github
<1>2. TypeOK'
  <2>1. firstErr' \in BOOLEAN /\ pc' = "page" /\ repos' = rs /\ page' = 1
    BY DEF Begin
  <2> QED BY <1>1, <2>1 DEF TypeOK
<1>3. ScopeInv'
  BY <1>1 DEF ScopeInv, Begin, AskedFor
<1>4. ErrorInv'
  BY <1>1 DEF ErrorInv, Begin
<1>5. OnlyWhatWasAsked' /\ ExitTellsFailure'
  BY <1>1 DEF OnlyWhatWasAsked, AskedFor, ExitTellsFailure, Begin
<1> QED BY <1>2, <1>3, <1>4, <1>5

\* There is no list of repositories.
LEMMA ExitStep ==
  ASSUME IInv, ~ args.app, pc = "start", Exit("error"), failed' = failed \cup {None},
         UNCHANGED <<repos, page, firstErr>>,
         UNCHANGED <<args, inst, batch, more, github, sent>>
  PROVE  IInv'
<1> USE DEF IInv
<1>1. TypeOK'
  BY DEF TypeOK, Exit, github
<1>2. ScopeInv' /\ ErrorInv'
  BY DEF ScopeInv, ErrorInv, Exit, github
<1>3. OnlyWhatWasAsked' /\ ExitTellsFailure'
  BY DEF OnlyWhatWasAsked, AskedFor, ErrorInv, ExitTellsFailure, Exit, github
<1> QED BY <1>1, <1>2, <1>3

LEMMA RunStep == IInv /\ Run => IInv'
<1> SUFFICES ASSUME IInv, Run PROVE IInv'
  OBVIOUS
<1>1. TypeOK /\ ~ args.app /\ pc = "start" /\ UNCHANGED <<args, inst, batch, more, github, sent>>
  BY DEF Run, IInv
<1>2. CASE args.repo # None /\ Begin(<<args.repo>>) /\ UNCHANGED <<exit, failed>>
  <2>1. args.repo \in Repos \cup {Malformed}
    BY <1>1, <1>2 DEF TypeOK, Args
  <2> DEFINE rs == <<args.repo>>
  <2>2. rs \in Seq(Repos \cup {Malformed}) /\ \A j \in DOMAIN rs : rs[j] = args.repo
    BY <2>1
  <2>3. Begin(rs)
    BY <1>2
  <2> HIDE DEF rs
  <2>4. \A j \in DOMAIN rs : rs[j] \in Repos => AskedFor(rs[j])
    BY <1>1, <1>2, <2>2 DEF AskedFor
  <2> QED BY <1>1, <1>2, <2>2, <2>3, <2>4, BeginStep
<1>3. CASE /\ args.repo = None /\ ~ args.endpoint
           /\ Begin(SubSeq(UserRepos, 1, IF RepoPage < Len(UserRepos) THEN RepoPage ELSE Len(UserRepos)))
           /\ UNCHANGED <<exit, failed>>
  <2> DEFINE n == IF RepoPage < Len(UserRepos) THEN RepoPage ELSE Len(UserRepos)
             rs == SubSeq(UserRepos, 1, n)
  <2>1. UserRepos \in Seq(Repos) /\ n \in Nat /\ n <= Len(UserRepos)
    BY DispatchAssumption
  <2>2. \A i \in 1..n : UserRepos[i] \in Repos \cup {Malformed} /\ UserRepos[i] \in ToSet(UserRepos)
    BY <2>1 DEF ToSet
  <2>3. Begin(rs)
    BY <1>3
  <2> HIDE DEF n
  <2>4. /\ rs \in Seq(Repos \cup {Malformed}) /\ Len(rs) = n
        /\ \A i \in 1..n : rs[i] = UserRepos[i]
    BY <2>1, <2>2, SubSeqProperties
  <2> HIDE DEF rs
  <2>5. \A j \in DOMAIN rs : rs[j] \in Repos => AskedFor(rs[j])
    <3>1. DOMAIN rs = 1..n
      BY <2>1, <2>4
    <3> QED BY <1>1, <1>3, <2>2, <2>4, <3>1 DEF AskedFor
  <2> QED BY <1>1, <1>3, <2>3, <2>4, <2>5, BeginStep
<1>4. CASE Exit("error") /\ failed' = failed \cup {None} /\ UNCHANGED <<repos, page, firstErr>>
  BY <1>1, <1>4, ExitStep
<1> QED BY <1>2, <1>3, <1>4 DEF Run

LEMMA ListDuneBotRepositoriesStep == IInv /\ ListDuneBotRepositories => IInv'
<1> SUFFICES ASSUME IInv, ListDuneBotRepositories PROVE IInv'
  OBVIOUS
<1>1. /\ TypeOK /\ ~ args.app /\ args.repo = None /\ args.endpoint /\ pc = "start"
      /\ UNCHANGED <<args, inst, batch, more, github, sent>>
  BY DEF ListDuneBotRepositories, IInv
<1>2. CASE args.member /\ Begin(Installations[Endpoint]) /\ UNCHANGED <<exit, failed>>
  <2>1. Installations[Endpoint] \in Seq(Repos)
    BY DispatchAssumption
  <2>2. Installations[Endpoint] \in Seq(Repos \cup {Malformed})
    BY <2>1
  <2>3. \A j \in DOMAIN Installations[Endpoint] :
          Installations[Endpoint][j] \in Repos => AskedFor(Installations[Endpoint][j])
    BY <1>1, <1>2 DEF AskedFor, ToSet
  <2> QED BY <1>1, <1>2, <2>2, <2>3, BeginStep
<1>3. CASE Exit("error") /\ failed' = failed \cup {None} /\ UNCHANGED <<repos, page, firstErr>>
  BY <1>1, <1>3, ExitStep
<1> QED BY <1>2, <1>3 DEF ListDuneBotRepositories, DuneBotRepositoriesHandler

LEMMA ListAllInstallationsStep == IInv /\ ListAllInstallations => IInv'
<1> SUFFICES ASSUME IInv, ListAllInstallations PROVE IInv'
  OBVIOUS
<1> USE DEF IInv
<1>1. TypeOK'
  BY DEF TypeOK, ListAllInstallations, Exit, github
<1>2. ScopeInv'
  BY DEF ScopeInv, ListAllInstallations, Exit, github
<1>3. ErrorInv'
  BY DEF ErrorInv, ListAllInstallations, Exit, github
<1>4. OnlyWhatWasAsked' /\ ExitTellsFailure'
  BY DEF OnlyWhatWasAsked, AskedFor, ExitTellsFailure, ListAllInstallations, Exit, github
<1> QED BY <1>1, <1>2, <1>3, <1>4

LEMMA InstallationStep == IInv /\ Installation => IInv'
<1> SUFFICES ASSUME IInv, Installation PROVE IInv'
  OBVIOUS
<1> USE DEF IInv
<1>1. /\ TypeOK /\ args' = args /\ open' = open /\ unopened' = unopened /\ sent' = sent
      /\ exit' = exit /\ batch' = batch /\ more' = more /\ args.app /\ pc = "installation"
  BY DEF Installation, ErrorInv, github
<1>2. CASE args.installation \in {None, inst} /\ Begin(OfInstallation(inst)) /\ UNCHANGED <<inst, failed>>
  <2>1. inst \in Nat /\ inst <= Len(Installations)
    BY DEF Installation, TypeOK
  <2>2. inst \in DOMAIN Installations
    <3>1. inst # 0
      BY <1>1 DEF ErrorInv
    <3> QED BY <2>1, <3>1, DispatchAssumption
  <2>3. QED
    <3>1. /\ OfInstallation(inst) \in Seq(Repos)
          /\ \A j \in DOMAIN OfInstallation(inst) :
               /\ args.repo \in {None, OfInstallation(inst)[j]}
               /\ OfInstallation(inst)[j] \in ToSet(Installations[inst])
      BY <1>1, <2>2, OfInstallationTyped DEF TypeOK
    <3>2. TypeOK'
      <4>1. repos' \in Seq(Repos \cup {Malformed})
        <5>1. Seq(Repos) \subseteq Seq(Repos \cup {Malformed})
          OBVIOUS
        <5> QED BY <1>2, <3>1, <5>1 DEF Begin
      <4>2. pc' = "page" /\ page' = 1 /\ firstErr' \in BOOLEAN /\ inst' = inst /\ failed' = failed
        BY <1>2 DEF Begin
      <4> QED BY <1>1, <4>1, <4>2 DEF TypeOK
    <3>3. ScopeInv'
      BY <1>1, <1>2, <2>2, <3>1 DEF ScopeInv, Begin, AskedFor
    <3>4. ErrorInv'
      BY <1>1, <1>2 DEF ErrorInv, Begin
    <3>5. OnlyWhatWasAsked' /\ ExitTellsFailure'
      BY <1>1, <1>2 DEF OnlyWhatWasAsked, AskedFor, ExitTellsFailure, Begin
    <3> QED BY <3>2, <3>3, <3>4, <3>5
<1>3. CASE inst' = inst + 1 /\ UNCHANGED <<pc, repos, page, firstErr>>
           /\ (failed' = failed \/ failed' = failed \cup {inst})
  <2>1. TypeOK'
    BY <1>1, <1>3 DEF TypeOK
  <2>2. None # inst
    BY <1>1, DispatchAssumption DEF TypeOK
  <2>3. ErrorInv'
    <3>1. inst' # 0
      BY <1>1, <1>3 DEF TypeOK
    <3> QED BY <1>1, <1>3, <2>2, <3>1 DEF ErrorInv
  <2>4. ScopeInv' /\ OnlyWhatWasAsked' /\ ExitTellsFailure'
    BY <1>1, <1>3 DEF ScopeInv, OnlyWhatWasAsked, AskedFor, ExitTellsFailure
  <2> QED BY <2>1, <2>3, <2>4
<1> QED BY <1>2, <1>3 DEF Installation

LEMMA FinishAppStep == IInv /\ FinishApp => IInv'
<1> SUFFICES ASSUME IInv, FinishApp PROVE IInv'
  OBVIOUS
<1> USE DEF IInv
<1>1. /\ TypeOK /\ args' = args /\ inst' = inst /\ repos' = repos /\ page' = page /\ batch' = batch
      /\ more' = more /\ firstErr' = firstErr /\ open' = open /\ unopened' = unopened
      /\ sent' = sent /\ failed' = failed /\ pc = "installation" /\ pc' = "done" /\ exit' = "ok"
  BY DEF FinishApp, Exit, github, cursor
<1>2. TypeOK'
  BY <1>1 DEF TypeOK
<1>3. ScopeInv' /\ ErrorInv' /\ OnlyWhatWasAsked'
  BY <1>1 DEF ScopeInv, ErrorInv, OnlyWhatWasAsked, AskedFor
<1>4. ExitTellsFailure'
  BY <1>1 DEF ErrorInv, ExitTellsFailure
<1> QED BY <1>2, <1>3, <1>4

\* Dropping the first repository keeps what is known of the others.
LEMMA TailAskedFor ==
  ASSUME TypeOK, repos # <<>>, \A j \in DOMAIN repos : repos[j] \in Repos => AskedFor(repos[j])
  PROVE  /\ Tail(repos) \in Seq(Repos \cup {Malformed})
         /\ \A j \in DOMAIN Tail(repos) : Tail(repos)[j] \in Repos => AskedFor(Tail(repos)[j])
<1>1. repos \in Seq(Repos \cup {Malformed})
  BY DEF TypeOK
<1>2. /\ Tail(repos) \in Seq(Repos \cup {Malformed}) /\ Len(Tail(repos)) = Len(repos) - 1
      /\ \A j \in 1..Len(Tail(repos)) : Tail(repos)[j] = repos[j + 1]
  BY <1>1
<1>3. ASSUME NEW j \in DOMAIN Tail(repos)
      PROVE  j + 1 \in DOMAIN repos /\ Tail(repos)[j] = repos[j + 1]
  BY <1>1, <1>2
<1> QED BY <1>2, <1>3

LEMMA SkipMalformedStep == IInv /\ SkipMalformed => IInv'
<1> SUFFICES ASSUME IInv, SkipMalformed PROVE IInv'
  OBVIOUS
<1> USE DEF IInv
<1>1. /\ TypeOK /\ args' = args /\ pc' = pc /\ inst' = inst /\ repos' = Tail(repos) /\ page' = page
      /\ batch' = batch /\ more' = more /\ firstErr' = firstErr /\ exit' = exit /\ open' = open
      /\ unopened' = unopened /\ sent' = sent /\ failed' = failed /\ pc = "page" /\ repos # <<>>
  BY DEF SkipMalformed, github
<1>2. /\ Tail(repos) \in Seq(Repos \cup {Malformed})
      /\ \A j \in DOMAIN Tail(repos) : Tail(repos)[j] \in Repos => AskedFor(Tail(repos)[j])
  BY <1>1, TailAskedFor DEF ScopeInv
<1>3. TypeOK'
  BY <1>1, <1>2 DEF TypeOK
<1>4. ScopeInv'
  BY <1>1, <1>2 DEF ScopeInv, AskedFor
<1>5. ErrorInv' /\ OnlyWhatWasAsked' /\ ExitTellsFailure'
  BY <1>1 DEF ErrorInv, OnlyWhatWasAsked, AskedFor, ExitTellsFailure
<1> QED BY <1>3, <1>4, <1>5

LEMMA ListPullRequestsStep == IInv /\ ListPullRequests => IInv'
<1> SUFFICES ASSUME IInv, ListPullRequests PROVE IInv'
  OBVIOUS
<1> USE DEF IInv
<1> DEFINE r == Head(repos)
<1>1. /\ TypeOK /\ args' = args /\ inst' = inst /\ exit' = exit /\ open' = open
      /\ unopened' = unopened /\ sent' = sent /\ pc = "page" /\ repos # <<>> /\ r # Malformed
  BY DEF ListPullRequests, github
<1>2. r \in Repos /\ r # None
  <2>1. repos \in Seq(Repos \cup {Malformed})
    BY <1>1 DEF TypeOK
  <2>2. r \in Repos \cup {Malformed}
    BY <1>1, <2>1
  <2> QED BY <1>1, <2>2, DispatchAssumption
<1>3. CASE /\ pc' = "events" /\ batch' = Page(open[r], page)
           /\ more' = (page * PageSize < Len(open[r]))
           /\ UNCHANGED <<repos, page, firstErr, failed>>
  <2>1. open[r] \in Seq(PRs) /\ page \in Nat \ {0}
    BY <1>1, <1>2 DEF TypeOK
  <2>2. /\ Page(open[r], page) \in Seq(PRs)
        /\ \A i \in DOMAIN Page(open[r], page) : \E j \in DOMAIN open[r] :
              Page(open[r], page)[i] = open[r][j]
    BY <2>1, PageOfSeq
  <2>3. \A i \in DOMAIN open[r] : repoOf[open[r][i]] = r
    BY <1>2 DEF ScopeInv
  <2>4. TypeOK'
    BY <1>1, <1>3, <2>2 DEF TypeOK
  <2>5. ScopeInv'
    BY <1>1, <1>2, <1>3, <2>2, <2>3 DEF ScopeInv, AskedFor
  <2>6. ErrorInv' /\ OnlyWhatWasAsked' /\ ExitTellsFailure'
    BY <1>1, <1>3 DEF ErrorInv, OnlyWhatWasAsked, AskedFor, ExitTellsFailure
  <2> QED BY <2>4, <2>5, <2>6
<1>4. CASE /\ repos' = Tail(repos) /\ page' = 1 /\ firstErr' = TRUE /\ failed' = failed \cup {r}
           /\ UNCHANGED <<pc, batch, more>>
  <2>1. /\ Tail(repos) \in Seq(Repos \cup {Malformed})
        /\ \A j \in DOMAIN Tail(repos) : Tail(repos)[j] \in Repos => AskedFor(Tail(repos)[j])
    BY <1>1, TailAskedFor DEF ScopeInv
  <2>2. TypeOK'
    BY <1>1, <1>2, <1>4, <2>1 DEF TypeOK
  <2>3. ScopeInv'
    BY <1>1, <1>4, <2>1 DEF ScopeInv, AskedFor
  <2>4. ErrorInv' /\ OnlyWhatWasAsked' /\ ExitTellsFailure'
    BY <1>1, <1>2, <1>4 DEF ErrorInv, OnlyWhatWasAsked, AskedFor, ExitTellsFailure
  <2> QED BY <2>2, <2>3, <2>4
<1> QED BY <1>3, <1>4 DEF ListPullRequests

LEMMA SendEventStep == IInv /\ SendEvent => IInv'
<1> SUFFICES ASSUME IInv, SendEvent PROVE IInv'
  OBVIOUS
<1> USE DEF IInv
<1> DEFINE p == Head(batch)
<1>1. /\ TypeOK /\ args' = args /\ pc' = pc /\ inst' = inst /\ repos' = repos /\ page' = page
      /\ more' = more /\ exit' = exit /\ open' = open /\ unopened' = unopened
      /\ pc = "events" /\ batch # <<>> /\ batch' = Tail(batch)
  BY DEF SendEvent, github
<1>2. /\ p \in PRs /\ repoOf[p] = Head(repos)
      /\ batch' \in Seq(PRs) /\ \A k \in DOMAIN batch' : repoOf[batch'[k]] = Head(repos)
  <2>1. batch \in Seq(PRs) /\ batch # <<>> /\ \A k \in DOMAIN batch : repoOf[batch[k]] = Head(repos)
    BY <1>1 DEF TypeOK, ScopeInv
  <2>2. /\ Tail(batch) \in Seq(PRs) /\ 1 \in DOMAIN batch /\ p = batch[1] /\ p \in PRs
        /\ \A k \in DOMAIN Tail(batch) : k + 1 \in DOMAIN batch /\ Tail(batch)[k] = batch[k + 1]
    BY <2>1
  <2> QED BY <1>1, <2>1, <2>2
<1>3. AskedFor(repoOf[p])
  <2>1. repos \in Seq(Repos \cup {Malformed}) /\ repos # <<>> /\ Head(repos) \in Repos
    BY <1>1 DEF TypeOK, ScopeInv
  <2>2. 1 \in DOMAIN repos /\ Head(repos) = repos[1]
    BY <2>1
  <2> QED BY <1>1, <1>2, <2>1, <2>2 DEF ScopeInv
<1>4. \/ ~ args.dry /\ sent' = [sent EXCEPT ![p] = @ + 1] /\ UNCHANGED <<firstErr, failed>>
      \/ /\ ~ args.dry /\ (sent' = sent \/ sent' = [sent EXCEPT ![p] = @ + 1])
         /\ firstErr' = TRUE /\ failed' = failed \cup {p}
      \/ args.dry /\ UNCHANGED <<sent, firstErr, failed>>
  BY DEF SendEvent
<1>5. sent' \in [PRs -> Nat]
  BY <1>1, <1>2, <1>4 DEF TypeOK
<1>6. firstErr' \in BOOLEAN /\ failed' \in SUBSET (Repos \cup PRs \cup Nat \cup {None})
  <2>1. firstErr' \in BOOLEAN
    BY <1>1, <1>4 DEF TypeOK
  <2>2. failed' = failed \/ failed' = failed \cup {p}
    BY <1>4
  <2> QED BY <1>1, <1>2, <2>1, <2>2 DEF TypeOK
<1>7. TypeOK'
  BY <1>1, <1>2, <1>5, <1>6 DEF TypeOK
<1>8. ScopeInv'
  BY <1>1, <1>2 DEF ScopeInv, AskedFor
<1>9. ErrorInv'
  <2>1. p # None
    BY <1>2, DispatchAssumption
  <2>2. (firstErr' = firstErr /\ failed' = failed) \/ (firstErr' = TRUE /\ failed' = failed \cup {p})
    BY <1>4
  <2> QED BY <1>1, <2>1, <2>2 DEF ErrorInv
<1>10. OnlyWhatWasAsked'
  <2>1. CASE sent' = sent
    BY <1>1, <2>1 DEF OnlyWhatWasAsked, AskedFor
  <2>2. CASE ~ args.dry /\ sent' = [sent EXCEPT ![p] = @ + 1]
    <3>1. \A q \in PRs : q # p => sent'[q] = sent[q]
      BY <1>1, <2>2 DEF TypeOK
    <3> QED BY <1>1, <1>3, <2>2, <3>1 DEF OnlyWhatWasAsked, AskedFor
  <2> QED BY <1>4, <2>1, <2>2
<1>11. ExitTellsFailure'
  BY <1>1 DEF ExitTellsFailure
<1> QED BY <1>7, <1>8, <1>9, <1>10, <1>11

LEMMA NextPageStep == IInv /\ NextPage => IInv'
<1> SUFFICES ASSUME IInv, NextPage PROVE IInv'
  OBVIOUS
<1> USE DEF IInv
<1>1. /\ TypeOK /\ args' = args /\ inst' = inst /\ batch' = batch /\ more' = more
      /\ firstErr' = firstErr /\ exit' = exit /\ open' = open /\ unopened' = unopened
      /\ sent' = sent /\ failed' = failed /\ pc = "events" /\ pc' = "page" /\ repos # <<>>
  BY DEF NextPage, github, ScopeInv
<1>2. /\ repos' \in Seq(Repos \cup {Malformed}) /\ page' \in Nat \ {0}
      /\ \A j \in DOMAIN repos' : repos'[j] \in Repos => AskedFor(repos'[j])
  <2>1. CASE page' = page + 1 /\ repos' = repos
    BY <1>1, <2>1 DEF TypeOK, ScopeInv
  <2>2. CASE repos' = Tail(repos) /\ page' = 1
    BY <1>1, <2>2, TailAskedFor DEF ScopeInv
  <2> QED BY <2>1, <2>2 DEF NextPage
<1>3. TypeOK'
  BY <1>1, <1>2 DEF TypeOK
<1>4. ScopeInv'
  BY <1>1, <1>2 DEF ScopeInv, AskedFor
<1>5. ErrorInv' /\ OnlyWhatWasAsked' /\ ExitTellsFailure'
  BY <1>1 DEF ErrorInv, OnlyWhatWasAsked, AskedFor, ExitTellsFailure
<1> QED BY <1>3, <1>4, <1>5

LEMMA ReturnStep == IInv /\ Return => IInv'
<1> SUFFICES ASSUME IInv, Return PROVE IInv'
  OBVIOUS
<1> USE DEF IInv
<1>1. /\ TypeOK /\ args' = args /\ repos' = repos /\ page' = page /\ batch' = batch /\ more' = more
      /\ firstErr' = firstErr /\ open' = open /\ unopened' = unopened
      /\ sent' = sent /\ failed' = failed /\ pc = "page"
  BY DEF Return, github
<1>2. CASE args.app /\ pc' = "installation" /\ inst' = inst + 1 /\ exit' = exit
  <2>1. TypeOK' /\ inst' # 0
    BY <1>1, <1>2 DEF TypeOK
  <2>2. ScopeInv' /\ ErrorInv' /\ OnlyWhatWasAsked' /\ ExitTellsFailure'
    BY <1>1, <1>2, <2>1 DEF ScopeInv, ErrorInv, OnlyWhatWasAsked, AskedFor, ExitTellsFailure
  <2> QED BY <2>1, <2>2
<1>3. CASE ~ args.app /\ Exit(IF firstErr THEN "error" ELSE "ok") /\ inst' = inst
  <2>1. pc' = "done" /\ exit' \in {"ok", "error"} /\ (exit' = "error" <=> firstErr)
    BY <1>3 DEF Exit
  <2>2. TypeOK'
    BY <1>1, <1>3, <2>1 DEF TypeOK
  <2>3. ExitTellsFailure'
    <3>1. firstErr <=> failed # {}
      BY <1>1, <1>3 DEF ErrorInv
    <3> QED BY <1>1, <1>3, <2>1, <3>1 DEF ExitTellsFailure
  <2>4. ScopeInv' /\ ErrorInv' /\ OnlyWhatWasAsked'
    BY <1>1, <1>3, <2>1 DEF ScopeInv, ErrorInv, OnlyWhatWasAsked, AskedFor
  <2> QED BY <2>2, <2>3, <2>4
<1> QED BY <1>2, <1>3 DEF Return

\* What GitHub does to the lists leaves the command's own state alone.
LEMMA GithubStep == IInv /\ ((\E p \in PRs : Opened(p)) \/ (\E r \in Repos : Closed(r))) => IInv'
<1> SUFFICES ASSUME IInv, (\E p \in PRs : Opened(p)) \/ (\E r \in Repos : Closed(r)) PROVE IInv'
  OBVIOUS
<1> USE DEF IInv
<1>1. /\ TypeOK /\ args' = args /\ pc' = pc /\ inst' = inst /\ repos' = repos /\ page' = page
      /\ batch' = batch /\ more' = more /\ firstErr' = firstErr /\ exit' = exit
      /\ sent' = sent /\ failed' = failed
  BY DEF Opened, Closed, cursor
<1>2. /\ open' \in [Repos -> Seq(PRs)] /\ unopened' \in SUBSET PRs
      /\ \A r \in Repos : \A i \in DOMAIN open'[r] : repoOf[open'[r][i]] = r
  <2> DEFINE Good == /\ open' \in [Repos -> Seq(PRs)] /\ unopened' \in SUBSET PRs
                     /\ \A r \in Repos : \A i \in DOMAIN open'[r] : repoOf[open'[r][i]] = r
  <2>1. ASSUME NEW p \in PRs, Opened(p) PROVE Good
    <3> DEFINE r == repoOf[p]
               l == <<p>> \o open[r]
    <3>1. r \in Repos
      BY DispatchAssumption
    <3>2. open[r] \in Seq(PRs) /\ <<p>> \in Seq(PRs)
      BY <1>1, <3>1 DEF TypeOK
    <3>3. /\ l \in Seq(PRs) /\ Len(l) = 1 + Len(open[r])
          /\ \A i \in 1..Len(l) : l[i] = IF i <= 1 THEN p ELSE open[r][i - 1]
      BY <3>2, ConcatProperties
    <3>4. open' = [open EXCEPT ![r] = l] /\ unopened' \subseteq unopened
      BY <2>1 DEF Opened
    <3>5. \A i \in DOMAIN l : repoOf[l[i]] = r
      <4> HIDE DEF l
      <4>1. ASSUME NEW i \in DOMAIN l, i > 1
            PROVE  i - 1 \in DOMAIN open[r] /\ l[i] = open[r][i - 1]
        BY <3>2, <3>3, <4>1
      <4>2. ASSUME NEW i \in DOMAIN l, ~ (i > 1) PROVE l[i] = p
        BY <3>3, <4>2
      <4> QED BY <3>1, <4>1, <4>2 DEF ScopeInv
    <3> HIDE DEF l
    <3> QED BY <1>1, <3>1, <3>3, <3>4, <3>5 DEF TypeOK, ScopeInv
  <2>2. ASSUME NEW r \in Repos, Closed(r) PROVE Good
    <3>1. PICK i \in DOMAIN open[r] : open' = [open EXCEPT ![r] = RemoveAt(@, i)]
      BY <2>2 DEF Closed
    <3>2. open[r] \in Seq(PRs)
      BY <1>1 DEF TypeOK
    <3>3. /\ RemoveAt(open[r], i) \in Seq(PRs)
          /\ \A j \in DOMAIN RemoveAt(open[r], i) : \E k \in DOMAIN open[r] :
                RemoveAt(open[r], i)[j] = open[r][k]
      BY <3>2, RemoveAtOfSeq
    <3>4. unopened' = unopened
      BY <2>2 DEF Closed
    <3> QED BY <1>1, <3>1, <3>3, <3>4 DEF TypeOK, ScopeInv
  <2> QED BY <2>1, <2>2
<1>3. TypeOK'
  BY <1>1, <1>2 DEF TypeOK
<1>4. ScopeInv'
  BY <1>1, <1>2 DEF ScopeInv, AskedFor
<1>5. ErrorInv' /\ OnlyWhatWasAsked' /\ ExitTellsFailure'
  BY <1>1 DEF ErrorInv, OnlyWhatWasAsked, AskedFor, ExitTellsFailure
<1> QED BY <1>3, <1>4, <1>5

LEMMA Inductive == IInv /\ [Next]_vars => IInv'
<1> SUFFICES ASSUME IInv, [Next]_vars PROVE IInv'
  OBVIOUS
<1>1. CASE Command
  BY <1>1, RunStep, ListDuneBotRepositoriesStep, ListAllInstallationsStep, InstallationStep,
     FinishAppStep, SkipMalformedStep, ListPullRequestsStep, SendEventStep, NextPageStep, ReturnStep DEF Command
<1>2. CASE (\E p \in PRs : Opened(p)) \/ (\E r \in Repos : Closed(r))
  BY <1>2, GithubStep
<1>3. CASE UNCHANGED vars
  BY <1>3 DEF vars, cursor, github, IInv, TypeOK, ScopeInv, AskedFor, ErrorInv, OnlyWhatWasAsked, ExitTellsFailure
<1> QED BY <1>1, <1>2, <1>3 DEF Next

LEMMA Invariance == Spec => []IInv
BY Initially, Inductive, PTL DEF Spec

-----------------------------------------------------------------------------
(* Nobody is asked twice for nothing                                          *)

\* What stands on a page, and where in the list.
LEMMA PagePlaces ==
  ASSUME NEW S, NEW s \in Seq(S), NEW k \in Nat \ {0}, NEW i \in DOMAIN Page(s, k)
  PROVE  /\ i \in Nat \ {0}
         /\ (k - 1) * PageSize + i \in DOMAIN s
         /\ (k - 1) * PageSize + i <= k * PageSize
         /\ Page(s, k)[i] = s[(k - 1) * PageSize + i]
<1> DEFINE a == (k - 1) * PageSize
           b == k * PageSize
           n == IF b < Len(s) THEN b ELSE Len(s)
           t == SubSeq(s, a + 1, n)
<1>1. PageSize \in Nat \ {0} /\ Len(s) \in Nat /\ DOMAIN s = 1..Len(s)
  BY DispatchAssumption
<1>2. a \in Nat /\ b \in Nat
  BY <1>1
<1>3. Page(s, k) = t
  BY DEF Page
<1> HIDE DEF a, b
<1>4. n \in Nat /\ n <= Len(s) /\ n <= b
  BY <1>1, <1>2
<1>5. \A j \in (a + 1)..n : s[j] \in S
  BY <1>1, <1>2, <1>4
<1> HIDE DEF n
<1>6. /\ t \in Seq(S) /\ Len(t) = IF a + 1 <= n THEN n - (a + 1) + 1 ELSE 0
      /\ \A j \in 1..(n - (a + 1) + 1) : t[j] = s[(a + 1) + j - 1]
  BY <1>2, <1>4, <1>5, SubSeqProperties
<1> HIDE DEF t
<1>7. i \in 1..Len(t)
  <2>1. t \in Seq(S) /\ i \in DOMAIN t
    BY <1>3, <1>6
  <2> QED BY <2>1
<1>8. i \in Nat \ {0} /\ a + i <= n /\ i \in 1..(n - (a + 1) + 1) /\ (a + 1) + i - 1 = a + i
  <2>1. Len(t) \in Nat /\ i \in Nat /\ 1 <= i /\ i <= Len(t)
    BY <1>6, <1>7
  <2>2. a + 1 <= n /\ i <= n - (a + 1) + 1
    BY <1>2, <1>4, <1>6, <2>1
  <2> QED BY <1>2, <1>4, <2>1, <2>2
<1>9. t[i] = s[a + i]
  BY <1>6, <1>8
<1>10. a + i \in DOMAIN s /\ a + i <= b
  BY <1>1, <1>2, <1>4, <1>8
<1> QED BY <1>3, <1>8, <1>9, <1>10 DEF a, b

\* The place of p in the list of its repository is past page k.
Beyond(p, k) == \E i \in DOMAIN open[repoOf[p]] : open[repoOf[p]][i] = p /\ i > k * PageSize

\* The pull requests of r that were opened while the command ran.
New(r) == {q \in PRs \ unopened : repoOf[q] = r /\ q \notin ToSet(Open0[repoOf[q]])}

\* The command has not begun with r.
ToDo(r) ==
  \/ pc = "start"
  \/ pc \in {"page", "events"} /\ \E j \in 2..Len(repos) : repos[j] = r
  \/ /\ args.app
     /\ \E i \in DOMAIN Installations :
          /\ r \in ToSet(Installations[i])
          /\ \/ pc = "installation" /\ inst <= i
             \/ pc \in {"page", "events"} /\ inst < i

\* An event for p is still to be sent for the page at hand.
Owed(p) == pc = "events" /\ p \in ToSet(batch)

\* p is on none of the pages that were read, but further down the same list.
Ahead(p) ==
  /\ repos # <<>> /\ Head(repos) = repoOf[p]
  /\ \/ pc = "page" /\ Beyond(p, page - 1)
     \/ pc = "events" /\ Beyond(p, page)

\* Every list holds a thing once, and what is not open yet is in none.
Once ==
  /\ \A r \in Repos : IsInjective(open[r]) /\ ToSet(open[r]) \cap unopened = {}
  /\ \A q \in unopened : q \notin ToSet(Open0[repoOf[q]])
  /\ pc \in {"page", "events"} =>
       /\ IsInjective(repos)
       /\ args.app => /\ inst \in DOMAIN Installations
                      /\ \A j \in DOMAIN repos : repos[j] \in ToSet(Installations[inst])
  /\ pc = "events" => IsInjective(batch)

\* What p has got and will get from the page at hand: nothing before its
\* repository's turn, and while p is further down, one less than at the end.
Counted(p) ==
  /\ ToDo(repoOf[p]) => sent[p] = 0
  /\ sent[p] + (IF Owed(p) THEN 1 ELSE 0)
       <= Cardinality(New(repoOf[p])) + (IF Ahead(p) THEN 0 ELSE 1)

PushedOn == (\A r \in Repos : IsFiniteSet(New(r))) /\ \A p \in PRs : Counted(p)

Sparing == Once /\ PushedOn

LEMMA SparingInit == Init => Sparing
<1> SUFFICES ASSUME Init PROVE Sparing
  OBVIOUS
<1>1. /\ pc = "start" /\ repos = <<>> /\ open = Open0 /\ sent = [p \in PRs |-> 0]
      /\ unopened = PRs \ UNION {ToSet(Open0[r]) : r \in Repos}
  BY DEF Init
<1>2. Once
  <2>1. \A r \in Repos : IsInjective(open[r]) /\ ToSet(open[r]) \cap unopened = {}
    BY <1>1, ListedOnce
  <2>2. \A q \in unopened : repoOf[q] \in Repos /\ q \notin ToSet(Open0[repoOf[q]])
    BY <1>1, DispatchAssumption
  <2> QED BY <1>1, <2>1, <2>2 DEF Once
<1>3. ASSUME NEW r \in Repos PROVE New(r) = {}
  <2>1. \A q \in PRs \ unopened : \E x \in Repos : q \in ToSet(Open0[x])
    BY <1>1
  <2>2. \A x \in Repos, q \in PRs : q \in ToSet(Open0[x]) => repoOf[q] = x
    BY DispatchAssumption DEF ToSet
  <2> QED BY <2>1, <2>2 DEF New
<1>4. PushedOn
  <2> SUFFICES ASSUME NEW p \in PRs PROVE Counted(p)
    BY <1>3, FS_EmptySet DEF PushedOn
  <2>1. repoOf[p] \in Repos
    BY DispatchAssumption
  <2>2. sent[p] = 0 /\ Cardinality(New(repoOf[p])) = 0 /\ ~ Owed(p) /\ ~ Ahead(p)
    BY <1>1, <1>3, <2>1, FS_EmptySet DEF Owed, Ahead
  <2> QED BY <2>2 DEF Counted
<1> QED BY <1>2, <1>4 DEF Sparing

\* A step between two calls, which sends nothing: what is further down the
\* list was so before, or its repository was still to come.
LEMMA BetweenPages ==
  ASSUME TypeOK, PushedOn, UNCHANGED <<open, unopened, sent>>, pc' # "events",
         \A r \in Repos : ToDo(r)' => ToDo(r),
         \A p \in PRs : Ahead(p)' => Ahead(p) \/ ToDo(repoOf[p])
  PROVE  PushedOn'
<1>1. \A r \in Repos : New(r)' = New(r)
  BY DEF New
<1>2. ASSUME NEW p \in PRs PROVE Counted(p)'
  <2> DEFINE n == Cardinality(New(repoOf[p]))
  <2>1. repoOf[p] \in Repos
    BY DispatchAssumption
  <2>2. n \in Nat /\ sent[p] \in Nat /\ Cardinality(New(repoOf[p]))' = n /\ sent'[p] = sent[p]
    BY <1>1, <2>1, FS_CardinalityType DEF PushedOn, TypeOK
  <2>3. ~ Owed(p)'
    BY DEF Owed
  <2>4. Counted(p)
    BY DEF PushedOn
  <2> HIDE DEF n
  <2>5. sent[p] <= n + 1 /\ (Ahead(p) => sent[p] <= n) /\ (ToDo(repoOf[p]) => sent[p] = 0)
    BY <2>2, <2>4 DEF Counted, n
  <2>6. sent'[p] + 0 <= n + (IF Ahead(p)' THEN 0 ELSE 1)
    BY <2>2, <2>5
  <2> QED BY <2>1, <2>2, <2>3, <2>5, <2>6 DEF Counted
<1> QED BY <1>1, <1>2 DEF PushedOn

\* dispatchForRepos is called with repositories that were still to come.
LEMMA SparingBegin ==
  ASSUME TypeOK, Sparing, NEW rs \in Seq(Repos \cup {Malformed}), Begin(rs), IsInjective(rs),
         UNCHANGED <<args, inst, open, unopened, sent>>,
         \/ pc = "start" /\ ~ args.app
         \/ /\ pc = "installation" /\ args.app /\ inst \in DOMAIN Installations
            /\ \A j \in DOMAIN rs : rs[j] \in ToSet(Installations[inst])
  PROVE  Sparing'
<1>1. pc' = "page" /\ page' = 1 /\ repos' = rs
  BY DEF Begin
<1>2. Once'
  BY <1>1 DEF Sparing, Once
<1>3. ASSUME NEW r \in Repos, \E j \in DOMAIN rs : rs[j] = r PROVE ToDo(r)
  <2>1. CASE pc = "start"
    BY <2>1 DEF ToDo
  <2>2. CASE pc = "installation"
    <3>1. r \in ToSet(Installations[inst]) /\ inst <= inst
      BY <1>3, <2>2 DEF TypeOK
    <3> QED BY <2>2, <3>1 DEF ToDo
  <2> QED BY <2>1, <2>2
<1>4. ASSUME NEW r \in Repos, ToDo(r)' PROVE ToDo(r)
  <2>1. CASE \E j \in 2..Len(rs) : rs[j] = r
    <3>1. \E j \in DOMAIN rs : rs[j] = r
      BY <2>1
    <3> QED BY <3>1, <1>3
  <2>2. CASE args.app /\ \E i \in DOMAIN Installations : r \in ToSet(Installations[i]) /\ inst < i
    <3>1. PICK i \in DOMAIN Installations : r \in ToSet(Installations[i]) /\ inst < i
      BY <2>2
    <3>2. i \in Nat /\ inst \in Nat
      BY DispatchAssumption DEF TypeOK
    <3>3. inst <= i
      BY <3>1, <3>2
    <3>4. pc = "installation"
      BY <2>2
    <3> QED BY <2>2, <3>1, <3>3, <3>4 DEF ToDo
  <2> QED BY <1>1, <1>4, <2>1, <2>2 DEF ToDo
<1>5. ASSUME NEW p \in PRs, Ahead(p)' PROVE ToDo(repoOf[p])
  <2>1. rs # <<>> /\ rs[1] = repoOf[p]
    BY <1>1, <1>5 DEF Ahead
  <2>2. 1 \in DOMAIN rs /\ repoOf[p] \in Repos
    BY <2>1, DispatchAssumption
  <2> QED BY <1>3, <2>1, <2>2
<1>6. PushedOn'
  BY <1>1, <1>4, <1>5, BetweenPages DEF Sparing
<1> QED BY <1>2, <1>6 DEF Sparing

\* The command ends or has failed to list anything.
LEMMA SparingDone ==
  ASSUME TypeOK, Sparing, pc' = "done", UNCHANGED <<open, unopened, sent>>
  PROVE  Sparing'
<1>1. Once'
  BY DEF Sparing, Once
<1>2. PushedOn'
  BY BetweenPages DEF Sparing, ToDo, Ahead
<1> QED BY <1>1, <1>2 DEF Sparing

LEMMA SparingRun == IInv /\ Sparing /\ Run => Sparing'
<1> SUFFICES ASSUME IInv, Sparing, Run PROVE Sparing'
  OBVIOUS
<1>1. TypeOK /\ ~ args.app /\ pc = "start" /\ UNCHANGED <<args, inst, open, unopened, sent>>
  BY DEF Run, IInv, github
<1>2. CASE args.repo # None /\ Begin(<<args.repo>>) /\ UNCHANGED <<exit, failed>>
  <2> DEFINE rs == <<args.repo>>
  <2>1. args.repo \in Repos \cup {Malformed}
    BY <1>1, <1>2 DEF TypeOK, Args
  <2>2. rs \in Seq(Repos \cup {Malformed}) /\ IsInjective(rs)
    BY <2>1 DEF IsInjective
  <2>3. Begin(rs)
    BY <1>2
  <2> HIDE DEF rs
  <2> QED BY <1>1, <2>2, <2>3, SparingBegin
<1>3. CASE /\ args.repo = None /\ ~ args.endpoint
           /\ Begin(SubSeq(UserRepos, 1, IF RepoPage < Len(UserRepos) THEN RepoPage ELSE Len(UserRepos)))
           /\ UNCHANGED <<exit, failed>>
  <2> DEFINE n == IF RepoPage < Len(UserRepos) THEN RepoPage ELSE Len(UserRepos)
             rs == SubSeq(UserRepos, 1, n)
  <2>1. UserRepos \in Seq(Repos) /\ n \in Nat /\ n <= Len(UserRepos)
    BY DispatchAssumption
  <2>2. \A i \in 1..n : UserRepos[i] \in Repos \cup {Malformed}
    BY <2>1
  <2>3. Begin(rs)
    BY <1>3
  <2> HIDE DEF n
  <2>4. /\ rs \in Seq(Repos \cup {Malformed}) /\ Len(rs) = n
        /\ \A i \in 1..n : rs[i] = UserRepos[i]
    BY <2>1, <2>2, SubSeqProperties
  <2> HIDE DEF rs
  <2>5. IsInjective(rs)
    <3>1. DOMAIN rs = 1..n /\ 1..n \subseteq DOMAIN UserRepos
      BY <2>1, <2>4
    <3> QED BY <2>4, <3>1, ListedOnce DEF IsInjective
  <2> QED BY <1>1, <2>3, <2>4, <2>5, SparingBegin
<1>4. CASE Exit("error")
  BY <1>1, <1>4, SparingDone DEF Exit
<1> QED BY <1>2, <1>3, <1>4 DEF Run

LEMMA SparingListDuneBotRepositories == IInv /\ Sparing /\ ListDuneBotRepositories => Sparing'
<1> SUFFICES ASSUME IInv, Sparing, ListDuneBotRepositories PROVE Sparing'
  OBVIOUS
<1>1. TypeOK /\ ~ args.app /\ pc = "start" /\ UNCHANGED <<args, inst, open, unopened, sent>>
  BY DEF ListDuneBotRepositories, IInv, github
<1>2. CASE Begin(Installations[Endpoint])
  <2>1. Installations[Endpoint] \in Seq(Repos) /\ IsInjective(Installations[Endpoint])
    BY DispatchAssumption, ListedOnce
  <2>2. Installations[Endpoint] \in Seq(Repos \cup {Malformed})
    BY <2>1
  <2> QED BY <1>1, <1>2, <2>1, <2>2, SparingBegin
<1>3. CASE Exit("error")
  BY <1>1, <1>3, SparingDone DEF Exit
<1> QED BY <1>2, <1>3 DEF ListDuneBotRepositories, DuneBotRepositoriesHandler

LEMMA SparingListAllInstallations == IInv /\ Sparing /\ ListAllInstallations => Sparing'
<1> SUFFICES ASSUME IInv, Sparing, ListAllInstallations PROVE Sparing'
  OBVIOUS
<1>1. TypeOK /\ pc = "start" /\ UNCHANGED <<open, unopened, sent>>
  BY DEF ListAllInstallations, IInv, github
<1>2. CASE pc' = "installation" /\ inst' = 1
  <2>1. Once'
    BY <1>1, <1>2 DEF Sparing, Once
  <2>2. PushedOn'
    BY <1>1, <1>2, BetweenPages DEF Sparing, ToDo, Ahead
  <2> QED BY <2>1, <2>2 DEF Sparing
<1>3. CASE Exit("error")
  BY <1>1, <1>3, SparingDone DEF Exit
<1> QED BY <1>2, <1>3 DEF ListAllInstallations

\* The next installation is not listed, or skipped.
LEMMA SparingNextInstallation ==
  ASSUME TypeOK, Sparing, pc \in {"installation", "page"}, args.app, pc' = "installation",
         inst' = inst + 1, UNCHANGED <<args, open, unopened, sent>>
  PROVE  Sparing'
<1>1. Once'
  BY DEF Sparing, Once
<1>2. ASSUME NEW r \in Repos, ToDo(r)' PROVE ToDo(r)
  <2>1. PICK i \in DOMAIN Installations : r \in ToSet(Installations[i]) /\ inst + 1 <= i
    BY <1>2 DEF ToDo
  <2>2. i \in Nat /\ inst \in Nat
    BY DispatchAssumption DEF TypeOK
  <2>3. inst < i /\ inst <= i
    BY <2>1, <2>2
  <2> QED BY <2>1, <2>3 DEF ToDo
<1>3. PushedOn'
  BY <1>2, BetweenPages DEF Sparing, Ahead
<1> QED BY <1>1, <1>3 DEF Sparing

LEMMA SparingInstallation == IInv /\ Sparing /\ Installation => Sparing'
<1> SUFFICES ASSUME IInv, Sparing, Installation PROVE Sparing'
  OBVIOUS
<1>1. /\ TypeOK /\ args.app /\ pc = "installation" /\ inst # 0 /\ inst <= Len(Installations)
      /\ UNCHANGED <<args, open, unopened, sent>>
  BY DEF Installation, IInv, ErrorInv, github
<1>2. CASE Begin(OfInstallation(inst)) /\ inst' = inst
  <2>1. inst \in DOMAIN Installations /\ args \in Args
    BY <1>1, DispatchAssumption DEF TypeOK
  <2> DEFINE rs == OfInstallation(inst)
  <2>2. rs \in Seq(Repos) /\ \A j \in DOMAIN rs : rs[j] \in ToSet(Installations[inst])
    BY <2>1, OfInstallationTyped
  <2>3. rs \in Seq(Repos \cup {Malformed})
    BY <2>2
  <2>4. IsInjective(rs)
    <3>1. rs = Installations[inst] \/ rs = <<args.repo>> \/ rs = <<>>
      BY DEF OfInstallation
    <3>2. IsInjective(Installations[inst])
      BY <2>1, ListedOnce
    <3>3. IsInjective(<<args.repo>>) /\ IsInjective(<<>>)
      BY DEF IsInjective
    <3> HIDE DEF rs
    <3> QED BY <3>1, <3>2, <3>3
  <2>5. Begin(rs)
    BY <1>2
  <2> HIDE DEF rs
  <2> QED BY <1>1, <1>2, <2>1, <2>2, <2>3, <2>4, <2>5, SparingBegin
<1>3. CASE inst' = inst + 1 /\ pc' = pc
  BY <1>1, <1>3, SparingNextInstallation
<1> QED BY <1>2, <1>3 DEF Installation

\* dispatchForRepos is done with one of several.
LEMMA SparingTail ==
  ASSUME TypeOK, Sparing, pc \in {"page", "events"}, pc' = "page", repos # <<>>, repos' = Tail(repos),
         UNCHANGED <<args, inst, open, unopened, sent>>
  PROVE  Sparing'
<1>1. /\ repos \in Seq(Repos \cup {Malformed}) /\ repos' \in Seq(Repos \cup {Malformed})
      /\ \A j \in DOMAIN repos' : j + 1 \in 2..Len(repos) /\ repos'[j] = repos[j + 1]
  BY DEF TypeOK
<1>2. Once'
  <2>1. IsInjective(repos')
    <3>1. IsInjective(repos) /\ 2..Len(repos) \subseteq DOMAIN repos
      BY <1>1 DEF Sparing, Once
    <3>2. ASSUME NEW i \in DOMAIN repos', NEW j \in DOMAIN repos', repos'[i] = repos'[j] PROVE i = j
      <4>1. i + 1 = j + 1 /\ i \in Nat /\ j \in Nat
        BY <1>1, <3>1, <3>2 DEF IsInjective
      <4> QED BY <4>1
    <3> QED BY <3>2 DEF IsInjective
  <2>2. args.app => /\ inst \in DOMAIN Installations
                    /\ \A j \in DOMAIN repos' : repos'[j] \in ToSet(Installations[inst])
    <3>1. 2..Len(repos) \subseteq DOMAIN repos
      BY <1>1
    <3> QED BY <1>1, <3>1 DEF Sparing, Once
  <2> QED BY <2>1, <2>2 DEF Sparing, Once
<1>3. ASSUME NEW r \in Repos, ToDo(r)' PROVE ToDo(r)
  <2>1. CASE \E j \in 2..Len(repos') : repos'[j] = r
    <3>1. \E j \in 2..Len(repos) : repos[j] = r
      BY <1>1, <2>1
    <3> QED BY <3>1 DEF ToDo
  <2>2. CASE args.app /\ \E i \in DOMAIN Installations : r \in ToSet(Installations[i]) /\ inst < i
    BY <2>2 DEF ToDo
  <2> QED BY <1>3, <2>1, <2>2 DEF ToDo
<1>4. ASSUME NEW p \in PRs, Ahead(p)' PROVE ToDo(repoOf[p])
  <2>1. 1 \in DOMAIN repos' /\ repos'[1] = repoOf[p]
    BY <1>1, <1>4 DEF Ahead
  <2>2. 2 \in 2..Len(repos) /\ repos[2] = repoOf[p]
    BY <1>1, <2>1
  <2> QED BY <2>2 DEF ToDo
<1>5. PushedOn'
  BY <1>3, <1>4, BetweenPages DEF Sparing
<1> QED BY <1>2, <1>5 DEF Sparing

LEMMA SparingListPullRequests == IInv /\ Sparing /\ ListPullRequests => Sparing'
<1> SUFFICES ASSUME IInv, Sparing, ListPullRequests PROVE Sparing'
  OBVIOUS
<1> DEFINE r == Head(repos)
<1>1. /\ TypeOK /\ pc = "page" /\ repos # <<>> /\ r # Malformed
      /\ UNCHANGED <<args, inst, open, unopened, sent>>
  BY DEF ListPullRequests, IInv, github
<1>2. CASE pc' = "events" /\ batch' = Page(open[r], page) /\ UNCHANGED <<repos, page>>
  <2> DEFINE a == (page - 1) * PageSize
             b == page * PageSize
  <2>1. /\ r \in Repos /\ page \in Nat \ {0} /\ open[r] \in Seq(PRs)
        /\ IsInjective(open[r]) /\ a \in Nat /\ b \in Nat /\ a < b
    <3>1. r \in Repos
      BY <1>1 DEF TypeOK
    <3>2. page \in Nat \ {0} /\ PageSize \in Nat \ {0} /\ open \in [Repos -> Seq(PRs)]
      BY <1>1, DispatchAssumption DEF TypeOK
    <3>3. a \in Nat /\ b = a + PageSize
      BY <3>2
    <3> QED BY <3>1, <3>2, <3>3 DEF Sparing, Once
  <2> HIDE DEF r
  <2>2. \A i \in DOMAIN batch' :
          /\ i \in Nat \ {0} /\ a + i \in DOMAIN open[r] /\ a + i <= b
          /\ batch'[i] = open[r][a + i]
    BY <1>2, <2>1, PagePlaces
  <2> HIDE DEF a, b
  <2>3. IsInjective(batch')
    <3>1. ASSUME NEW i \in DOMAIN batch', NEW j \in DOMAIN batch', batch'[i] = batch'[j] PROVE i = j
      <4>1. a + i = a + j /\ i \in Nat /\ j \in Nat
        BY <2>1, <2>2, <3>1 DEF IsInjective
      <4> QED BY <2>1, <4>1
    <3> QED BY <3>1 DEF IsInjective
  <2>4. Once'
    BY <1>1, <1>2, <2>3 DEF Sparing, Once
  <2>5. ASSUME NEW p \in PRs PROVE Counted(p)'
    <3> DEFINE n == Cardinality(New(repoOf[p]))
    <3>1. New(repoOf[p])' = New(repoOf[p]) /\ n \in Nat /\ sent[p] \in Nat /\ sent'[p] = sent[p]
      <4>1. repoOf[p] \in Repos
        BY DispatchAssumption
      <4> QED BY <1>1, <4>1, FS_CardinalityType DEF New, Sparing, PushedOn, TypeOK
    <3>2. Counted(p) /\ ~ Owed(p)
      BY <1>1 DEF Sparing, PushedOn, Owed
    <3>3. ToDo(repoOf[p])' => ToDo(repoOf[p])
      BY <1>1, <1>2 DEF ToDo
    <3>4. ASSUME Owed(p)'
          PROVE  Ahead(p) /\ ~ Ahead(p)'
      <4>1. PICK i \in DOMAIN batch' : batch'[i] = p
        BY <3>4 DEF Owed, ToSet
      <4>2. a + i \in DOMAIN open[r] /\ a + i > a /\ a + i <= b /\ open[r][a + i] = p
        BY <2>1, <2>2, <4>1
      <4>3. repoOf[p] = r
        BY <2>1, <4>2 DEF IInv, ScopeInv
      <4>4. Beyond(p, page - 1)
        BY <4>2, <4>3 DEF Beyond, a
      <4>5. ~ Beyond(p, page)
        <5> SUFFICES ASSUME NEW j \in DOMAIN open[r], open[r][j] = p, j > b PROVE FALSE
          BY <4>3 DEF Beyond, b
        <5>1. j = a + i
          BY <2>1, <4>2 DEF IsInjective
        <5>2. a + i \in Nat
          BY <2>1, <2>2, <4>1
        <5> QED BY <2>1, <4>2, <5>1, <5>2
      <4>6. ~ Ahead(p)'
        BY <1>1, <1>2, <4>5 DEF Ahead, Beyond
      <4> QED BY <1>1, <4>3, <4>4, <4>6 DEF Ahead, r
    <3>5. ASSUME Ahead(p)' PROVE Ahead(p)
      <4>1. PICK j \in DOMAIN open[repoOf[p]] : open[repoOf[p]][j] = p /\ j > b
        BY <1>1, <1>2, <3>5 DEF Ahead, Beyond, b
      <4>2. repoOf[p] = r
        BY <1>1, <1>2, <3>5 DEF Ahead, r
      <4>3. j > a
        <5>1. j \in Nat
          BY <2>1, <4>1, <4>2
        <5> QED BY <2>1, <4>1, <5>1
      <4>4. Beyond(p, page - 1)
        BY <4>1, <4>3 DEF Beyond, a
      <4> QED BY <1>1, <4>2, <4>4 DEF Ahead, r
    <3> HIDE DEF n
    <3>6. sent[p] <= n + 1 /\ (Ahead(p) => sent[p] <= n) /\ (ToDo(repoOf[p]) => sent[p] = 0)
      BY <3>1, <3>2 DEF Counted, n
    <3>7. sent[p] + (IF Owed(p)' THEN 1 ELSE 0) <= n + (IF Ahead(p)' THEN 0 ELSE 1)
      BY <3>1, <3>4, <3>5, <3>6
    <3> QED BY <3>1, <3>3, <3>6, <3>7 DEF Counted, n
  <2>6. PushedOn'
    <3>1. \A x \in Repos : New(x)' = New(x)
      BY <1>1 DEF New
    <3> QED BY <2>5, <3>1 DEF Sparing, PushedOn
  <2> QED BY <2>4, <2>6 DEF Sparing
<1>3. CASE repos' = Tail(repos) /\ pc' = pc
  BY <1>1, <1>3, SparingTail
<1> QED BY <1>2, <1>3 DEF ListPullRequests

LEMMA SparingSendEvent == IInv /\ Sparing /\ SendEvent => Sparing'
<1> SUFFICES ASSUME IInv, Sparing, SendEvent PROVE Sparing'
  OBVIOUS
<1>0. Head(batch) \in PRs
  BY DEF SendEvent, IInv, TypeOK
<1> PICK q \in PRs : q = Head(batch)
  BY <1>0
<1>1. /\ TypeOK /\ pc = "events" /\ pc' = "events" /\ batch # <<>> /\ batch' = Tail(batch)
      /\ UNCHANGED <<args, inst, repos, page, open, unopened>>
      /\ batch \in Seq(PRs) /\ sent \in [PRs -> Nat] /\ q \in PRs
  BY DEF SendEvent, IInv, TypeOK, github
<1>2. sent' = sent \/ sent' = [sent EXCEPT ![q] = @ + 1]
  BY DEF SendEvent
<1>3. /\ \A j \in DOMAIN batch' : j \in Nat \ {0} /\ j + 1 \in DOMAIN batch /\ batch'[j] = batch[j + 1]
      /\ 1 \in DOMAIN batch /\ batch[1] = q
  BY <1>1
<1>4. IsInjective(batch)
  BY <1>1 DEF Sparing, Once
<1>5. IsInjective(batch')
  <2>1. ASSUME NEW i \in DOMAIN batch', NEW j \in DOMAIN batch', batch'[i] = batch'[j] PROVE i = j
    <3>1. i + 1 = j + 1 /\ i \in Nat /\ j \in Nat
      BY <1>3, <1>4, <2>1 DEF IsInjective
    <3> QED BY <3>1
  <2> QED BY <2>1 DEF IsInjective
<1>6. Once'
  BY <1>1, <1>5 DEF Sparing, Once
<1>7. Owed(q) /\ ~ Owed(q)'
  <2>1. q \in ToSet(batch)
    BY <1>3 DEF ToSet
  <2>2. ASSUME NEW j \in DOMAIN batch', batch'[j] = q PROVE FALSE
    <3>1. j + 1 = 1 /\ j \in Nat \ {0}
      BY <1>3, <1>4, <2>2 DEF IsInjective
    <3> QED BY <3>1
  <2> QED BY <1>1, <2>1, <2>2 DEF Owed, ToSet
<1>8. ~ ToDo(repoOf[q])
  <2>1. repos # <<>> /\ Head(repos) = repoOf[q] /\ repos \in Seq(Repos \cup {Malformed})
    BY <1>1, <1>3 DEF IInv, ScopeInv, TypeOK
  <2>2. 1 \in DOMAIN repos /\ repos[1] = repoOf[q]
    BY <2>1
  <2>3. ~ \E j \in 2..Len(repos) : repos[j] = repoOf[q]
    <3> SUFFICES ASSUME NEW j \in 2..Len(repos), repos[j] = repoOf[q] PROVE FALSE
      OBVIOUS
    <3>1. j \in DOMAIN repos
      BY <2>1
    <3>2. j = 1
      BY <1>1, <2>2, <3>1 DEF Sparing, Once, IsInjective
    <3> QED BY <3>2
  <2>4. ASSUME args.app, NEW i \in DOMAIN Installations, repoOf[q] \in ToSet(Installations[i]), inst < i
        PROVE  FALSE
    <3>1. inst \in DOMAIN Installations /\ repoOf[q] \in ToSet(Installations[inst])
      BY <1>1, <2>2, <2>4 DEF Sparing, Once
    <3>2. inst = i
      BY <2>4, <3>1, ListedOnce
    <3>3. i \in Nat
      BY DispatchAssumption
    <3> QED BY <2>4, <3>2, <3>3
  <2> QED BY <1>1, <2>3, <2>4 DEF ToDo
<1>9. ASSUME NEW p \in PRs PROVE Counted(p)'
  <2> DEFINE n == Cardinality(New(repoOf[p]))
  <2>1. New(repoOf[p])' = New(repoOf[p]) /\ n \in Nat /\ sent[p] \in Nat
    <3>1. repoOf[p] \in Repos
      BY DispatchAssumption
    <3> QED BY <1>1, <3>1, FS_CardinalityType DEF New, Sparing, PushedOn
  <2>2. Counted(p)
    BY DEF Sparing, PushedOn
  <2>3. (Ahead(p)' <=> Ahead(p)) /\ (ToDo(repoOf[p])' <=> ToDo(repoOf[p]))
    BY <1>1 DEF Ahead, Beyond, ToDo
  <2>4. Owed(p)' => Owed(p)
    BY <1>1, <1>3 DEF Owed, ToSet
  <2> HIDE DEF n
  <2>5. CASE p = q
    <3>1. sent'[p] \in Nat /\ sent'[p] <= sent[p] + 1
      BY <1>1, <1>2, <2>5
    <3>2. sent[p] + 1 <= n + (IF Ahead(p) THEN 0 ELSE 1)
      BY <1>7, <2>2, <2>5 DEF Counted, n
    <3>3. sent'[p] + 0 <= n + (IF Ahead(p)' THEN 0 ELSE 1)
      BY <2>1, <2>3, <3>1, <3>2
    <3> QED BY <1>7, <1>8, <2>1, <2>3, <2>5, <3>3 DEF Counted, n
  <2>6. CASE p # q
    <3>1. sent'[p] = sent[p]
      BY <1>1, <1>2, <2>6
    <3>2. sent[p] + (IF Owed(p)' THEN 1 ELSE 0) <= n + (IF Ahead(p)' THEN 0 ELSE 1)
      <4>1. sent[p] + (IF Owed(p) THEN 1 ELSE 0) <= n + (IF Ahead(p) THEN 0 ELSE 1)
        BY <2>2 DEF Counted, n
      <4> QED BY <4>1, <2>1, <2>3, <2>4
    <3> QED BY <2>1, <2>2, <2>3, <3>1, <3>2 DEF Counted, n
  <2> QED BY <2>5, <2>6
<1>10. PushedOn'
  <2>1. \A x \in Repos : New(x)' = New(x)
    BY <1>1 DEF New
  <2> QED BY <1>9, <2>1 DEF Sparing, PushedOn
<1> QED BY <1>6, <1>10 DEF Sparing

LEMMA SparingNextPage == IInv /\ Sparing /\ NextPage => Sparing'
<1> SUFFICES ASSUME IInv, Sparing, NextPage PROVE Sparing'
  OBVIOUS
<1>1. /\ TypeOK /\ pc = "events" /\ pc' = "page" /\ repos # <<>> /\ page \in Nat
      /\ UNCHANGED <<args, inst, open, unopened, sent>>
  BY DEF NextPage, IInv, ScopeInv, TypeOK, github
<1>2. CASE page' = page + 1 /\ UNCHANGED repos
  <2>1. Once'
    BY <1>1, <1>2 DEF Sparing, Once
  <2>2. ASSUME NEW p \in PRs, Ahead(p)' PROVE Ahead(p)
    <3>1. page' - 1 = page
      BY <1>1, <1>2
    <3> QED BY <1>1, <1>2, <2>2, <3>1 DEF Ahead, Beyond
  <2>3. \A r \in Repos : ToDo(r)' => ToDo(r)
    BY <1>1, <1>2 DEF ToDo
  <2>4. PushedOn'
    BY <1>1, <2>2, <2>3, BetweenPages DEF Sparing
  <2> QED BY <2>1, <2>4 DEF Sparing
<1>3. CASE repos' = Tail(repos)
  BY <1>1, <1>3, SparingTail
<1> QED BY <1>2, <1>3 DEF NextPage

LEMMA SparingReturn == IInv /\ Sparing /\ Return => Sparing'
<1> SUFFICES ASSUME IInv, Sparing, Return PROVE Sparing'
  OBVIOUS
<1>1. TypeOK /\ pc = "page" /\ UNCHANGED <<args, open, unopened, sent>>
  BY DEF Return, IInv, github
<1>2. CASE args.app /\ pc' = "installation" /\ inst' = inst + 1
  BY <1>1, <1>2, SparingNextInstallation
<1>3. CASE pc' = "done"
  BY <1>1, <1>3, SparingDone
<1> QED BY <1>2, <1>3 DEF Return, Exit

\* A new pull request may push one more of its repository on: it is counted.
LEMMA SparingOpened ==
  ASSUME IInv, Sparing, NEW q \in PRs, Opened(q)
  PROVE  Sparing'
<1> DEFINE r == repoOf[q]
           l == <<q>> \o open[r]
<1>1. /\ TypeOK /\ UNCHANGED <<args, pc, inst, repos, page, batch, sent>>
      /\ q \in unopened /\ unopened' = unopened \ {q}
      /\ open' = [open EXCEPT ![r] = l] /\ open \in [Repos -> Seq(PRs)]
  BY DEF Opened, cursor, IInv, TypeOK
<1>2. r \in Repos /\ \A p \in PRs : repoOf[p] \in Repos
  BY DispatchAssumption
<1>3. /\ l \in Seq(PRs)
      /\ \A i \in DOMAIN l : i \in Nat /\ l[i] = IF i = 1 THEN q ELSE open[r][i - 1]
      /\ \A i \in DOMAIN l : i # 1 => i - 1 \in DOMAIN open[r]
  <2>1. open[r] \in Seq(PRs)
    BY <1>1, <1>2
  <2> QED BY <2>1, InFront
<1> HIDE DEF l
<1>4. Once'
  <2>1. IsInjective(open[r]) /\ q \notin ToSet(open[r]) /\ ToSet(open[r]) \cap unopened = {}
    BY <1>1, <1>2 DEF Sparing, Once
  <2>2. IsInjective(l)
    <3> SUFFICES ASSUME NEW i \in DOMAIN l, NEW j \in DOMAIN l, l[i] = l[j] PROVE i = j
      BY DEF IsInjective
    <3>1. \A k \in DOMAIN open[r] : open[r][k] # q
      BY <2>1 DEF ToSet
    <3>2. CASE i = 1 \/ j = 1
      BY <1>3, <3>1, <3>2
    <3>3. CASE i # 1 /\ j # 1
      <4>1. i - 1 = j - 1
        BY <1>3, <2>1, <3>3 DEF IsInjective
      <4> QED BY <1>3, <4>1
    <3> QED BY <3>2, <3>3
  <2>3. ToSet(l) \cap unopened' = {}
    <3>1. ASSUME NEW i \in DOMAIN l PROVE l[i] \notin unopened'
      <4>1. CASE i = 1
        BY <1>1, <1>3, <4>1
      <4>2. CASE i # 1
        BY <1>1, <1>3, <2>1, <4>2 DEF ToSet
      <4> QED BY <4>1, <4>2
    <3> QED BY <3>1 DEF ToSet
  <2>4. \A x \in Repos : IsInjective(open'[x]) /\ ToSet(open'[x]) \cap unopened' = {}
    BY <1>1, <1>2, <2>2, <2>3 DEF Sparing, Once
  <2> QED BY <1>1, <2>4 DEF Sparing, Once
<1>5. /\ New(r)' = New(r) \cup {q} /\ q \notin New(r)
      /\ \A x \in Repos : x # r => New(x)' = New(x)
  <2>1. q \notin ToSet(Open0[repoOf[q]])
    BY <1>1 DEF Sparing, Once
  <2>2. PRs \ unopened' = (PRs \ unopened) \cup {q}
    BY <1>1
  <2> QED BY <1>1, <2>1, <2>2 DEF New
<1>6. /\ IsFiniteSet(New(r)') /\ Cardinality(New(r)') = Cardinality(New(r)) + 1
      /\ \A x \in Repos : IsFiniteSet(New(x))
  BY <1>2, <1>5, FS_AddElement DEF Sparing, PushedOn
<1>7. ASSUME NEW p \in PRs PROVE Counted(p)'
  <2> DEFINE n == Cardinality(New(repoOf[p]))
  <2>1. n \in Nat /\ sent[p] \in Nat /\ sent'[p] = sent[p]
    BY <1>1, <1>2, <1>6, FS_CardinalityType DEF TypeOK
  <2>2. Counted(p)
    BY DEF Sparing, PushedOn
  <2>3. (ToDo(repoOf[p])' <=> ToDo(repoOf[p])) /\ (Owed(p)' <=> Owed(p))
    BY <1>1 DEF ToDo, Owed
  <2> HIDE DEF n
  <2>4. sent[p] + (IF Owed(p) THEN 1 ELSE 0) <= n + (IF Ahead(p) THEN 0 ELSE 1)
    BY <2>2 DEF Counted, n
  <2>5. CASE repoOf[p] = r
    <3>1. Cardinality(New(repoOf[p]))' = n + 1
      BY <1>6, <2>5 DEF n
    <3>2. sent[p] + (IF Owed(p)' THEN 1 ELSE 0) <= (n + 1) + (IF Ahead(p)' THEN 0 ELSE 1)
      BY <2>1, <2>3, <2>4
    <3> QED BY <2>1, <2>2, <2>3, <3>1, <3>2 DEF Counted
  <2>6. CASE repoOf[p] # r
    <3>1. New(repoOf[p])' = New(repoOf[p])
      BY <1>2, <1>5, <2>6
    <3>2. Ahead(p)' <=> Ahead(p)
      <4>1. open'[repoOf[p]] = open[repoOf[p]]
        BY <1>1, <1>2, <2>6
      <4> QED BY <1>1, <4>1 DEF Ahead, Beyond
    <3>3. sent[p] + (IF Owed(p)' THEN 1 ELSE 0) <= n + (IF Ahead(p)' THEN 0 ELSE 1)
      BY <2>3, <2>4, <3>2
    <3> QED BY <2>1, <2>2, <2>3, <3>1, <3>3 DEF Counted, n
  <2> QED BY <2>5, <2>6
<1>8. PushedOn'
  <2>1. \A x \in Repos : IsFiniteSet(New(x))'
    BY <1>5, <1>6
  <2> QED BY <1>7, <2>1 DEF PushedOn
<1> QED BY <1>4, <1>8 DEF Sparing

\* When one is closed the others only move up.
LEMMA SparingClosed ==
  ASSUME IInv, Sparing, NEW r \in Repos, Closed(r)
  PROVE  Sparing'
<1>1. PICK i \in DOMAIN open[r] : open' = [open EXCEPT ![r] = RemoveAt(@, i)]
  BY DEF Closed
<1> DEFINE l == RemoveAt(open[r], i)
<1>2. /\ TypeOK /\ UNCHANGED <<args, pc, inst, repos, page, batch, sent, unopened>>
      /\ open' = [open EXCEPT ![r] = l] /\ open \in [Repos -> Seq(PRs)] /\ open[r] \in Seq(PRs)
  BY <1>1 DEF Closed, cursor, IInv, TypeOK
<1>3. \A j \in DOMAIN l :
        /\ j \in Nat /\ (IF j < i THEN j ELSE j + 1) \in DOMAIN open[r]
        /\ l[j] = open[r][IF j < i THEN j ELSE j + 1]
  BY <1>2, RemoveAtOfSeq
<1>4. i \in Nat
  BY <1>2
<1> HIDE DEF l
<1>5. Once'
  <2>1. IsInjective(open[r]) /\ ToSet(open[r]) \cap unopened = {}
    BY DEF Sparing, Once
  <2>2. IsInjective(l)
    <3> SUFFICES ASSUME NEW j \in DOMAIN l, NEW k \in DOMAIN l, l[j] = l[k] PROVE j = k
      BY DEF IsInjective
    <3>1. (IF j < i THEN j ELSE j + 1) = (IF k < i THEN k ELSE k + 1)
      BY <1>3, <2>1 DEF IsInjective
    <3> QED BY <1>3, <1>4, <3>1
  <2>3. ToSet(l) \cap unopened = {}
    BY <1>3, <2>1 DEF ToSet
  <2>4. \A x \in Repos : IsInjective(open'[x]) /\ ToSet(open'[x]) \cap unopened' = {}
    BY <1>2, <2>2, <2>3 DEF Sparing, Once
  <2> QED BY <1>2, <2>4 DEF Sparing, Once
<1>6. ASSUME NEW p \in PRs, NEW k \in Int, Beyond(p, k)' PROVE Beyond(p, k)
  <2>1. PICK j \in DOMAIN open'[repoOf[p]] : open'[repoOf[p]][j] = p /\ j > k * PageSize
    BY <1>6 DEF Beyond
  <2>2. repoOf[p] \in Repos /\ k * PageSize \in Int
    BY DispatchAssumption
  <2>3. CASE repoOf[p] = r
    <3>1. j \in DOMAIN l /\ l[j] = p
      BY <1>2, <2>1, <2>2, <2>3
    <3> DEFINE m == IF j < i THEN j ELSE j + 1
    <3>2. m \in DOMAIN open[r] /\ open[r][m] = p /\ j \in Nat
      BY <1>3, <3>1
    <3>3. m > k * PageSize
      BY <2>1, <2>2, <3>2
    <3> QED BY <2>3, <3>2, <3>3 DEF Beyond
  <2>4. CASE repoOf[p] # r
    <3>1. open'[repoOf[p]] = open[repoOf[p]]
      BY <1>2, <2>2, <2>4
    <3> QED BY <2>1, <3>1 DEF Beyond
  <2> QED BY <2>3, <2>4
<1>7. ASSUME NEW p \in PRs, Ahead(p)' PROVE Ahead(p)
  <2>1. page \in Int /\ page - 1 \in Int /\ page' = page
    BY <1>2 DEF TypeOK
  <2>2. Beyond(p, page)' => Beyond(p, page)
    <3>1. ASSUME NEW k \in Int, k = page, Beyond(p, page)' PROVE Beyond(p, k)
      BY <1>2, <1>6, <3>1 DEF Beyond
    <3> QED BY <2>1, <3>1
  <2>3. Beyond(p, page - 1)' => Beyond(p, page - 1)
    <3>1. ASSUME NEW k \in Int, k = page - 1, Beyond(p, page - 1)' PROVE Beyond(p, k)
      BY <1>2, <1>6, <3>1 DEF Beyond
    <3> QED BY <2>1, <3>1
  <2> QED BY <1>2, <1>7, <2>2, <2>3 DEF Ahead
<1>8. \A x \in Repos : New(x)' = New(x)
  BY <1>2 DEF New
<1>9. ASSUME NEW p \in PRs PROVE Counted(p)'
  <2> DEFINE n == Cardinality(New(repoOf[p]))
  <2>1. n \in Nat /\ sent[p] \in Nat /\ sent'[p] = sent[p] /\ New(repoOf[p])' = New(repoOf[p])
    <3>1. repoOf[p] \in Repos
      BY DispatchAssumption
    <3> QED BY <1>2, <1>8, <3>1, FS_CardinalityType DEF Sparing, PushedOn, TypeOK
  <2>2. (ToDo(repoOf[p])' <=> ToDo(repoOf[p])) /\ (Owed(p)' <=> Owed(p))
    BY <1>2 DEF ToDo, Owed
  <2>3. Counted(p)
    BY DEF Sparing, PushedOn
  <2> HIDE DEF n
  <2>4. sent[p] + (IF Owed(p)' THEN 1 ELSE 0) <= n + (IF Ahead(p)' THEN 0 ELSE 1)
    <3>1. sent[p] + (IF Owed(p) THEN 1 ELSE 0) <= n + (IF Ahead(p) THEN 0 ELSE 1)
      BY <2>3 DEF Counted, n
    <3> QED BY <3>1, <1>7, <2>1, <2>2
  <2> QED BY <2>1, <2>2, <2>3, <2>4 DEF Counted, n
<1>10. PushedOn'
  BY <1>8, <1>9 DEF Sparing, PushedOn
<1> QED BY <1>5, <1>10 DEF Sparing

LEMMA SparingStep == IInv /\ Sparing /\ [Next]_vars => Sparing'
<1> SUFFICES ASSUME IInv, Sparing, [Next]_vars PROVE Sparing'
  OBVIOUS
<1>1. CASE FinishApp
  BY <1>1, SparingDone DEF FinishApp, Exit, IInv, github
<1>2. CASE SkipMalformed
  BY <1>2, SparingTail DEF SkipMalformed, IInv, github
<1>3. CASE Command /\ ~ FinishApp /\ ~ SkipMalformed
  BY <1>3, SparingRun, SparingListDuneBotRepositories, SparingListAllInstallations, SparingInstallation,
     SparingListPullRequests, SparingSendEvent, SparingNextPage, SparingReturn DEF Command
<1>4. CASE \E q \in PRs : Opened(q)
  BY <1>4, SparingOpened
<1>5. CASE \E r \in Repos : Closed(r)
  BY <1>5, SparingClosed
<1>6. CASE UNCHANGED vars
  BY <1>6 DEF vars, cursor, github, Sparing, Once, PushedOn, Counted, New, ToDo, Owed, Ahead, Beyond
<1> QED BY <1>1, <1>2, <1>3, <1>4, <1>5, <1>6 DEF Next

LEMMA SparingInvariance == Spec => []Sparing
BY Invariance, SparingInit, SparingStep, PTL DEF Spec

-----------------------------------------------------------------------------
(* Nobody is forgotten where only lists of one page lose what is closed        *)

\* p is open from the start, has got no event, and no call failed that would
\* have led to one.
Due(p) == /\ p \in ToSet(Open0[repoOf[p]]) /\ p \in ToSet(open[repoOf[p]])
          /\ ~ args.dry /\ sent[p] = 0
          /\ {p, repoOf[p], None} \cap failed = {}

\* dispatchForRepos will come to p: on this page, on a later one, or when it
\* gets to its repository.
InWork(p) ==
  \/ /\ pc \in {"page", "events"}
     /\ \E j \in 2..Len(repos) : repos[j] = repoOf[p]
  \/ /\ repos # <<>> /\ Head(repos) = repoOf[p]
     /\ \/ pc = "page" /\ Beyond(p, page - 1)
        \/ pc = "events" /\ p \in ToSet(batch)
        \/ pc = "events" /\ more /\ Beyond(p, page)

\* Installation i shows p to a run that asks for it.
Shows(i, p) == /\ i \in DOMAIN Installations \ failed /\ args.installation \in {None, i}
               /\ args.repo \in {None, repoOf[p]} /\ repoOf[p] \in ToSet(Installations[i])

\* What is due is still to come.
ToCome ==
  \A p \in PRs : Due(p) =>
    /\ ~ args.app /\ Listed(repoOf[p]) => pc = "start" \/ InWork(p)
    /\ args.app => \A i \in DOMAIN Installations : Shows(i, p) =>
         \/ pc = "start"
         \/ pc = "installation" /\ inst <= i
         \/ pc \in {"page", "events"} /\ inst < i
         \/ inst = i /\ InWork(p)

\* Only a repository that is paged through is past its first page.
FirstPage == pc = "page" /\ page # 1 => repos # <<>> /\ Head(repos) # Malformed

Reach == ToCome /\ FirstPage

\* What lies between two page ends is on the page.
LEMMA OnPage ==
  ASSUME NEW S, NEW s \in Seq(S), NEW k \in Nat \ {0}, NEW i \in DOMAIN s,
         (k - 1) * PageSize < i, i <= k * PageSize
  PROVE  s[i] \in ToSet(Page(s, k))
<1> DEFINE a == (k - 1) * PageSize
           b == k * PageSize
           n == IF b < Len(s) THEN b ELSE Len(s)
           t == SubSeq(s, a + 1, n)
<1>1. PageSize \in Nat \ {0} /\ Len(s) \in Nat /\ DOMAIN s = 1..Len(s)
  BY DispatchAssumption
<1>2. a \in Nat /\ b \in Nat /\ a < i /\ i <= b
  BY <1>1
<1>3. Page(s, k) = t
  BY DEF Page
<1> HIDE DEF a, b
<1>4. n \in Nat /\ i \in (a + 1)..n /\ n <= Len(s)
  BY <1>1, <1>2
<1>5. \A j \in (a + 1)..n : s[j] \in S
  BY <1>1, <1>2, <1>4
<1> HIDE DEF n
<1>6. /\ t \in Seq(S) /\ Len(t) = n - (a + 1) + 1
      /\ \A j \in 1..(n - (a + 1) + 1) : t[j] = s[(a + 1) + j - 1]
  BY <1>2, <1>4, <1>5, SubSeqProperties
<1> HIDE DEF t
<1>7. i - a \in DOMAIN t /\ t[i - a] = s[i]
  BY <1>2, <1>4, <1>6
<1> QED BY <1>3, <1>7 DEF ToSet

\* The work begins with a first page, and nothing precedes that.
LEMMA FirstOfRepo ==
  ASSUME TypeOK, NEW p \in PRs, p \in ToSet(open[repoOf[p]]), open' = open,
         pc' = "page", page' = 1, repos' \in Seq(Repos \cup {Malformed}),
         NEW j \in DOMAIN repos', repos'[j] = repoOf[p]
  PROVE  InWork(p)'
<1>1. repoOf[p] \in Repos /\ PageSize \in Nat
  BY DispatchAssumption
<1>2. PICK i \in DOMAIN open[repoOf[p]] : open[repoOf[p]][i] = p
  BY DEF ToSet
<1>3. i \in Nat /\ i > 0
  BY <1>1 DEF TypeOK
<1>4. i > (page' - 1) * PageSize
  BY <1>1, <1>3
<1>5. CASE j = 1
  <2>1. repos' # <<>> /\ Head(repos') = repoOf[p]
    BY <1>5
  <2>2. Beyond(p, page - 1)'
    BY <1>2, <1>4 DEF Beyond
  <2> QED BY <2>1, <2>2 DEF InWork
<1>6. CASE j # 1
  BY <1>6 DEF InWork
<1> QED BY <1>5, <1>6

\* The same when dispatchForRepos is done with one of several.
LEMMA NextRepo ==
  ASSUME TypeOK, NEW p \in PRs, p \in ToSet(open[repoOf[p]]), open' = open,
         pc' = "page", page' = 1, repos' = Tail(repos),
         NEW j \in 2..Len(repos), repos[j] = repoOf[p]
  PROVE  InWork(p)'
<1>1. repos \in Seq(Repos \cup {Malformed}) /\ repos # <<>>
  BY DEF TypeOK
<1>2. /\ repos' \in Seq(Repos \cup {Malformed})
      /\ j - 1 \in DOMAIN repos' /\ repos'[j - 1] = repoOf[p]
  BY <1>1
<1> QED BY <1>2, FirstOfRepo

LEMMA ReachInit == Init => Reach
BY DEF Init, Reach, ToCome, FirstPage

\* dispatchForRepos is called: every repository of the list is work to come.
LEMMA ReachBegin ==
  ASSUME IInv, Reach, pc # "done", NEW rs \in Seq(Repos \cup {Malformed}), Begin(rs),
         UNCHANGED <<args, inst, open, sent, failed>>,
         \A p \in PRs : ~ args.app /\ Listed(repoOf[p]) => \E j \in DOMAIN rs : rs[j] = repoOf[p],
         args.app => pc = "installation" /\ \A p \in PRs :
                       Shows(inst, p) => \E j \in DOMAIN rs : rs[j] = repoOf[p]
  PROVE  Reach'
<1>1. pc' = "page" /\ page' = 1 /\ repos' = rs
  BY DEF Begin
<1>2. ASSUME NEW p \in PRs, Due(p), \E j \in DOMAIN rs : rs[j] = repoOf[p] PROVE InWork(p)'
  BY <1>1, <1>2, FirstOfRepo DEF IInv, Reach, Due
<1>3. ToCome'
  <2> SUFFICES ASSUME NEW p \in PRs, Due(p)'
               PROVE  /\ ~ args'.app /\ Listed(repoOf[p])' => InWork(p)'
                      /\ args'.app => \A i \in DOMAIN Installations : Shows(i, p)' =>
                           (pc' \in {"page", "events"} /\ inst' < i) \/ (inst' = i /\ InWork(p)')
    BY DEF ToCome
  <2>1. Due(p)
    BY DEF Due
  <2>2. ~ args'.app /\ Listed(repoOf[p])' => InWork(p)'
    BY <1>2, <2>1 DEF Listed
  <2>3. ASSUME args'.app, NEW i \in DOMAIN Installations, Shows(i, p)'
        PROVE  (pc' \in {"page", "events"} /\ inst' < i) \/ (inst' = i /\ InWork(p)')
    <3>1. args.app /\ Shows(i, p) /\ pc = "installation"
      BY <2>3 DEF Shows
    <3>2. inst <= i
      BY <2>1, <3>1 DEF Reach, ToCome
    <3>3. i \in Nat /\ inst \in Nat
      BY DispatchAssumption DEF IInv, TypeOK
    <3>4. inst = i => InWork(p)'
      BY <1>2, <2>1, <3>1
    <3> QED BY <1>1, <3>2, <3>3, <3>4
  <2> QED BY <2>2, <2>3
<1>4. FirstPage'
  BY <1>1 DEF Reach, FirstPage
<1> QED BY <1>3, <1>4 DEF Reach

\* When the first listing fails nothing is due any more.
LEMMA ReachExit ==
  ASSUME Reach, Exit("error"), failed' = failed \cup {None}, open' = open
  PROVE  Reach'
<1>1. ToCome'
  BY DEF ToCome, Due
<1>2. FirstPage'
  BY DEF Reach, FirstPage, Exit
<1> QED BY <1>1, <1>2 DEF Reach

LEMMA ReachRun == IInv /\ Reach /\ Run => Reach'
<1> SUFFICES ASSUME IInv, Reach, Run PROVE Reach'
  OBVIOUS
<1>1. TypeOK /\ ~ args.app /\ pc = "start" /\ UNCHANGED <<args, inst, open, sent>>
  BY DEF Run, IInv, github
<1>2. CASE args.repo # None /\ Begin(<<args.repo>>) /\ UNCHANGED <<exit, failed>>
  <2>1. args.repo \in Repos \cup {Malformed}
    BY <1>1, <1>2 DEF TypeOK, Args
  <2> DEFINE rs == <<args.repo>>
  <2>2. rs \in Seq(Repos \cup {Malformed}) /\ 1 \in DOMAIN rs /\ rs[1] = args.repo
    BY <2>1
  <2>3. Begin(rs)
    BY <1>2
  <2> HIDE DEF rs
  <2>4. \A p \in PRs : Listed(repoOf[p]) => \E j \in DOMAIN rs : rs[j] = repoOf[p]
    BY <1>2, <2>2 DEF Listed
  <2> QED BY <1>1, <1>2, <2>2, <2>3, <2>4, ReachBegin
<1>3. CASE /\ args.repo = None /\ ~ args.endpoint
           /\ Begin(SubSeq(UserRepos, 1, IF RepoPage < Len(UserRepos) THEN RepoPage ELSE Len(UserRepos)))
           /\ UNCHANGED <<exit, failed>>
  <2> DEFINE n == IF RepoPage < Len(UserRepos) THEN RepoPage ELSE Len(UserRepos)
             rs == SubSeq(UserRepos, 1, n)
  <2>1. UserRepos \in Seq(Repos) /\ n \in Nat /\ n <= Len(UserRepos) /\ RepoPage \in Nat
    BY DispatchAssumption
  <2>2. \A i \in DOMAIN UserRepos : i <= RepoPage => i \in 1..n
    BY <2>1
  <2>3. \A i \in 1..n : UserRepos[i] \in Repos \cup {Malformed}
    BY <2>1
  <2>4. Begin(rs)
    BY <1>3
  <2> HIDE DEF n
  <2>5. /\ rs \in Seq(Repos \cup {Malformed}) /\ Len(rs) = n
        /\ \A i \in 1..n : rs[i] = UserRepos[i]
    BY <2>1, <2>3, SubSeqProperties
  <2> HIDE DEF rs
  <2>6. ASSUME NEW p \in PRs, Listed(repoOf[p]) PROVE \E j \in DOMAIN rs : rs[j] = repoOf[p]
    <3>1. repoOf[p] # None
      BY DispatchAssumption
    <3>2. PICK i \in DOMAIN UserRepos : UserRepos[i] = repoOf[p] /\ i <= RepoPage
      BY <1>1, <1>3, <2>6, <3>1 DEF Listed
    <3> QED BY <2>2, <2>5, <3>2
  <2> QED BY <1>1, <1>3, <2>4, <2>5, <2>6, ReachBegin
<1>4. CASE Exit("error") /\ failed' = failed \cup {None} /\ UNCHANGED <<repos, page, firstErr>>
  BY <1>1, <1>4, ReachExit
<1> QED BY <1>2, <1>3, <1>4 DEF Run

LEMMA ReachListDuneBotRepositories == IInv /\ Reach /\ ListDuneBotRepositories => Reach'
<1> SUFFICES ASSUME IInv, Reach, ListDuneBotRepositories PROVE Reach'
  OBVIOUS
<1>1. /\ ~ args.app /\ args.repo = None /\ args.endpoint /\ pc = "start"
      /\ UNCHANGED <<args, inst, open, sent>>
  BY DEF ListDuneBotRepositories, github
<1>2. CASE args.member /\ Begin(Installations[Endpoint]) /\ UNCHANGED <<exit, failed>>
  <2>1. Installations[Endpoint] \in Seq(Repos)
    BY DispatchAssumption
  <2>2. Installations[Endpoint] \in Seq(Repos \cup {Malformed})
    BY <2>1
  <2>3. ASSUME NEW p \in PRs, Listed(repoOf[p])
        PROVE  \E j \in DOMAIN Installations[Endpoint] : Installations[Endpoint][j] = repoOf[p]
    <3>1. repoOf[p] # None
      BY DispatchAssumption
    <3> QED BY <1>1, <2>3, <3>1 DEF Listed, ToSet
  <2> QED BY <1>1, <1>2, <2>2, <2>3, ReachBegin
<1>3. CASE Exit("error") /\ failed' = failed \cup {None} /\ UNCHANGED <<repos, page, firstErr>>
  BY <1>1, <1>3, ReachExit
<1> QED BY <1>2, <1>3 DEF ListDuneBotRepositories, DuneBotRepositoriesHandler

LEMMA ReachListAllInstallations == IInv /\ Reach /\ ListAllInstallations => Reach'
<1> SUFFICES ASSUME IInv, Reach, ListAllInstallations PROVE Reach'
  OBVIOUS
<1>1. CASE pc' = "installation" /\ inst' = 1 /\ UNCHANGED <<exit, failed>>
  <2>1. \A i \in DOMAIN Installations : 1 <= i
    BY DispatchAssumption
  <2>2. ToCome'
    BY <1>1, <2>1 DEF ToCome, ListAllInstallations
  <2>3. FirstPage'
    BY <1>1 DEF Reach, FirstPage, ListAllInstallations, github
  <2> QED BY <2>2, <2>3 DEF Reach
<1>2. CASE Exit("error") /\ failed' = failed \cup {None}
  BY <1>2, ReachExit DEF ListAllInstallations, github
<1> QED BY <1>1, <1>2 DEF ListAllInstallations

LEMMA ReachInstallation == IInv /\ Reach /\ Installation => Reach'
<1> SUFFICES ASSUME IInv, Reach, Installation PROVE Reach'
  OBVIOUS
<1>1. /\ TypeOK /\ args.app /\ pc = "installation" /\ args' = args /\ open' = open /\ sent' = sent
      /\ inst \in Nat /\ inst # 0 /\ inst <= Len(Installations)
  BY DEF Installation, IInv, ErrorInv, TypeOK, github
<1>2. inst \in DOMAIN Installations /\ DOMAIN Installations \subseteq Nat
  BY <1>1, DispatchAssumption
<1>3. CASE args.installation \in {None, inst} /\ Begin(OfInstallation(inst)) /\ UNCHANGED <<inst, failed>>
  <2>1. OfInstallation(inst) \in Seq(Repos)
    BY <1>1, <1>2, OfInstallationTyped DEF TypeOK
  <2>2. OfInstallation(inst) \in Seq(Repos \cup {Malformed})
    BY <2>1
  <2>3. ASSUME NEW p \in PRs, Shows(inst, p)
        PROVE  \E j \in DOMAIN OfInstallation(inst) : OfInstallation(inst)[j] = repoOf[p]
    <3>1. CASE args.repo = None
      <4>1. OfInstallation(inst) = Installations[inst]
        <5>1. Installations[inst] \in Seq(Repos)
          BY <1>2, DispatchAssumption
        <5>2. None \notin ToSet(Installations[inst])
          BY <5>1, DispatchAssumption DEF ToSet
        <5> QED BY <3>1, <5>2 DEF OfInstallation
      <4> QED BY <2>3, <4>1 DEF Shows, ToSet
    <3>2. CASE args.repo # None
      <4>1. args.repo = repoOf[p] /\ args.repo \in ToSet(Installations[inst])
        BY <2>3, <3>2 DEF Shows
      <4>2. OfInstallation(inst) = <<repoOf[p]>>
        BY <3>2, <4>1 DEF OfInstallation
      <4> QED BY <4>2
    <3> QED BY <3>1, <3>2
  <2> QED BY <1>1, <1>3, <2>2, <2>3, ReachBegin
<1>4. CASE /\ inst' = inst + 1 /\ UNCHANGED <<pc, repos, page, firstErr>>
           /\ \/ args.installation \notin {None, inst} /\ failed' = failed
              \/ failed' = failed \cup {inst}
  <2>1. ASSUME NEW p \in PRs, Due(p)', NEW i \in DOMAIN Installations, Shows(i, p)'
        PROVE  inst' <= i
    <3>1. Due(p) /\ Shows(i, p)
      BY <1>1, <1>4, <2>1 DEF Due, Shows
    <3>2. inst <= i
      BY <1>1, <3>1 DEF Reach, ToCome
    <3>3. i # inst
      BY <1>1, <1>4, <2>1 DEF Shows
    <3> QED BY <1>1, <1>2, <1>4, <3>2, <3>3
  <2>2. ToCome'
    BY <1>1, <1>4, <2>1 DEF ToCome
  <2>3. FirstPage'
    BY <1>1, <1>4 DEF Reach, FirstPage
  <2> QED BY <2>2, <2>3 DEF Reach
<1> QED BY <1>3, <1>4 DEF Installation

LEMMA ReachFinishApp == IInv /\ Reach /\ FinishApp => Reach'
<1> SUFFICES ASSUME IInv, Reach, FinishApp PROVE Reach'
  OBVIOUS
<1>1. /\ pc = "installation" /\ args.app /\ inst > Len(Installations) /\ inst \in Nat /\ pc' = "done"
      /\ UNCHANGED <<args, inst, repos, page, batch, more, open, sent, failed>>
  BY DEF FinishApp, Exit, cursor, github, IInv, ErrorInv, TypeOK
<1>2. \A i \in DOMAIN Installations : ~ (inst <= i)
  BY <1>1, DispatchAssumption
<1>3. ASSUME NEW p \in PRs, Due(p)', NEW i \in DOMAIN Installations, Shows(i, p)' PROVE FALSE
  <2>1. Due(p) /\ Shows(i, p)
    BY <1>1, <1>3 DEF Due, Shows
  <2>2. inst <= i
    BY <1>1, <2>1 DEF Reach, ToCome, InWork
  <2> QED BY <1>2, <2>2
<1>4. ToCome'
  BY <1>1, <1>3 DEF ToCome
<1>5. FirstPage'
  BY <1>1 DEF Reach, FirstPage
<1> QED BY <1>4, <1>5 DEF Reach

\* Within dispatchForRepos it is enough that the work still leads to what it led to.
LEMMA ReachWork ==
  ASSUME IInv, Reach, pc \in {"page", "events"}, pc' \in {"page", "events"},
         UNCHANGED <<args, inst>>, failed \subseteq failed',
         \A p \in PRs : Due(p)' => Due(p) /\ (InWork(p) => InWork(p)'),
         FirstPage'
  PROVE  Reach'
<1>1. ASSUME NEW p \in PRs, Due(p)'
      PROVE  /\ ~ args'.app /\ Listed(repoOf[p])' => InWork(p)'
             /\ args'.app => \A i \in DOMAIN Installations : Shows(i, p)' =>
                               inst' < i \/ (inst' = i /\ InWork(p)')
  <2>1. Due(p) /\ (InWork(p) => InWork(p)')
    BY <1>1
  <2>2. ~ args'.app /\ Listed(repoOf[p])' => InWork(p)'
    BY <2>1 DEF Reach, ToCome, Listed
  <2>3. ASSUME args'.app, NEW i \in DOMAIN Installations, Shows(i, p)'
        PROVE  inst' < i \/ (inst' = i /\ InWork(p)')
    <3>1. args.app /\ Shows(i, p)
      BY <2>3 DEF Shows
    <3> QED BY <2>1, <3>1 DEF Reach, ToCome
  <2> QED BY <2>2, <2>3
<1>2. ToCome'
  BY <1>1 DEF ToCome
<1> QED BY <1>2 DEF Reach

LEMMA ReachSkipMalformed == IInv /\ Reach /\ SkipMalformed => Reach'
<1> SUFFICES ASSUME IInv, Reach, SkipMalformed PROVE Reach'
  OBVIOUS
<1>1. /\ TypeOK /\ pc = "page" /\ pc' = "page" /\ repos # <<>> /\ Head(repos) = Malformed
      /\ repos' = Tail(repos) /\ page' = page
      /\ UNCHANGED <<args, inst, open, sent, failed>>
  BY DEF SkipMalformed, IInv, github
<1>2. page = 1
  BY <1>1 DEF Reach, FirstPage
<1>3. ASSUME NEW p \in PRs, Due(p)' PROVE Due(p) /\ (InWork(p) => InWork(p)')
  <2>1. Due(p)
    BY <1>1, <1>3 DEF Due
  <2>2. ASSUME InWork(p) PROVE InWork(p)'
    <3>1. repoOf[p] # Malformed
      BY DispatchAssumption
    <3>2. PICK j \in 2..Len(repos) : repos[j] = repoOf[p]
      BY <1>1, <2>2, <3>1 DEF InWork
    <3> QED BY <1>1, <1>2, <2>1, <3>2, NextRepo DEF Reach, Due
  <2> QED BY <2>1, <2>2
<1>4. FirstPage'
  BY <1>1, <1>2 DEF Reach, FirstPage
<1> QED BY <1>1, <1>3, <1>4, ReachWork

LEMMA ReachListPullRequests == IInv /\ Reach /\ ListPullRequests => Reach'
<1> SUFFICES ASSUME IInv, Reach, ListPullRequests PROVE Reach'
  OBVIOUS
<1> DEFINE r == Head(repos)
<1>1. /\ TypeOK /\ pc = "page" /\ repos # <<>> /\ r # Malformed
      /\ UNCHANGED <<args, inst, open, sent>>
  BY DEF ListPullRequests, IInv, github
<1>2. CASE /\ pc' = "events" /\ batch' = Page(open[r], page)
           /\ more' = (page * PageSize < Len(open[r]))
           /\ UNCHANGED <<repos, page, firstErr, failed>>
  <2>1. ASSUME NEW p \in PRs, Due(p)' PROVE Due(p) /\ (InWork(p) => InWork(p)')
    <3>1. Due(p)
      BY <1>1, <1>2, <2>1 DEF Due
    <3>2. CASE \E j \in 2..Len(repos) : repos[j] = repoOf[p]
      <4>1. \E j \in 2..Len(repos') : repos'[j] = repoOf[p]
        BY <1>2, <3>2
      <4> QED BY <1>2, <3>1, <4>1 DEF InWork
    <3>3. ASSUME r = repoOf[p], Beyond(p, page - 1) PROVE InWork(p)'
      <4>1. PICK i \in DOMAIN open[r] : open[r][i] = p /\ i > (page - 1) * PageSize
        BY <3>3 DEF Beyond
      <4>2. r \in Repos
        BY <3>3, DispatchAssumption
      <4>3. open[r] \in Seq(PRs) /\ page \in Nat \ {0} /\ i \in 1..Len(open[r]) /\ PageSize \in Nat
        <5>1. open \in [Repos -> Seq(PRs)] /\ page \in Nat \ {0} /\ PageSize \in Nat
          BY <1>1, DispatchAssumption DEF TypeOK
        <5> HIDE DEF r
        <5>2. open[r] \in Seq(PRs)
          BY <4>2, <5>1
        <5> QED BY <4>1, <5>1, <5>2
      <4>4. (page - 1) * PageSize \in Nat /\ page * PageSize \in Nat
        BY <4>3
      <4>5. CASE i <= page * PageSize
        <5>1. (page - 1) * PageSize < i
          BY <4>1, <4>3, <4>4
        <5>2. p \in ToSet(batch')
          BY <1>2, <4>1, <4>3, <4>5, <5>1, OnPage
        <5> QED BY <1>1, <1>2, <3>3, <5>2 DEF InWork
      <4>6. CASE ~ (i <= page * PageSize)
        <5>1. i > page * PageSize /\ page * PageSize < Len(open[r])
          BY <4>3, <4>4, <4>6
        <5>2. Beyond(p, page)'
          BY <1>1, <1>2, <3>3, <4>1, <5>1 DEF Beyond
        <5> QED BY <1>1, <1>2, <3>3, <5>1, <5>2 DEF InWork
      <4> QED BY <4>5, <4>6
    <3> QED BY <1>1, <3>1, <3>2, <3>3 DEF InWork
  <2>2. FirstPage'
    BY <1>1, <1>2 DEF Reach, FirstPage
  <2> QED BY <1>1, <1>2, <2>1, <2>2, ReachWork
<1>3. CASE /\ repos' = Tail(repos) /\ page' = 1 /\ firstErr' = TRUE /\ failed' = failed \cup {r}
           /\ UNCHANGED <<pc, batch, more>>
  <2>1. ASSUME NEW p \in PRs, Due(p)' PROVE Due(p) /\ (InWork(p) => InWork(p)')
    <3>1. Due(p) /\ repoOf[p] # r
      BY <1>1, <1>3, <2>1 DEF Due
    <3>2. ASSUME InWork(p) PROVE InWork(p)'
      <4>1. PICK j \in 2..Len(repos) : repos[j] = repoOf[p]
        BY <3>1, <3>2 DEF InWork
      <4> QED BY <1>1, <1>3, <3>1, <4>1, NextRepo DEF Reach, Due
    <3> QED BY <3>1, <3>2
  <2>2. FirstPage'
    BY <1>1, <1>3 DEF Reach, FirstPage
  <2> QED BY <1>1, <1>3, <2>1, <2>2, ReachWork
<1> QED BY <1>2, <1>3 DEF ListPullRequests

LEMMA ReachSendEvent == IInv /\ Reach /\ SendEvent => Reach'
<1> SUFFICES ASSUME IInv, Reach, SendEvent PROVE Reach'
  OBVIOUS
<1>1. /\ TypeOK /\ pc = "events" /\ pc' = "events" /\ batch # <<>> /\ batch' = Tail(batch)
      /\ UNCHANGED <<args, inst, repos, page, more, open>>
      /\ batch \in Seq(PRs) /\ sent \in [PRs -> Nat]
  BY DEF SendEvent, IInv, TypeOK, github
<1>2. Head(batch) \in PRs
  BY <1>1
<1>3. /\ failed \subseteq failed'
      /\ \A p \in PRs : sent'[p] = 0 => sent[p] = 0
      /\ args.dry \/ sent'[Head(batch)] # 0 \/ Head(batch) \in failed'
  BY <1>1, <1>2 DEF SendEvent
<1>4. ASSUME NEW p \in PRs, Due(p)' PROVE Due(p) /\ (InWork(p) => InWork(p)')
  <2>1. Due(p)
    BY <1>1, <1>3, <1>4 DEF Due
  <2>2. p # Head(batch)
    BY <1>1, <1>3, <1>4 DEF Due
  <2>3. p \in ToSet(batch) => p \in ToSet(batch')
    <3> SUFFICES ASSUME p \in ToSet(batch) PROVE p \in ToSet(Tail(batch))
      BY <1>1
    <3>1. PICK i \in DOMAIN batch : batch[i] = p
      BY DEF ToSet
    <3>2. i - 1 \in DOMAIN Tail(batch) /\ Tail(batch)[i - 1] = p
      <4>1. i # 1
        BY <1>1, <2>2, <3>1
      <4> QED BY <1>1, <3>1, <4>1
    <3> QED BY <3>2 DEF ToSet
  <2>4. Beyond(p, page) => Beyond(p, page)'
    BY <1>1 DEF Beyond
  <2> QED BY <1>1, <2>1, <2>3, <2>4 DEF InWork
<1>5. FirstPage'
  BY <1>1 DEF Reach, FirstPage
<1> QED BY <1>1, <1>3, <1>4, <1>5, ReachWork

LEMMA ReachNextPage == IInv /\ Reach /\ NextPage => Reach'
<1> SUFFICES ASSUME IInv, Reach, NextPage PROVE Reach'
  OBVIOUS
<1>1. /\ TypeOK /\ pc = "events" /\ pc' = "page" /\ batch = <<>> /\ repos # <<>>
      /\ Head(repos) \in Repos /\ page \in Nat
      /\ UNCHANGED <<args, inst, batch, more, open, sent, failed>>
  BY DEF NextPage, IInv, ScopeInv, TypeOK, github
<1>2. ASSUME NEW p \in PRs, Due(p)' PROVE Due(p)
  BY <1>1, <1>2 DEF Due
<1>3. \A p \in PRs : p \notin ToSet(batch)
  BY <1>1 DEF ToSet
<1>4. CASE more /\ page' = page + 1 /\ UNCHANGED repos
  <2>1. ASSUME NEW p \in PRs, InWork(p) PROVE InWork(p)'
    <3>1. Beyond(p, page) => Beyond(p, page - 1)'
      <4>1. page' - 1 = page
        BY <1>1, <1>4
      <4> QED BY <1>1, <4>1 DEF Beyond
    <3> QED BY <1>1, <1>3, <1>4, <2>1, <3>1 DEF InWork
  <2>2. FirstPage'
    <3>1. Head(repos) # Malformed
      BY <1>1, DispatchAssumption
    <3> QED BY <1>1, <1>4, <3>1 DEF Reach, FirstPage
  <2> QED BY <1>1, <1>2, <2>1, <2>2, ReachWork
<1>5. CASE ~ more /\ repos' = Tail(repos) /\ page' = 1
  <2>1. ASSUME NEW p \in PRs, Due(p), InWork(p) PROVE InWork(p)'
    <3>1. PICK j \in 2..Len(repos) : repos[j] = repoOf[p]
      BY <1>1, <1>3, <1>5, <2>1 DEF InWork
    <3> QED BY <1>1, <1>5, <2>1, <3>1, NextRepo DEF Reach, Due
  <2>2. FirstPage'
    BY <1>1, <1>5 DEF Reach, FirstPage
  <2> QED BY <1>1, <1>2, <2>1, <2>2, ReachWork
<1> QED BY <1>4, <1>5 DEF NextPage

\* dispatchForRepos returns when its work leads to nobody any more.
LEMMA ReachReturn == IInv /\ Reach /\ Return => Reach'
<1> SUFFICES ASSUME IInv, Reach, Return PROVE Reach'
  OBVIOUS
<1>1. /\ pc = "page" /\ repos = <<>> /\ inst \in Nat
      /\ UNCHANGED <<args, open, sent, failed>>
      /\ (args.app /\ pc' = "installation" /\ inst' = inst + 1) \/ (~ args.app /\ pc' = "done")
  BY DEF Return, Exit, IInv, TypeOK, github
<1>2. \A p \in PRs : ~ InWork(p)
  BY <1>1 DEF InWork
<1>3. ASSUME NEW p \in PRs, Due(p)'
      PROVE  /\ ~ (~ args'.app /\ Listed(repoOf[p])')
             /\ args'.app => \A i \in DOMAIN Installations : Shows(i, p)' => inst' <= i
  <2>1. Due(p)
    BY <1>1, <1>3 DEF Due
  <2>2. ~ (~ args'.app /\ Listed(repoOf[p])')
    BY <1>1, <1>2, <2>1 DEF Reach, ToCome, Listed
  <2>3. ASSUME args'.app, NEW i \in DOMAIN Installations, Shows(i, p)' PROVE inst' <= i
    <3>1. args.app /\ Shows(i, p)
      BY <1>1, <2>3 DEF Shows
    <3>2. inst < i
      BY <1>1, <1>2, <2>1, <3>1 DEF Reach, ToCome
    <3>3. i \in Nat
      BY DispatchAssumption
    <3> QED BY <1>1, <2>3, <3>2, <3>3
  <2> QED BY <2>2, <2>3
<1>4. ToCome'
  BY <1>1, <1>3 DEF ToCome
<1>5. FirstPage'
  BY <1>1 DEF Reach, FirstPage
<1> QED BY <1>4, <1>5 DEF Reach

\* A new pull request moves all others back by one place.
LEMMA ReachOpened ==
  ASSUME IInv, Once, Reach, NEW q \in PRs, Opened(q)
  PROVE  Reach'
<1> DEFINE r == repoOf[q]
           l == <<q>> \o open[r]
<1>1. /\ UNCHANGED <<args, pc, inst, repos, page, batch, more, sent, failed>>
      /\ open' = [open EXCEPT ![r] = l] /\ open \in [Repos -> Seq(PRs)]
  BY DEF Opened, cursor, IInv, TypeOK
<1>2. r \in Repos /\ \A p \in PRs : repoOf[p] \in Repos
  BY DispatchAssumption
<1>3. /\ l \in Seq(PRs) /\ \A i \in DOMAIN open[r] : i + 1 \in DOMAIN l /\ l[i + 1] = open[r][i]
      /\ \A i \in DOMAIN l : IF i = 1 THEN l[i] = q ELSE i - 1 \in DOMAIN open[r] /\ l[i] = open[r][i - 1]
  <2>1. open[r] \in Seq(PRs)
    BY <1>1, <1>2
  <2> QED BY <2>1, InFront
<1> HIDE DEF l
<1>4. ASSUME NEW p \in PRs, NEW i \in DOMAIN open[repoOf[p]]
      PROVE  \E j \in DOMAIN open'[repoOf[p]] :
               j >= i /\ open'[repoOf[p]][j] = open[repoOf[p]][i]
  <2>1. i \in Nat
    BY <1>1, <1>2
  <2>2. CASE repoOf[p] = r
    BY <1>1, <1>2, <1>3, <2>1, <2>2
  <2>3. CASE repoOf[p] # r
    BY <1>1, <1>2, <2>1, <2>3
  <2> QED BY <2>2, <2>3
<1>5. ASSUME NEW p \in PRs, NEW k \in Int, Beyond(p, k) PROVE Beyond(p, k)'
  <2>1. PICK i \in DOMAIN open[repoOf[p]] : open[repoOf[p]][i] = p /\ i > k * PageSize
    BY <1>5 DEF Beyond
  <2>2. PICK j \in DOMAIN open'[repoOf[p]] : j >= i /\ open'[repoOf[p]][j] = p
    BY <1>4, <2>1
  <2>3. i \in Nat /\ j \in Nat
    <3>1. open'[repoOf[p]] \in Seq(PRs) /\ open[repoOf[p]] \in Seq(PRs)
      BY <1>1, <1>2, <1>3
    <3> QED BY <3>1
  <2>4. k * PageSize \in Int
    BY DispatchAssumption
  <2>5. j > k * PageSize
    BY <2>1, <2>2, <2>3, <2>4
  <2> QED BY <2>2, <2>5 DEF Beyond
<1>6. ASSUME NEW p \in PRs, InWork(p) PROVE InWork(p)'
  <2>1. page \in Int /\ page - 1 \in Int
    BY DEF IInv, TypeOK
  <2>2. Beyond(p, page) => Beyond(p, page)'
    <3>1. ASSUME NEW k \in Int, k = page, Beyond(p, k) PROVE Beyond(p, page)'
      BY <1>1, <1>5, <3>1 DEF Beyond
    <3> QED BY <2>1, <3>1
  <2>3. Beyond(p, page - 1) => Beyond(p, page - 1)'
    <3>1. ASSUME NEW k \in Int, k = page - 1, Beyond(p, k) PROVE Beyond(p, page - 1)'
      BY <1>1, <1>5, <3>1 DEF Beyond
    <3> QED BY <2>1, <3>1
  <2> QED BY <1>1, <1>6, <2>2, <2>3 DEF InWork
<1>7. ASSUME NEW p \in PRs, Due(p)' PROVE Due(p)
  <2>1. p # q
    BY <1>7 DEF Due, Once, Opened
  <2>2. p \in ToSet(open'[repoOf[p]]) => p \in ToSet(open[repoOf[p]])
    <3>1. CASE repoOf[p] = r
      <4> SUFFICES ASSUME NEW i \in DOMAIN l, l[i] = p PROVE p \in ToSet(open[r])
        BY <1>1, <1>2, <3>1 DEF ToSet
      <4>1. i - 1 \in DOMAIN open[r] /\ open[r][i - 1] = p
        BY <1>3, <2>1
      <4> QED BY <4>1 DEF ToSet
    <3>2. CASE repoOf[p] # r
      BY <1>1, <1>2, <3>2
    <3> QED BY <3>1, <3>2
  <2> QED BY <1>1, <1>7, <2>2 DEF Due
<1>8. ToCome'
  BY <1>1, <1>6, <1>7 DEF Reach, ToCome, Listed, Shows
<1>9. FirstPage'
  BY <1>1 DEF Reach, FirstPage
<1> QED BY <1>8, <1>9 DEF Reach

\* Where pull requests are closed, there is one page.
OnePage == \A r \in MayClose : Len(open[r]) <= PageSize

\* One that is closed on the only page takes no other one out of sight.
LEMMA ReachClosed ==
  ASSUME IInv, Reach, OnePage, NEW r \in Repos, Closed(r)
  PROVE  Reach'
<1>1. PICK i \in DOMAIN open[r] : open' = [open EXCEPT ![r] = RemoveAt(@, i)]
  BY DEF Closed
<1> DEFINE l == RemoveAt(open[r], i)
<1>2. /\ UNCHANGED <<args, pc, inst, repos, page, batch, more, sent, failed>>
      /\ open' = [open EXCEPT ![r] = l] /\ open \in [Repos -> Seq(PRs)] /\ open[r] \in Seq(PRs)
      /\ page \in Nat \ {0} /\ PageSize \in Nat \ {0} /\ Len(open[r]) <= PageSize
  BY <1>1, DispatchAssumption DEF Closed, cursor, IInv, TypeOK, OnePage
<1>3. /\ l \in Seq(PRs)
      /\ \A j \in DOMAIN l : \E k \in DOMAIN open[r] : l[j] = open[r][k]
  <2>1. /\ l \in Seq(PRs)
        /\ \A j \in DOMAIN l : /\ (IF j < i THEN j ELSE j + 1) \in DOMAIN open[r]
                               /\ l[j] = open[r][IF j < i THEN j ELSE j + 1]
    BY <1>2, RemoveAtOfSeq
  <2> HIDE DEF l
  <2> QED BY <2>1
<1> HIDE DEF l
<1>4. ASSUME NEW p \in PRs, Due(p)' PROVE Due(p)
  <2>1. p \in ToSet(open'[repoOf[p]]) => p \in ToSet(open[repoOf[p]])
    <3>0. repoOf[p] \in Repos
      BY DispatchAssumption
    <3>1. CASE repoOf[p] = r
      BY <1>2, <1>3, <3>0, <3>1 DEF ToSet
    <3>2. CASE repoOf[p] # r
      BY <1>2, <3>0, <3>2
    <3> QED BY <3>1, <3>2
  <2> QED BY <1>2, <1>4, <2>1 DEF Due
<1>5. ASSUME NEW p \in PRs, Due(p)', InWork(p) PROVE InWork(p)'
  <2>0. repoOf[p] \in Repos
    BY DispatchAssumption
  <2>1. CASE repoOf[p] # r
    <3>1. open'[repoOf[p]] = open[repoOf[p]]
      BY <1>2, <2>0, <2>1
    <3> QED BY <1>2, <1>5, <3>1 DEF InWork, Beyond
  <2>2. CASE repoOf[p] = r
    <3>1. ~ Beyond(p, page)
      <4> DEFINE b == page * PageSize
      <4> SUFFICES ASSUME NEW j \in DOMAIN open[r], j > b PROVE FALSE
        BY <2>2 DEF Beyond
      <4>1. j \in Nat /\ j <= PageSize
        BY <1>2
      <4>2. b \in Nat /\ b >= PageSize
        BY <1>2
      <4> HIDE DEF b
      <4> QED BY <1>2, <4>1, <4>2
    <3>2. ASSUME Beyond(p, page - 1) PROVE Beyond(p, page - 1)'
      <4>1. PICK j \in DOMAIN open[r] : j > (page - 1) * PageSize
        BY <2>2, <3>2 DEF Beyond
      <4>2. page = 1
        <5> DEFINE b == (page - 1) * PageSize
        <5>1. j \in Nat /\ j <= PageSize
          BY <1>2
        <5>2. b \in Nat /\ (page # 1 => b >= PageSize)
          BY <1>2
        <5>3. j > b
          BY <4>1
        <5> HIDE DEF b
        <5> QED BY <1>2, <5>1, <5>2, <5>3
      <4>3. PICK k \in DOMAIN open'[repoOf[p]] : open'[repoOf[p]][k] = p
        BY <1>5 DEF Due, ToSet
      <4>4. k > (page' - 1) * PageSize
        <5>1. open'[repoOf[p]] \in Seq(PRs)
          BY <1>2, <1>3, <2>2
        <5>2. k \in Nat \ {0}
          BY <5>1
        <5> QED BY <1>2, <4>2, <5>2
      <4> QED BY <4>3, <4>4 DEF Beyond
    <3> QED BY <1>2, <1>5, <3>1, <3>2 DEF InWork
  <2> QED BY <2>1, <2>2
<1>6. ToCome'
  BY <1>2, <1>4, <1>5 DEF Reach, ToCome, Listed, Shows
<1>7. FirstPage'
  BY <1>2 DEF Reach, FirstPage
<1> QED BY <1>6, <1>7 DEF Reach

LEMMA ReachStep == IInv /\ Once /\ OnePage /\ Reach /\ [Next]_vars => Reach'
<1> SUFFICES ASSUME IInv, Once, OnePage, Reach, [Next]_vars PROVE Reach'
  OBVIOUS
<1>1. CASE Command
  BY <1>1, ReachRun, ReachListDuneBotRepositories, ReachListAllInstallations, ReachInstallation,
     ReachFinishApp, ReachSkipMalformed, ReachListPullRequests, ReachSendEvent, ReachNextPage,
     ReachReturn DEF Command
<1>2. CASE \E q \in PRs : Opened(q)
  BY <1>2, ReachOpened
<1>3. CASE \E r \in Repos : Closed(r)
  BY <1>3, ReachClosed
<1>4. CASE UNCHANGED vars
  BY <1>4 DEF vars, cursor, github, Reach, ToCome, Due, Listed, Shows, InWork, Beyond, FirstPage
<1> QED BY <1>1, <1>2, <1>3, <1>4 DEF Next

-----------------------------------------------------------------------------
(* Every step of the command brings its end nearer                            *)

\* What is left of it: turns of the loop over the installations, counted twice,
\* for they begin and end; repositories; pages; events of the page at hand.
TurnsLeft ==
  CASE pc = "start"        -> 2 * Len(Installations) + 3
    [] pc = "installation" -> 2 * (Len(Installations) + 1 - inst) + 1
    [] pc = "done"         -> 0
    [] OTHER               -> IF args.app THEN 2 * (Len(Installations) + 1 - inst) ELSE 1

ReposLeft == IF pc \in {"page", "events"} THEN Len(repos) ELSE 0

\* What the list at hand has, and may still get, after page k.
After(k) ==
  LET rows == IF repos # <<>> /\ Head(repos) \in Repos THEN Len(open[Head(repos)]) ELSE 0
      rest == rows + Cardinality(unopened) - k * PageSize
  IN IF rest > 0 THEN rest ELSE 0

PagesLeft ==
  CASE pc = "page"   -> 2 * After(page - 1) + 1
    [] pc = "events" -> 2 * After(page) + (IF more THEN 2 ELSE 0)
    [] OTHER         -> 0

EventsLeft == IF pc = "events" THEN Len(batch) ELSE 0

\* The four in the order in which they count.
Nearer ==
  \/ TurnsLeft' < TurnsLeft
  \/ TurnsLeft' = TurnsLeft /\ ReposLeft' < ReposLeft
  \/ TurnsLeft' = TurnsLeft /\ ReposLeft' = ReposLeft /\ PagesLeft' < PagesLeft
  \/ /\ TurnsLeft' = TurnsLeft /\ ReposLeft' = ReposLeft /\ PagesLeft' = PagesLeft
     /\ EventsLeft' < EventsLeft

NoFurther == UNCHANGED <<TurnsLeft, ReposLeft, EventsLeft>> /\ PagesLeft' <= PagesLeft

InstallationAtHand == pc = "installation" => inst <= Len(Installations) + 1

LeftIsNumber ==
  TurnsLeft \in Nat /\ ReposLeft \in Nat /\ PagesLeft \in Nat /\ EventsLeft \in Nat

LEMMA AfterTyped ==
  ASSUME TypeOK, IsFiniteSet(PRs), NEW k \in Nat
  PROVE  After(k) \in Nat
<1>1. Cardinality(unopened) \in Nat
  BY FS_Subset, FS_CardinalityType DEF TypeOK
<1>2. k * PageSize \in Nat
  BY DispatchAssumption
<1>3. repos # <<>> /\ Head(repos) \in Repos => Len(open[Head(repos)]) \in Nat
  <2> SUFFICES ASSUME NEW r \in Repos, r = Head(repos) PROVE Len(open[r]) \in Nat
    OBVIOUS
  <2>1. open[r] \in Seq(PRs)
    BY DEF TypeOK
  <2> QED BY <2>1
<1> QED BY <1>1, <1>2, <1>3 DEF After

LEMMA LeftTyped ==
  ASSUME TypeOK, Once, InstallationAtHand, IsFiniteSet(PRs)
  PROVE  LeftIsNumber
<1>1. Len(Installations) \in Nat /\ DOMAIN Installations = 1..Len(Installations)
  BY DispatchAssumption
<1>2. TurnsLeft \in Nat
  <2>1. CASE pc = "installation"
    BY <1>1, <2>1 DEF TurnsLeft, InstallationAtHand, TypeOK
  <2>2. CASE pc \in {"page", "events"} /\ args.app
    <3>1. inst \in 1..Len(Installations)
      BY <1>1, <2>2 DEF Once
    <3> QED BY <1>1, <2>2, <3>1 DEF TurnsLeft
  <2>3. CASE pc \in {"page", "events"} /\ ~ args.app
    BY <2>3 DEF TurnsLeft
  <2>4. CASE pc \in {"start", "done"}
    BY <1>1, <2>4 DEF TurnsLeft
  <2> QED BY <2>1, <2>2, <2>3, <2>4 DEF TypeOK
<1>3. ReposLeft \in Nat
  BY DEF ReposLeft, TypeOK
<1>4. EventsLeft \in Nat
  BY DEF EventsLeft, TypeOK
<1>5. PagesLeft \in Nat
  <2>1. page \in Nat /\ page - 1 \in Nat
    BY DEF TypeOK
  <2>2. After(page) \in Nat /\ After(page - 1) \in Nat
    BY <2>1, AfterTyped
  <2> QED BY <2>2 DEF PagesLeft
<1> QED BY <1>2, <1>3, <1>4, <1>5 DEF LeftIsNumber

\* The loop over the installations ends one after the last of them.
LEMMA AtHandStep ==
  ASSUME IInv, Once, InstallationAtHand, [Next]_vars
  PROVE  InstallationAtHand'
<1>1. Len(Installations) \in Nat /\ DOMAIN Installations = 1..Len(Installations)
  BY DispatchAssumption
<1>2. inst \in Nat
  BY DEF IInv, TypeOK
<1>3. CASE ListAllInstallations
  BY <1>1, <1>3 DEF ListAllInstallations, InstallationAtHand, Exit
<1>4. CASE Installation
  <2>1. inst <= Len(Installations) /\ (inst' = inst + 1 \/ pc' = "page")
    BY <1>4 DEF Installation, Begin
  <2> QED BY <1>1, <1>2, <2>1 DEF InstallationAtHand
<1>5. CASE Return
  <2>1. CASE args.app /\ inst' = inst + 1
    <3>1. inst \in 1..Len(Installations)
      BY <1>1, <1>5, <2>1 DEF Return, Once
    <3> QED BY <1>1, <2>1, <3>1 DEF InstallationAtHand
  <2>2. CASE pc' = "done"
    BY <2>2 DEF InstallationAtHand
  <2> QED BY <1>5, <2>1, <2>2 DEF Return, Exit
<1>6. CASE Run \/ ListDuneBotRepositories
  BY <1>6 DEF Run, ListDuneBotRepositories, DuneBotRepositoriesHandler, Begin, Exit, InstallationAtHand
<1>7. CASE FinishApp \/ SkipMalformed \/ ListPullRequests \/ SendEvent \/ NextPage
  BY <1>7 DEF FinishApp, SkipMalformed, ListPullRequests, SendEvent, NextPage, Exit, InstallationAtHand
<1>8. CASE (\E p \in PRs : Opened(p)) \/ (\E r \in Repos : Closed(r))
  BY <1>8 DEF Opened, Closed, cursor, InstallationAtHand
<1>9. CASE UNCHANGED vars
  BY <1>9 DEF vars, cursor, InstallationAtHand
<1> QED BY <1>3, <1>4, <1>5, <1>6, <1>7, <1>8, <1>9 DEF Next, Command

\* A turn begins or ends.
LEMMA TurnsNearer ==
  ASSUME IInv, Once, InstallationAtHand,
         Run \/ ListDuneBotRepositories \/ ListAllInstallations \/ Installation \/ FinishApp \/ Return
  PROVE  TurnsLeft' < TurnsLeft
<1> DEFINE n == Len(Installations)
<1>1. n \in Nat /\ DOMAIN Installations = 1..n /\ inst \in Nat
  BY DispatchAssumption DEF IInv, TypeOK
<1> HIDE DEF n
<1>2. CASE Run \/ ListDuneBotRepositories
  <2>1. pc = "start" /\ ~ args.app /\ args' = args /\ pc' \in {"page", "done"}
    BY <1>2 DEF Run, ListDuneBotRepositories, DuneBotRepositoriesHandler, Begin, Exit
  <2> QED BY <1>1, <2>1 DEF TurnsLeft, n
<1>3. CASE ListAllInstallations
  <2>1. pc = "start" /\ ((pc' = "installation" /\ inst' = 1) \/ pc' = "done")
    BY <1>3 DEF ListAllInstallations, Exit
  <2> QED BY <1>1, <2>1 DEF TurnsLeft, n
<1>4. CASE Installation
  <2>1. /\ pc = "installation" /\ args.app /\ args' = args /\ inst <= n
        /\ ((pc' = "installation" /\ inst' = inst + 1) \/ (pc' = "page" /\ inst' = inst))
    BY <1>4 DEF Installation, Begin, IInv, ErrorInv, n
  <2> QED BY <1>1, <2>1 DEF TurnsLeft, n
<1>5. CASE FinishApp
  <2>1. pc = "installation" /\ pc' = "done" /\ inst <= n + 1
    BY <1>5 DEF FinishApp, Exit, InstallationAtHand, n
  <2> QED BY <1>1, <2>1 DEF TurnsLeft, n
<1>6. CASE Return
  <2>1. pc = "page" /\ args' = args
        /\ ((args.app /\ pc' = "installation" /\ inst' = inst + 1) \/ (~ args.app /\ pc' = "done"))
    BY <1>6 DEF Return, Exit
  <2>2. CASE args.app /\ pc' = "installation" /\ inst' = inst + 1
    <3>1. TurnsLeft = 2 * (n + 1 - inst) /\ TurnsLeft' = 2 * (n + 1 - (inst + 1)) + 1
      BY <2>1, <2>2 DEF TurnsLeft, n
    <3> QED BY <1>1, <3>1
  <2>3. CASE ~ args.app /\ pc' = "done"
    BY <2>1, <2>3 DEF TurnsLeft
  <2> QED BY <2>1, <2>2, <2>3
<1> QED BY <1>2, <1>3, <1>4, <1>5, <1>6

LEMMA SameTurn ==
  ASSUME pc \in {"page", "events"}, pc' \in {"page", "events"}, UNCHANGED <<args, inst>>
  PROVE  TurnsLeft' = TurnsLeft
  BY DEF TurnsLeft

\* A repository is done.
LEMMA ReposNearer ==
  ASSUME TypeOK, pc \in {"page", "events"}, pc' = "page", repos # <<>>, repos' = Tail(repos),
         UNCHANGED <<args, inst>>
  PROVE  Nearer
<1>1. ReposLeft' < ReposLeft
  <2>1. repos \in Seq(Repos \cup {Malformed}) /\ Len(Tail(repos)) = Len(repos) - 1 /\ Len(repos) \in Nat
    BY DEF TypeOK
  <2> QED BY <2>1 DEF ReposLeft
<1> QED BY <1>1, SameTurn DEF Nearer

\* A page is fetched: the list past it is shorter by a page, if there is more.
LEMMA FetchNearer ==
  ASSUME IInv, IsFiniteSet(PRs), pc = "page", pc' = "events", repos # <<>>, Head(repos) \in Repos,
         more' = (page * PageSize < Len(open[Head(repos)])),
         UNCHANGED <<args, inst, repos, page, open, unopened>>
  PROVE  Nearer
<1> DEFINE u == Cardinality(unopened)
           m == Len(open[Head(repos)])
           a == (page - 1) * PageSize
           b == page * PageSize
<1>1. u \in Nat /\ m \in Nat
  <2>1. u \in Nat
    BY FS_Subset, FS_CardinalityType DEF IInv, TypeOK
  <2>2. ASSUME NEW r \in Repos PROVE Len(open[r]) \in Nat
    <3>1. open[r] \in Seq(PRs)
      BY DEF IInv, TypeOK
    <3> QED BY <3>1
  <2> QED BY <2>1, <2>2
<1>2. a \in Nat /\ b \in Nat /\ PageSize \in Nat \ {0} /\ b = a + PageSize
  BY DispatchAssumption DEF IInv, TypeOK
<1>3. After(page - 1) = IF m + u - a > 0 THEN m + u - a ELSE 0
  BY DEF After
<1>4. After(page)' = IF m + u - b > 0 THEN m + u - b ELSE 0
  BY DEF After
<1>5. more' = (b < m)
  OBVIOUS
<1>6. PagesLeft = 2 * After(page - 1) + 1 /\ PagesLeft' = 2 * After(page)' + (IF more' THEN 2 ELSE 0)
  BY DEF PagesLeft
<1> HIDE DEF u, m, a, b
<1>7. PagesLeft' < PagesLeft
  <2> DEFINE x == After(page - 1)
             y == After(page)'
  <2>1. x \in Nat /\ y \in Nat /\ y <= x /\ (b < m => y < x)
    BY <1>1, <1>2, <1>3, <1>4
  <2>2. PagesLeft = 2 * x + 1 /\ PagesLeft' = 2 * y + (IF b < m THEN 2 ELSE 0)
    BY <1>5, <1>6
  <2> HIDE DEF x, y
  <2> QED BY <1>1, <1>2, <2>1, <2>2
<1>8. ReposLeft' = ReposLeft
  BY DEF ReposLeft
<1> QED BY <1>7, <1>8, SameTurn DEF Nearer

\* The events of a page are sent, and there is another.
LEMMA PageNearer ==
  ASSUME TypeOK, IsFiniteSet(PRs), pc = "events", pc' = "page", more, page' = page + 1,
         UNCHANGED <<args, inst, repos, open, unopened>>
  PROVE  Nearer
<1>1. page \in Nat /\ page' - 1 = page
  BY DEF TypeOK
<1>2. After(page - 1)' = After(page)
  BY <1>1 DEF After
<1>3. After(page) \in Nat
  BY <1>1, AfterTyped
<1>4. PagesLeft' < PagesLeft
  BY <1>2, <1>3 DEF PagesLeft
<1>5. ReposLeft' = ReposLeft
  BY DEF ReposLeft
<1> QED BY <1>4, <1>5, SameTurn DEF Nearer

LEMMA EventNearer == IInv /\ SendEvent => Nearer
<1> SUFFICES ASSUME IInv, SendEvent PROVE Nearer
  OBVIOUS
<1>1. /\ pc = "events" /\ pc' = "events" /\ batch # <<>> /\ batch' = Tail(batch) /\ batch \in Seq(PRs)
      /\ UNCHANGED <<args, inst, repos, page, more, open, unopened>>
  BY DEF SendEvent, IInv, TypeOK, github
<1>2. Len(Tail(batch)) < Len(batch)
  BY <1>1
<1>3. EventsLeft' < EventsLeft
  BY <1>1, <1>2 DEF EventsLeft
<1>4. ReposLeft' = ReposLeft /\ PagesLeft' = PagesLeft
  BY <1>1 DEF ReposLeft, PagesLeft, After
<1> QED BY <1>1, <1>3, <1>4, SameTurn DEF Nearer

LEMMA CommandNearer ==
  ASSUME IInv, Once, InstallationAtHand, IsFiniteSet(PRs), Command
  PROVE  Nearer
<1>1. CASE Run \/ ListDuneBotRepositories \/ ListAllInstallations \/ Installation \/ FinishApp \/ Return
  BY <1>1, TurnsNearer DEF Nearer
<1>2. CASE SkipMalformed
  BY <1>2, ReposNearer DEF SkipMalformed, IInv
<1>3. CASE ListPullRequests
  <2>1. CASE repos' = Tail(repos) /\ UNCHANGED pc
    BY <1>3, <2>1, ReposNearer DEF ListPullRequests, IInv
  <2>2. CASE /\ pc' = "events" /\ more' = (page * PageSize < Len(open[Head(repos)]))
             /\ UNCHANGED <<repos, page>>
    <3>1. pc = "page" /\ repos # <<>> /\ UNCHANGED <<args, inst, open, unopened>>
      BY <1>3 DEF ListPullRequests, github
    <3>2. Head(repos) \in Repos
      BY <1>3, <3>1 DEF ListPullRequests, IInv, TypeOK
    <3> QED BY <2>2, <3>1, <3>2, FetchNearer
  <2> QED BY <1>3, <2>1, <2>2 DEF ListPullRequests
<1>4. CASE SendEvent
  BY <1>4, EventNearer
<1>5. CASE NextPage
  <2>1. /\ pc = "events" /\ pc' = "page" /\ repos # <<>> /\ TypeOK
        /\ UNCHANGED <<args, inst, open, unopened>>
    BY <1>5 DEF NextPage, IInv, ScopeInv, github
  <2>2. CASE more /\ page' = page + 1 /\ UNCHANGED repos
    BY <2>1, <2>2, PageNearer
  <2>3. CASE repos' = Tail(repos)
    BY <2>1, <2>3, ReposNearer
  <2> QED BY <1>5, <2>2, <2>3 DEF NextPage
<1> QED BY <1>1, <1>2, <1>3, <1>4, <1>5 DEF Command

\* What GitHub does to the list at hand leaves no more of it than there could be.
LEMMA GithubNoFurther ==
  ASSUME IInv, IsFiniteSet(PRs), (\E p \in PRs : Opened(p)) \/ (\E r \in Repos : Closed(r))
  PROVE  NoFurther
<1>1. /\ UNCHANGED <<args, pc, inst, repos, page, batch, more>>
      /\ TypeOK /\ open \in [Repos -> Seq(PRs)] /\ IsFiniteSet(unopened)
  BY FS_Subset DEF Opened, Closed, cursor, IInv, TypeOK
<1>2. ASSUME NEW r \in Repos
      PROVE  /\ Len(open[r]) \in Nat /\ Len(open'[r]) \in Nat
             /\ Cardinality(unopened) \in Nat /\ Cardinality(unopened') \in Nat
             /\ Len(open'[r]) + Cardinality(unopened') <= Len(open[r]) + Cardinality(unopened)
             /\ Cardinality(unopened') <= Cardinality(unopened)
  <2>1. open[r] \in Seq(PRs) /\ Len(open[r]) \in Nat /\ Cardinality(unopened) \in Nat
    BY <1>1, FS_CardinalityType
  <2>2. ASSUME NEW p \in PRs, Opened(p)
        PROVE  /\ Cardinality(unopened') = Cardinality(unopened) - 1
               /\ Len(open'[r]) \in {Len(open[r]), Len(open[r]) + 1}
    <3>1. p \in unopened /\ unopened' = unopened \ {p} /\ open' = [open EXCEPT ![repoOf[p]] = <<p>> \o @]
      BY <2>2 DEF Opened
    <3>2. Cardinality(unopened') = Cardinality(unopened) - 1
      BY <1>1, <3>1, FS_RemoveElement
    <3>3. open'[r] = open[r] \/ open'[r] = <<p>> \o open[r]
      BY <1>1, <3>1
    <3>4. Len(<<p>> \o open[r]) = Len(open[r]) + 1
      BY <2>1
    <3> QED BY <3>2, <3>3, <3>4
  <2>3. ASSUME NEW x \in Repos, Closed(x)
        PROVE  unopened' = unopened /\ Len(open'[r]) \in {Len(open[r]), Len(open[r]) - 1} /\ Len(open'[r]) \in Nat
    <3>1. PICK i \in DOMAIN open[x] : open' = [open EXCEPT ![x] = RemoveAt(@, i)] /\ unopened' = unopened
      BY <2>3 DEF Closed
    <3>2. CASE x = r
      <4>1. open'[r] = RemoveAt(open[r], i) /\ i \in DOMAIN open[r]
        BY <1>1, <3>1, <3>2
      <4>2. Len(RemoveAt(open[r], i)) = Len(open[r]) - 1 /\ RemoveAt(open[r], i) \in Seq(PRs)
        BY <2>1, <4>1, RemoveAtOfSeq
      <4>3. Len(RemoveAt(open[r], i)) \in Nat
        BY <4>2
      <4> QED BY <3>1, <4>1, <4>2, <4>3
    <3>3. CASE x # r
      BY <1>1, <2>1, <3>1, <3>3
    <3> QED BY <3>2, <3>3
  <2>4. CASE \E p \in PRs : Opened(p)
    <3>1. Cardinality(unopened') \in Nat
      BY <1>1, <2>4, FS_Subset, FS_CardinalityType DEF Opened
    <3>2. PICK p \in PRs : Opened(p)
      BY <2>4
    <3>3. Cardinality(unopened') = Cardinality(unopened) - 1
      BY <2>2, <3>2
    <3>4. Len(open'[r]) \in {Len(open[r]), Len(open[r]) + 1}
      BY <2>2, <3>2
    <3> QED BY <2>1, <3>1, <3>3, <3>4
  <2>5. CASE \E x \in Repos : Closed(x)
    BY <2>1, <2>3, <2>5
  <2> QED BY <2>4, <2>5
<1>3. Cardinality(unopened) \in Nat /\ Cardinality(unopened') \in Nat
      /\ Cardinality(unopened') <= Cardinality(unopened)
  <2>1. Cardinality(unopened) \in Nat
    BY <1>1, FS_CardinalityType
  <2>2. ASSUME NEW p \in PRs, Opened(p) PROVE Cardinality(unopened') = Cardinality(unopened) - 1 /\ p \in unopened
    BY <1>1, <2>2, FS_RemoveElement DEF Opened
  <2>3. IsFiniteSet(unopened')
    BY <1>1, FS_Subset DEF Opened, Closed
  <2>4. Cardinality(unopened') \in Nat
    BY <2>3, FS_CardinalityType
  <2>5. unopened' = unopened \/ \E p \in PRs : Opened(p)
    BY DEF Closed
  <2> QED BY <2>1, <2>2, <2>4, <2>5
<1>4. ASSUME NEW k \in Nat PROVE After(k)' \in Nat /\ After(k)' <= After(k)
  <2>1. k * PageSize \in Nat
    BY DispatchAssumption
  <2>2. CASE repos # <<>> /\ Head(repos) \in Repos
    <3> DEFINE r == Head(repos)
               b == k * PageSize
               m == Len(open[r]) + Cardinality(unopened) - b
               n == Len(open'[r]) + Cardinality(unopened') - b
    <3>1. After(k) = (IF m > 0 THEN m ELSE 0) /\ After(k)' = (IF n > 0 THEN n ELSE 0)
      BY <1>1, <2>2 DEF After
    <3>2. m \in Int /\ n \in Int /\ n <= m
      <4>1. r \in Repos
        BY <2>2
      <4> HIDE DEF r
      <4> QED BY <1>2, <2>1, <4>1
    <3> HIDE DEF m, n
    <3> QED BY <3>1, <3>2
  <2>3. CASE ~ (repos # <<>> /\ Head(repos) \in Repos)
    <3> DEFINE b == k * PageSize
               m == 0 + Cardinality(unopened) - b
               n == 0 + Cardinality(unopened') - b
    <3>1. After(k) = (IF m > 0 THEN m ELSE 0) /\ After(k)' = (IF n > 0 THEN n ELSE 0)
      BY <1>1, <2>3 DEF After
    <3>2. m \in Int /\ n \in Int /\ n <= m
      BY <1>3, <2>1
    <3> HIDE DEF m, n
    <3> QED BY <3>1, <3>2
  <2> QED BY <2>2, <2>3
<1>5. page \in Nat /\ page - 1 \in Nat /\ page' = page
  BY <1>1 DEF TypeOK
<1>6. After(page) \in Nat /\ After(page - 1) \in Nat
  BY <1>1, <1>5, AfterTyped
<1>7. /\ After(page)' \in Nat /\ After(page)' <= After(page)
      /\ After(page - 1)' \in Nat /\ After(page - 1)' <= After(page - 1)
  <2>1. \A k \in Nat : After(k)' \in Nat /\ After(k)' <= After(k)
    BY <1>4
  <2> QED BY <1>5, <2>1
<1>8. UNCHANGED <<TurnsLeft, ReposLeft, EventsLeft>>
  BY <1>1 DEF TurnsLeft, ReposLeft, EventsLeft
<1>9. PagesLeft' <= PagesLeft
  <2>1. CASE pc = "page"
    <3>1. PagesLeft = 2 * After(page - 1) + 1 /\ PagesLeft' = 2 * After(page - 1)' + 1
      BY <1>1, <2>1 DEF PagesLeft
    <3> QED BY <1>6, <1>7, <3>1
  <2>2. CASE pc = "events"
    <3>1. /\ PagesLeft = 2 * After(page) + (IF more THEN 2 ELSE 0)
          /\ PagesLeft' = 2 * After(page)' + (IF more THEN 2 ELSE 0)
      BY <1>1, <2>2 DEF PagesLeft
    <3> QED BY <1>6, <1>7, <3>1
  <2>3. CASE pc \notin {"page", "events"}
    BY <1>1, <2>3 DEF PagesLeft
  <2> QED BY <2>1, <2>2, <2>3
<1> QED BY <1>8, <1>9 DEF NoFurther

-----------------------------------------------------------------------------
(* The theorems                                                               *)

\* The variables have their types for any lists and bounds.
THEOREM TypeCorrect == Spec => []TypeOK
<1>1. IInv => TypeOK
  BY DEF IInv
<1> QED BY <1>1, Invariance, PTL

\* Whatever GitHub lists and however it changes, events go only to pull
\* requests of the repositories and the installation that the flags name.
THEOREM OnlyAsked == Spec => []OnlyWhatWasAsked
<1>1. IInv => OnlyWhatWasAsked
  BY DEF IInv
<1> QED BY <1>1, Invariance, PTL

\* No failure is lost between the loop and the exit status of a run with a
\* token, and as an App only the failed listing is in the exit status.
THEOREM FailureTold == Spec => []ExitTellsFailure
<1>1. IInv => ExitTellsFailure
  BY DEF IInv
<1> QED BY <1>1, Invariance, PTL

\* As long as a repository whose pull requests are closed meanwhile has no more
\* of them than fit on a page, none that is open all the time is left out,
\* however many others are opened, on whatever pages, and whatever else fails:
\* a page that moves only brings it back later.
THEOREM NoneForgotten == Spec /\ []OnePage => []NobodyForgotten
<1>1. IInv /\ Reach => NobodyForgotten
  <2> SUFFICES ASSUME IInv, Reach, pc = "done", ~ args.dry, None \notin failed,
                      NEW p \in StillOpen, Listed(repoOf[p]), {p, repoOf[p]} \cap failed = {},
                      ~ (sent[p] > 0)
               PROVE  FALSE
    BY DEF NobodyForgotten
  <2>1. p \in PRs /\ sent[p] = 0
    BY DEF StillOpen, IInv, TypeOK
  <2>2. Due(p) /\ ~ InWork(p)
    BY <2>1 DEF Due, StillOpen, InWork
  <2>3. CASE ~ args.app
    BY <2>1, <2>2, <2>3 DEF Reach, ToCome
  <2>4. CASE args.app
    <3>1. PICK i \in DOMAIN Installations : Shows(i, p)
      BY <2>4 DEF Listed, Shows
    <3> QED BY <2>1, <2>2, <2>4, <3>1 DEF Reach, ToCome
  <2> QED BY <2>3, <2>4
<1> QED BY <1>1, Invariance, SparingInvariance, ReachInit, ReachStep, PTL DEF Spec, Sparing

\* However many pages there are and whatever is opened, merged or closed while
\* the command pages through them, a pull request gets more than one event only
\* for new ones of its repository that pushed it on, one more for each at most.
THEOREM RepeatsBounded == Spec => []RepeatsArePushedOn
<1>1. IInv /\ Sparing => RepeatsArePushedOn
  <2> SUFFICES ASSUME IInv, Sparing, NEW p \in PRs
               PROVE  sent[p] <= 1 + Cardinality(New(repoOf[p]))
    BY DEF RepeatsArePushedOn, New
  <2> DEFINE n == Cardinality(New(repoOf[p]))
  <2>1. n \in Nat /\ sent[p] \in Nat
    <3>1. repoOf[p] \in Repos
      BY DispatchAssumption
    <3> QED BY <3>1, FS_CardinalityType DEF Sparing, PushedOn, IInv, TypeOK
  <2>2. sent[p] + (IF Owed(p) THEN 1 ELSE 0) <= n + (IF Ahead(p) THEN 0 ELSE 1)
    BY DEF Sparing, PushedOn, Counted
  <2> HIDE DEF n
  <2> QED BY <2>1, <2>2 DEF n
<1> QED BY <1>1, Invariance, SparingInvariance, PTL

\* The argument behind Terminates: what is left of the command are four numbers,
\* every step of it lowers one that counts more than those it raises, failures
\* included, and what happens on GitHub meanwhile raises none of them, whatever
\* the lists, as long as there are finitely many pull requests to come.
THEOREM EndNearer ==
  ASSUME IsFiniteSet(PRs)
  PROVE  Spec => []LeftIsNumber /\ [][IF Command THEN Nearer ELSE NoFurther]_vars
<1>1. Init => InstallationAtHand
  BY DEF Init, InstallationAtHand
<1>2. IInv /\ Once /\ InstallationAtHand /\ [Next]_vars => InstallationAtHand'
  BY AtHandStep
<1>3. IInv /\ Once /\ InstallationAtHand => LeftIsNumber
  BY LeftTyped DEF IInv
<1>4. IInv /\ Once /\ InstallationAtHand /\ [Next]_vars
        => [IF Command THEN Nearer ELSE NoFurther]_vars
  BY CommandNearer, GithubNoFurther DEF Next
<1>5. Sparing => Once
  BY DEF Sparing
<1> QED BY <1>1, <1>2, <1>3, <1>4, <1>5, Invariance, SparingInvariance, PTL DEF Spec
=============================================================================
