--------------------------- MODULE ValidatorProofs ---------------------------
(* What holds of the verdicts for every section and every pull request.  The  *)
(* loop over the branches is proved by its invariant: the turns are counted,  *)
(* and a turn that breaks it would have a first one.                          *)
EXTENDS Validator, WellFoundedInduction, TLAPS

\* The variables have their types for any section and bounds.
THEOREM TypeCorrect == Spec => []TypeOK
<1>1. Init => TypeOK
  BY ValidatorAssumption DEF Init, TypeOK, PullRequests
<1>2. TypeOK /\ [Next]_vars => TypeOK'
  <2> SUFFICES ASSUME TypeOK, [Next]_vars PROVE TypeOK'
    OBVIOUS
  <2>1. CASE Label    BY <2>1 DEF TypeOK, Label, PullRequests
  <2>2. CASE Unlabel  BY <2>2 DEF TypeOK, Unlabel, PullRequests
  <2>3. CASE Comment  BY <2>3 DEF TypeOK, Comment, PullRequests
  <2>4. CASE Finish   BY <2>4 DEF TypeOK, Finish, PullRequests
  <2>5. CASE Push     BY <2>5 DEF TypeOK, Push, PullRequests
  <2>6. CASE GetOlder BY <2>6, ValidatorAssumption DEF TypeOK, GetOlder, PullRequests
  <2>7. CASE Rerun    BY <2>7 DEF TypeOK, Rerun, PullRequests
  <2>8. CASE UNCHANGED vars BY <2>8 DEF TypeOK, vars
  <2> QED BY <2>1, <2>2, <2>3, <2>4, <2>5, <2>6, <2>7, <2>8 DEF Next
<1> QED BY <1>1, <1>2, PTL DEF Spec

\* The single validators are monotone in what the pull request has.
LEMMA SingleValidatorsMonotone ==
  ASSUME NEW p \in PullRequests, NEW q \in PullRequests, Gains(p, q)
  PROVE  /\ \A authors : ForAuthors(p.author, authors) => ForAuthors(q.author, authors)
         /\ \A labels : ForLabels(p.labels, labels) => ForLabels(q.labels, labels)
         /\ \A wanted : ForComments(p.comments, wanted) => ForComments(q.comments, wanted)
         /\ \A required : ForRequiredStatuses(p.statuses, required)
                           => ForRequiredStatuses(q.statuses, required)
         /\ \A required \in 0..MaxAge \cup {None} : ForAge(p.age, required) => ForAge(q.age, required)
<1>1. q.author = p.author /\ p.labels \subseteq q.labels /\ p.comments \subseteq q.comments
      /\ p.statuses \subseteq q.statuses /\ p.age <= q.age
  BY DEF Gains
<1>2. p.age \in Nat /\ q.age \in Nat
  BY ValidatorAssumption DEF PullRequests
<1>3. \A required \in 0..MaxAge \cup {None} : ForAge(p.age, required) => ForAge(q.age, required)
  BY <1>1, <1>2, ValidatorAssumption DEF ForAge
<1> QED
  BY <1>1, <1>3 DEF ForAuthors, ForLabels, ForComments, ForRequiredStatuses

\* What a branch asks of the age is an age or nothing.
LEMMA AgeOfBranch == \A b \in Branches : b.age \in 0..MaxAge \cup {None}
  BY DEF Branches

\* Both verdicts of a section carry over to a pull request that only gained.
LEMMA AcceptedMonotone ==
  ASSUME NEW s, NEW p \in PullRequests, NEW q \in PullRequests,
         Gains(p, q), Accepted(s, p)
  PROVE  Accepted(s, q)
<1>1. ValidateConditions(s, q)
  <2>1. s # None /\ ForAuthors(p.author, s.authors) /\ ForLabels(p.labels, s.labels)
    BY DEF Accepted, ValidateConditions
  <2>2. PICK b \in MatchedBranchConfig(s.branches) \cap Branches :
          ForAuthors(p.author, b.authors) /\ ForLabels(p.labels, b.labels) /\ ForAge(p.age, b.age)
    BY DEF Accepted, ValidateConditions
  <2>3. b.age \in 0..MaxAge \cup {None}
    BY AgeOfBranch
  <2>4. ForAuthors(q.author, b.authors) /\ ForLabels(q.labels, b.labels) /\ ForAge(q.age, b.age)
    BY <2>2, <2>3, SingleValidatorsMonotone
  <2>5. ForAuthors(q.author, s.authors) /\ ForLabels(q.labels, s.labels)
    BY <2>1, SingleValidatorsMonotone
  <2> QED BY <2>1, <2>4, <2>5 DEF ValidateConditions
<1>2. ValidateCommentsAndChecks(s, q)
  <2>1. s # None /\ ForComments(q.comments, s.comments)
    BY SingleValidatorsMonotone DEF Accepted, ValidateCommentsAndChecks
  <2>2. CASE MatchedBranchConfig(s.branches) = {}
    BY <2>1, <2>2 DEF ValidateCommentsAndChecks
  <2>3. CASE MatchedBranchConfig(s.branches) # {}
    <3>1. PICK b \in MatchedBranchConfig(s.branches) \cap Branches :
            ForComments(p.comments, b.comments) /\ ForRequiredStatuses(p.statuses, b.required_statuses)
      BY <2>3 DEF Accepted, ValidateCommentsAndChecks
    <3>2. ForComments(q.comments, b.comments) /\ ForRequiredStatuses(q.statuses, b.required_statuses)
      BY <3>1, SingleValidatorsMonotone
    <3> QED BY <2>1, <3>2 DEF ValidateCommentsAndChecks
  <2> QED BY <2>2, <2>3
<1> QED BY <1>1, <1>2 DEF Accepted

\* A pull request that only gains keeps its acceptance, whatever the section.
THEOREM GainsKeep == Spec => GainsKeepAcceptance
<1>1. TypeOK /\ TypeOK' /\ [Next]_vars
      => [Gains(pr, pr') => (Accepted(include, pr) => Accepted(include, pr'))]_vars
  BY AcceptedMonotone DEF TypeOK
<1> QED BY <1>1, TypeCorrect, PTL DEF Spec, GainsKeepAcceptance

-----------------------------------------------------------------------------
(* The loop of MatchedBranchConfig                                            *)

\* Every set of numbers has a least one: what an induction comes down to.
LEMMA LeastNumber ==
  ASSUME NEW T \in SUBSET Nat, T # {}
  PROVE  \E n \in T : \A m \in T : n <= m
<1> DEFINE R == OpToRel(<, Nat)
<1>1. IsWellFoundedOn(R, Nat)
  BY NatLessThanWellFounded
<1>2. \A m, n \in Nat : m < n => <<m, n>> \in R
  BY DEF OpToRel
<1> HIDE DEF R
<1>3. PICK n \in T : \A m \in T : ~ (<<m, n>> \in R)
  BY <1>1, WFMin
<1>4. \A m \in T : ~ (m < n)
  BY <1>2, <1>3
<1> QED BY <1>4

\* What the loop starts with.
Start == [strict |-> FALSE, only |-> None, max |-> 0, found |-> <<>>]

\* The turns of the loop, one after the other.
LEMMA LoopTurns ==
  ASSUME NEW branches \in Seq(Branches)
  PROVE  /\ Loop(branches)[0] = Start
         /\ \A i \in 1..Len(branches) :
              Loop(branches)[i] = Visit(Loop(branches)[i - 1], branches[i])
<1> DEFINE Turns(g, k) == g = [i \in 0..k |-> IF i = 0 THEN Start ELSE Visit(g[i - 1], branches[i])]
           Never == {k \in Nat : ~ \E g : Turns(g, k)}
<1>1. Never = {}
  <2> SUFFICES ASSUME Never # {} PROVE FALSE
    OBVIOUS
  <2>1. PICK k \in Never : \A m \in Never : k <= m
    BY LeastNumber
  <2>2. CASE k = 0
    <3>1. Turns([i \in 0..0 |-> Start], 0)
      OBVIOUS
    <3> QED BY <2>1, <2>2, <3>1
  <2>3. CASE k # 0
    <3>1. k - 1 \in Nat /\ k - 1 \notin Never
      <4>1. k \in Nat
        OBVIOUS
      <4> HIDE DEF Never
      <4>2. \A m \in Nat : m < k => m \notin Never
        BY <2>1, <4>1
      <4> QED BY <2>3, <4>1, <4>2
    <3>2. PICK h : Turns(h, k - 1)
      BY <3>1
    <3> DEFINE g == [i \in 0..k |-> IF i = k THEN Visit(h[k - 1], branches[k]) ELSE h[i]]
    <3>3. \A i \in 0..(k - 1) : g[i] = IF i = 0 THEN Start ELSE Visit(h[i - 1], branches[i])
      BY <3>1, <3>2
    <3>4. \A i \in 0..k : g[i] = IF i = 0 THEN Start ELSE Visit(g[i - 1], branches[i])
      <4> TAKE i \in 0..k
      <4>1. CASE i = k
        BY <4>1, <2>3, <3>1
      <4>2. CASE i # k
        <5>1. i \in 0..(k - 1) /\ (i # 0 => i - 1 \in 0..(k - 1))
          BY <4>2, <2>1
        <5>2. i # 0 => g[i - 1] = h[i - 1]
          BY <5>1, <3>1
        <5> QED BY <5>1, <5>2, <3>3
      <4> QED BY <4>1, <4>2
    <3>5. Turns(g, k)
      BY <3>4
    <3> QED BY <2>1, <3>5
  <2> QED BY <2>2, <2>3
<1>2. Len(branches) \in Nat
  OBVIOUS
<1>3. \E g : Turns(g, Len(branches))
  BY <1>1, <1>2
<1>4. Loop(branches) = CHOOSE g : Turns(g, Len(branches))
  BY DEF Loop, Start
<1>5. Turns(Loop(branches), Len(branches))
  BY <1>3, <1>4
<1> HIDE DEF Turns
<1> QED BY <1>2, <1>5 DEF Turns

-----------------------------------------------------------------------------
\* What the loop has seen: the matching branches, the strict ones among them,
\* and those that compete when there is one, which are all from the first
\* strict one on.
Seen(branches, n)       == {i \in Matching(branches) : i <= n}
StrictSeen(branches, n) == {i \in Seen(branches, n) : branches[i].strict}
Competing(branches, n)  == {i \in Seen(branches, n) : \E j \in StrictSeen(branches, n) : j <= i}

\* What it has put on its list.
Found(s) == {s.found[i] : i \in DOMAIN s.found}

\* The first of the competing branches with the longest prefix.
Longest(branches, n, i) ==
  /\ i \in Competing(branches, n) /\ branches[i].prefix > 0
  /\ \A j \in Competing(branches, n) :
       /\ branches[j].prefix <= branches[i].prefix
       /\ branches[j].prefix = branches[i].prefix => i <= j

\* None of the competing branches says anything about the name.
AllEmpty(branches, n) == \A i \in Competing(branches, n) : branches[i].prefix = 0

\* The invariant of the loop: no strict branch so far and a list of all that
\* match, or a strict one and the longest of those that compete.
NoneStrict(s, branches, n) ==
  /\ StrictSeen(branches, n) = {} /\ s.strict = FALSE
  /\ s.only = None /\ s.max = 0
  /\ s.found \in Seq(Branches)
  /\ Found(s) = {branches[i] : i \in Seen(branches, n)}

SomeStrict(s, branches, n) ==
  /\ StrictSeen(branches, n) # {} /\ s.strict = TRUE
  /\ \/ AllEmpty(branches, n) /\ s.only = None /\ s.max = 0
     \/ \E i \in Competing(branches, n) :
          /\ Longest(branches, n, i)
          /\ s.only = branches[i] /\ s.max = branches[i].prefix

LoopInv(s, branches, n) == NoneStrict(s, branches, n) \/ SomeStrict(s, branches, n)

\* What is known of the branches of a section.
LEMMA BranchValues ==
  ASSUME NEW branches \in Seq(Branches)
  PROVE  /\ Len(branches) \in Nat
         /\ \A i \in 1..Len(branches) :
              /\ branches[i] \in Branches
              /\ branches[i].strict \in BOOLEAN
              /\ branches[i].prefix # None => branches[i].prefix \in Nat
         /\ Matching(branches) = {i \in 1..Len(branches) : branches[i].prefix # None}
<1>1. Len(branches) \in Nat /\ DOMAIN branches = 1..Len(branches)
  OBVIOUS
<1>2. ASSUME NEW i \in 1..Len(branches)
      PROVE  /\ branches[i] \in Branches
             /\ branches[i].strict \in BOOLEAN
             /\ branches[i].prefix # None => branches[i].prefix \in Nat
  <2>1. branches[i] \in Branches
    OBVIOUS
  <2>2. branches[i].strict \in BOOLEAN /\ branches[i].prefix \in 0..MaxPrefix \cup {None}
    BY <2>1 DEF Branches
  <2> QED BY <2>1, <2>2, ValidatorAssumption
<1> QED BY <1>1, <1>2 DEF Matching

\* A branch that does not match is passed over.
LEMMA SkipsOthers ==
  ASSUME NEW branches \in Seq(Branches), NEW n \in 1..Len(branches), NEW s,
         branches[n].prefix = None, LoopInv(s, branches, n - 1)
  PROVE  LoopInv(Visit(s, branches[n]), branches, n)
<1>1. Visit(s, branches[n]) = s
  BY DEF Visit
<1>2. Seen(branches, n) = Seen(branches, n - 1)
  BY BranchValues DEF Seen
<1> QED BY <1>1, <1>2 DEF LoopInv, NoneStrict, SomeStrict, StrictSeen, Competing, Longest, AllEmpty

\* The list grows by one branch.
LEMMA FoundAppend ==
  ASSUME NEW f \in Seq(Branches), NEW b \in Branches
  PROVE  /\ Append(f, b) \in Seq(Branches)
         /\ {Append(f, b)[i] : i \in DOMAIN Append(f, b)} = {f[i] : i \in DOMAIN f} \cup {b}
<1>1. Append(f, b) \in Seq(Branches)
  OBVIOUS
<1> DEFINE g == Append(f, b)
<1>2. /\ Len(f) \in Nat /\ DOMAIN f = 1..Len(f) /\ DOMAIN g = 1..(Len(f) + 1)
      /\ g[Len(f) + 1] = b /\ \A i \in 1..Len(f) : g[i] = f[i]
  OBVIOUS
<1> HIDE DEF g
<1>3. \A i \in DOMAIN g : g[i] \in {f[j] : j \in DOMAIN f} \cup {b}
  BY <1>2
<1>4. \A j \in DOMAIN f : f[j] \in {g[i] : i \in DOMAIN g}
  BY <1>2
<1>5. b \in {g[i] : i \in DOMAIN g}
  BY <1>2
<1>6. {g[i] : i \in DOMAIN g} = {f[i] : i \in DOMAIN f} \cup {b}
  BY <1>3, <1>4, <1>5
<1> QED BY <1>1, <1>6 DEF g

\* One that matches is listed, or competes with the longest so far.
LEMMA TakesMatching ==
  ASSUME NEW branches \in Seq(Branches), NEW n \in 1..Len(branches), NEW s,
         branches[n].prefix # None, LoopInv(s, branches, n - 1)
  PROVE  LoopInv(Visit(s, branches[n]), branches, n)
<1> DEFINE b == branches[n]
           t == Visit(s, b)
<1>1. /\ n \in Nat \ {0} /\ b \in Branches /\ b.strict \in BOOLEAN /\ b.prefix \in Nat
      /\ b.prefix # None
  BY BranchValues
<1>2. Seen(branches, n) = Seen(branches, n - 1) \cup {n}
  BY <1>1, BranchValues DEF Seen
<1>3. \A i \in Seen(branches, n - 1) : i \in Nat /\ i < n /\ branches[i].prefix \in Nat
  BY <1>1, BranchValues DEF Seen
<1>4. StrictSeen(branches, n) = StrictSeen(branches, n - 1) \cup (IF b.strict THEN {n} ELSE {})
  BY <1>1, <1>2 DEF StrictSeen
<1>5. CASE NoneStrict(s, branches, n - 1) /\ ~ b.strict
  <2>1. t = [strict |-> FALSE, only |-> None, max |-> 0, found |-> Append(s.found, b)]
    BY <1>1, <1>5 DEF Visit, NoneStrict
  <2> HIDE DEF t
  <2>2. Found(t) = Found(s) \cup {b} /\ t.found \in Seq(Branches)
    <3>1. s.found \in Seq(Branches)
      BY <1>5 DEF NoneStrict
    <3>2. t.found = Append(s.found, b)
      BY <2>1
    <3> DEFINE f == s.found
    <3>3. Found(t) = {Append(f, b)[i] : i \in DOMAIN Append(f, b)} /\ Found(s) = {f[i] : i \in DOMAIN f}
      BY <3>2 DEF Found
    <3> HIDE DEF b, f
    <3>4. f \in Seq(Branches) /\ b \in Branches
      BY <3>1, <1>1 DEF f
    <3>5. /\ Append(f, b) \in Seq(Branches)
          /\ {Append(f, b)[i] : i \in DOMAIN Append(f, b)} = {f[i] : i \in DOMAIN f} \cup {b}
      BY <3>4, FoundAppend
    <3> QED BY <3>2, <3>3, <3>5 DEF f
  <2>3. Found(t) = {branches[i] : i \in Seen(branches, n)}
    BY <2>2, <1>2, <1>5 DEF NoneStrict
  <2>4. StrictSeen(branches, n) = {}
    BY <1>4, <1>5 DEF NoneStrict
  <2>5. NoneStrict(t, branches, n)
    <3>1. t.strict = FALSE /\ t.only = None /\ t.max = 0
      BY <2>1
    <3> QED BY <3>1, <2>2, <2>3, <2>4 DEF NoneStrict
  <2> QED BY <2>5 DEF LoopInv, t
<1>6. CASE NoneStrict(s, branches, n - 1) /\ b.strict
  <2>1. /\ t.strict = TRUE
        /\ t.only = IF b.prefix > 0 THEN b ELSE None
        /\ t.max = IF b.prefix > 0 THEN b.prefix ELSE 0
    BY <1>1, <1>6 DEF Visit, NoneStrict
  <2>2. StrictSeen(branches, n) = {n}
    BY <1>4, <1>6 DEF NoneStrict
  <2>3. Competing(branches, n) = {n}
    BY <1>1, <1>2, <1>3, <2>2 DEF Competing
  <2>4. CASE b.prefix > 0
    <3>1. Longest(branches, n, n)
      BY <1>1, <2>3, <2>4 DEF Longest
    <3>2. SomeStrict(t, branches, n)
      BY <2>1, <2>2, <2>3, <2>4, <3>1 DEF SomeStrict
    <3> QED BY <3>2 DEF LoopInv
  <2>5. CASE ~ (b.prefix > 0)
    <3>1. AllEmpty(branches, n)
      BY <1>1, <2>3, <2>5 DEF AllEmpty
    <3>2. SomeStrict(t, branches, n)
      BY <2>1, <2>2, <2>5, <3>1 DEF SomeStrict
    <3> QED BY <3>2 DEF LoopInv
  <2> QED BY <2>4, <2>5
<1>7. CASE SomeStrict(s, branches, n - 1)
  <2>1. /\ t.strict = TRUE
        /\ t.only = IF b.prefix > s.max THEN b ELSE s.only
        /\ t.max = IF b.prefix > s.max THEN b.prefix ELSE s.max
    BY <1>1, <1>7 DEF Visit, SomeStrict
  <2>2. StrictSeen(branches, n) # {}
    BY <1>4, <1>7 DEF SomeStrict
  <2>3. Competing(branches, n) = Competing(branches, n - 1) \cup {n}
    <3>1. PICK j \in StrictSeen(branches, n - 1) : j < n
      BY <1>3, <1>7 DEF SomeStrict, StrictSeen
    <3>2. \A i \in Seen(branches, n - 1) :
            (\E k \in StrictSeen(branches, n) : k <= i) <=> \E k \in StrictSeen(branches, n - 1) : k <= i
      BY <1>1, <1>3, <1>4
    <3>3. \E k \in StrictSeen(branches, n) : k <= n
      BY <1>1, <1>3, <1>4, <3>1 DEF StrictSeen
    <3> QED BY <1>2, <3>2, <3>3 DEF Competing
  <2>4. \A i \in Competing(branches, n - 1) : i \in Nat /\ i < n /\ branches[i].prefix \in Nat
    BY <1>3 DEF Competing
  <2>5. CASE b.prefix > s.max
    <3>1. \A j \in Competing(branches, n - 1) : branches[j].prefix < b.prefix /\ b.prefix > 0
      BY <1>1, <1>7, <2>4, <2>5 DEF SomeStrict, AllEmpty, Longest
    <3>2. b.prefix > 0
      BY <1>1, <1>7, <2>4, <2>5 DEF SomeStrict, Longest
    <3>3. Longest(branches, n, n)
      BY <1>1, <2>3, <2>4, <3>1, <3>2 DEF Longest
    <3>4. SomeStrict(t, branches, n)
      BY <2>1, <2>2, <2>3, <2>5, <3>3 DEF SomeStrict
    <3> QED BY <3>4 DEF LoopInv
  <2>6. CASE ~ (b.prefix > s.max)
    <3>1. t.only = s.only /\ t.max = s.max
      BY <2>1, <2>6
    <3>2. CASE AllEmpty(branches, n - 1) /\ s.only = None /\ s.max = 0
      <4>1. AllEmpty(branches, n)
        BY <1>1, <2>3, <2>6, <3>2 DEF AllEmpty
      <4>2. SomeStrict(t, branches, n)
        BY <2>1, <2>2, <3>1, <3>2, <4>1 DEF SomeStrict
      <4> QED BY <4>2 DEF LoopInv
    <3>3. ASSUME NEW i \in Competing(branches, n - 1), Longest(branches, n - 1, i),
                 s.only = branches[i], s.max = branches[i].prefix
          PROVE  LoopInv(t, branches, n)
      <4>1. i < n /\ b.prefix <= branches[i].prefix
        BY <1>1, <2>4, <2>6, <3>3
      <4>2. Longest(branches, n, i)
        BY <1>1, <2>3, <2>4, <3>3, <4>1 DEF Longest
      <4>3. SomeStrict(t, branches, n)
        BY <2>1, <2>2, <2>3, <3>1, <3>3, <4>2 DEF SomeStrict
      <4> QED BY <4>3 DEF LoopInv
    <3> QED BY <1>7, <3>2, <3>3 DEF SomeStrict
  <2> QED BY <2>5, <2>6
<1> QED BY <1>5, <1>6, <1>7, <1>1 DEF LoopInv

\* The invariant holds after every turn.
LEMMA LoopInvariant ==
  ASSUME NEW branches \in Seq(Branches)
  PROVE  \A n \in 0..Len(branches) : LoopInv(Loop(branches)[n], branches, n)
<1> DEFINE Wrong == {n \in 0..Len(branches) : ~ LoopInv(Loop(branches)[n], branches, n)}
<1> SUFFICES ASSUME Wrong # {} PROVE FALSE
  OBVIOUS
<1>1. Wrong \in SUBSET Nat
  OBVIOUS
<1>2. PICK n \in Wrong : \A m \in Wrong : n <= m
  BY <1>1, LeastNumber
<1>3. CASE n = 0
  <2>1. Loop(branches)[0] = Start
    BY LoopTurns
  <2>2. Seen(branches, 0) = {}
    BY BranchValues DEF Seen
  <2>3. NoneStrict(Start, branches, 0)
    BY <2>2 DEF NoneStrict, StrictSeen, Start, Found
  <2> QED BY <1>2, <1>3, <2>1, <2>3 DEF LoopInv
<1>4. CASE n # 0
  <2>1. n \in 1..Len(branches) /\ n - 1 \in 0..Len(branches)
    BY <1>2, <1>4, BranchValues
  <2>2. n - 1 \notin Wrong
    <3>1. n - 1 < n
      BY <2>1
    <3> HIDE DEF Wrong
    <3> QED BY <1>1, <1>2, <2>1, <3>1
  <2>3. LoopInv(Loop(branches)[n - 1], branches, n - 1)
    BY <2>1, <2>2
  <2>4. Loop(branches)[n] = Visit(Loop(branches)[n - 1], branches[n])
    BY <2>1, LoopTurns
  <2>5. LoopInv(Loop(branches)[n], branches, n)
    BY <2>1, <2>3, <2>4, SkipsOthers, TakesMatching
  <2> QED BY <1>2, <2>5
<1> QED BY <1>3, <1>4

\* After the last turn: the selection is the one that the definition names.
LEMMA MatchedIsDeciding ==
  ASSUME NEW branches \in Seq(Branches)
  PROVE  MatchedBranchConfig(branches) = Deciding(branches)
<1> DEFINE n == Len(branches)
           s == Loop(branches)[n]
           strict == {i \in Matching(branches) : branches[i].strict}
           rest   == {i \in Matching(branches) : \E j \in strict : j <= i}
           best   == {i \in rest : /\ branches[i].prefix > 0
                                   /\ \A j \in rest : branches[j].prefix <= branches[i].prefix
                                   /\ \A j \in rest : branches[j].prefix = branches[i].prefix => i <= j}
<1>1. n \in Nat /\ LoopInv(s, branches, n)
  BY LoopInvariant, BranchValues
<1>2. /\ Seen(branches, n) = Matching(branches)
      /\ \A i \in Matching(branches) : i \in Nat /\ branches[i].prefix \in Nat
  BY BranchValues DEF Seen
<1>3. StrictSeen(branches, n) = strict /\ Competing(branches, n) = rest
  BY <1>2 DEF StrictSeen, Competing
<1>4. \A i : Longest(branches, n, i) <=> i \in best
  BY <1>3 DEF Longest
<1>5. MatchedBranchConfig(branches) = IF s.strict THEN {s.only} ELSE Found(s)
  BY DEF MatchedBranchConfig, Found
<1>6. Deciding(branches) = IF strict = {} THEN {branches[i] : i \in Matching(branches)}
                           ELSE IF best = {} THEN {None} ELSE {branches[i] : i \in best}
  BY DEF Deciding
<1>9. rest \subseteq Matching(branches)
  OBVIOUS
<1>7. CASE NoneStrict(s, branches, n)
  BY <1>2, <1>3, <1>5, <1>6, <1>7 DEF NoneStrict
<1>8. CASE SomeStrict(s, branches, n)
  <2>1. strict # {} /\ s.strict = TRUE
    BY <1>3, <1>8 DEF SomeStrict
  <2>2. CASE AllEmpty(branches, n) /\ s.only = None
    <3>1. best = {}
      BY <1>3, <2>2 DEF AllEmpty
    <3> QED BY <1>5, <1>6, <2>1, <2>2, <3>1
  <2>3. ASSUME NEW i \in Competing(branches, n), Longest(branches, n, i), s.only = branches[i]
        PROVE  MatchedBranchConfig(branches) = Deciding(branches)
    <3>1. i \in best
      BY <1>4, <2>3
    <3>2. \A j \in best : j = i
      BY <1>2, <1>9, <3>1
    <3>3. best = {i}
      BY <3>1, <3>2
    <3> HIDE DEF best, strict, rest, s
    <3> QED BY <1>5, <1>6, <2>1, <2>3, <3>3
  <2> QED BY <1>8, <2>2, <2>3 DEF SomeStrict
<1> QED BY <1>1, <1>7, <1>8 DEF LoopInv

-----------------------------------------------------------------------------
(* What the loop gives the section of the moment                              *)

\* The section of the moment is one of the sections, and its branches are such.
LEMMA IncludeTyped ==
  ASSUME TypeOK, include # None
  PROVE  include.branches \in Seq(Branches)
  BY ValidatorAssumption DEF TypeOK

\* Whatever branches a section has, in whatever order of their keys, the loop
\* of MatchedBranchConfig selects exactly those that the definition names.
THEOREM Selects == Spec => []SelectsDeciding
<1>1. TypeOK => SelectsDeciding
  BY IncludeTyped, MatchedIsDeciding DEF SelectsDeciding
<1> QED BY <1>1, TypeCorrect, PTL

\* Whatever branches a section has, a matching strict one leaves one branch to
\* decide, and no shorter one than itself.
THEOREM StrictFirst == Spec => []StrictOutranks
<1>1. TypeOK => StrictOutranks
  <2> SUFFICES ASSUME TypeOK, include # None,
                      NEW i \in Matching(include.branches), include.branches[i].strict
               PROVE  \E b \in MatchedBranchConfig(include.branches) :
                        /\ MatchedBranchConfig(include.branches) = {b}
                        /\ b = None \/ b.prefix >= include.branches[i].prefix
    BY DEF StrictOutranks
  <2> DEFINE branches == include.branches
             n == Len(branches)
             s == Loop(branches)[n]
  <2>1. branches \in Seq(Branches)
    BY IncludeTyped
  <2> HIDE DEF branches
  <2>2. n \in Nat /\ LoopInv(s, branches, n)
    BY <2>1, LoopInvariant, BranchValues
  <2>3. i \in Nat /\ i <= n
    BY <2>1, BranchValues DEF branches
  <2>4. i \in StrictSeen(branches, n) /\ i \in Competing(branches, n)
    BY <2>3 DEF StrictSeen, Seen, Competing, branches
  <2>5. SomeStrict(s, branches, n)
    BY <2>2, <2>4 DEF LoopInv, NoneStrict
  <2>6. MatchedBranchConfig(branches) = {s.only}
    BY <2>5 DEF MatchedBranchConfig, SomeStrict
  <2>7. s.only = None \/ s.only.prefix >= branches[i].prefix
    <3>1. CASE s.only = None
      BY <3>1
    <3>2. ASSUME NEW k \in Competing(branches, n), Longest(branches, n, k), s.only = branches[k]
          PROVE  s.only.prefix >= branches[i].prefix
      <4>1. branches[i].prefix \in Nat /\ branches[k].prefix \in Nat
        BY <2>1, <2>4, BranchValues DEF Competing, Seen
      <4> QED BY <2>4, <3>2, <4>1 DEF Longest
    <3> QED BY <2>5, <3>1, <3>2 DEF SomeStrict
  <2> QED BY <2>6, <2>7 DEF branches
<1> QED BY <1>1, TypeCorrect, PTL

\* Whatever the sections, the filter of the webhook handler loses nothing: what
\* it drops has no branch that could meet the conditions.
THEOREM DropsHopeless == Spec => []HandlerDropsOnlyHopeless
<1>1. TypeOK => HandlerDropsOnlyHopeless
  <2> SUFFICES ASSUME TypeOK, ~ Handle(include), include # None
               PROVE  MatchedBranchConfig(include.branches) = {}
    BY DEF HandlerDropsOnlyHopeless, ValidateConditions
  <2> DEFINE branches == include.branches
  <2>1. branches \in Seq(Branches) /\ Matching(branches) = {}
    BY IncludeTyped DEF Handle, Matching
  <2> HIDE DEF branches
  <2>2. MatchedBranchConfig(branches) = {}
    BY <2>1, MatchedIsDeciding DEF Deciding
  <2> QED BY <2>2 DEF branches
<1> QED BY <1>1, TypeCorrect, PTL
=============================================================================
