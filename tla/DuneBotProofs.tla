--------------------------- MODULE DuneBotProofs ---------------------------
(* What holds of DuneBot for all repositories, pull requests, events and      *)
(* files.                                                                     *)
EXTENDS DuneBot, TLAPS

\* Every event in the program is at one place, and at that of its repository.
Placed ==
  /\ \A d \in Slots : pc[d] # "free" => pr[d] \in PRs
  /\ \A r \in Repos : busy[r] # None => pc[busy[r]] = "review" /\ repoOf[pr[busy[r]]] = r
  /\ \A r \in Repos : \A i \in 1 .. Len(queue[r]) :
       pc[queue[r][i]] = "queued" /\ repoOf[pr[queue[r][i]]] = r
  /\ \A r \in Repos : \A i, j \in 1 .. Len(queue[r]) : queue[r][i] = queue[r][j] => i = j

\* An event has seen the files that there are.
NowIsSeen ==
  \A d \in Slots : pc[d] # "free" =>
    file[repoOf[pr[d]]] \in seen[d].own /\ orgFile \in seen[d].org

\* The file that the first call of LoadConfig returns.
First(own, g) == IF own # None THEN own ELSE g[OrgRef]

\* Between the two calls of LoadConfig an event holds a file of those it has seen.
FirstIsSeen ==
  \A d \in Slots : pc[d] = "global" =>
    /\ got[d] \in Contents /\ got[d].mode \in {"original", "merge"}
    /\ \E own \in seen[d].own, g \in seen[d].org : got[d] = First(own, g)

\* What configuration c accepts, some of the files that were seen accept.
Faithful(c, p, s) ==
  In(c.approve, p) /\ In(c.merge, p) =>
    \E own \in s.own, g \in s.org, h \in s.org : Accepts(p, own, g, h)

\* What waits with an event accepts nothing that the files it has seen do not.
LoadedIsSeen ==
  \A d \in Slots : pc[d] \in {"queued", "review"} => Faithful(cfg[d], pr[d], seen[d])

IInv == TypeOK /\ Placed /\ NowIsSeen /\ FirstIsSeen /\ LoadedIsSeen

-----------------------------------------------------------------------------
(* What LoadConfig returns                                                    *)

\* An overlay of two branches, of two maps of branches, of two sections is one.
LEMMA MergeDeepType ==
  /\ \A x, y \in Branches \cup {None} : MergeBranch(x, y) \in Branches \cup {None}
  /\ \A x, y \in BranchMaps \cup {Null, None} : MergeBranches(x, y) \in BranchMaps \cup {Null, None}
  /\ \A x, y \in Sections : MergeDeep(x, y) \in Sections
<1>1. ASSUME NEW x \in Branches \cup {None}, NEW y \in Branches \cup {None}
      PROVE  MergeBranch(x, y) \in Branches \cup {None}
  BY DEF MergeBranch, Over, Branches, IsMap
<1>2. ASSUME NEW x \in BranchMaps \cup {Null, None}, NEW y \in BranchMaps \cup {Null, None}
      PROVE  MergeBranches(x, y) \in BranchMaps \cup {Null, None}
  <2>1. CASE IsMap(x) /\ IsMap(y)
    <3>1. \A k \in Keys : MergeBranch(x[k], y[k]) \in Branches \cup {None}
      BY <1>1, <2>1 DEF BranchMaps, IsMap
    <3> QED BY <2>1, <3>1 DEF MergeBranches, BranchMaps
  <2>2. CASE ~ (IsMap(x) /\ IsMap(y))
    BY <2>2 DEF MergeBranches, Over
  <2> QED BY <2>1, <2>2
<1>3. ASSUME NEW x \in Sections, NEW y \in Sections
      PROVE  MergeDeep(x, y) \in Sections
  <2>1. CASE IsMap(x) /\ IsMap(y)
    <3>1. x \in Includes /\ y \in Includes
      BY <2>1 DEF Sections, IsMap
    <3>2. MergeBranches(x.branches, y.branches) \in BranchMaps \cup {Null, None}
      BY <1>2, <3>1 DEF Includes
    <3>3. Over(x.authors, y.authors) \in Leaves
      BY <3>1 DEF Includes, Over
    <3> QED BY <2>1, <3>2, <3>3 DEF MergeDeep, Includes, Sections
  <2>2. CASE ~ (IsMap(x) /\ IsMap(y))
    BY <2>2 DEF MergeDeep, Over
  <2> QED BY <2>1, <2>2
<1> QED BY <1>1, <1>2, <1>3

\* What is read and what is merged are configurations.
LEMMA ConfigsAreMade ==
  /\ EmptyConfig \in Configs
  /\ \A f \in Contents : Unmarshal(f) \in Configs
  /\ \A o \in Contents \cup {None}, f \in Contents : Merge(o, f) \in Configs
<1>1. EmptyConfig \in Configs
  BY DEF EmptyConfig, Configs, Sections
<1>2. \A f \in Contents : Unmarshal(f) \in Configs
  BY DEF Unmarshal, Configs, Contents
<1>3. ASSUME NEW o \in Contents \cup {None}, NEW f \in Contents
      PROVE  Merge(o, f) \in Configs
  <2>1. CASE o = None
    BY <2>1, <1>2 DEF Merge
  <2>2. CASE o # None
    <3>1. MergeDeep(o.approve, f.approve) \in Sections /\ MergeDeep(o.merge, f.merge) \in Sections
      BY <2>2, MergeDeepType DEF Contents
    <3> QED BY <2>2, <3>1 DEF Merge, Configs
  <2> QED BY <2>1, <2>2
<1> QED BY <1>1, <1>2, <1>3

\* A branch laid over another asks for what the two say, setting by setting.
LEMMA BranchAllows ==
  ASSUME NEW o \in Branches \cup {None, Null}, NEW g \in Branches \cup {None, Null}, NEW p,
         IsMap(MergeBranch(g, o)),
         Lets(MergeBranch(g, o).prefix, p), Lets(MergeBranch(g, o).authors, p)
  PROVE  /\ IsMap(Say(o, g))
         /\ Lets(Say(At(o, "prefix"), At(g, "prefix")), p)
         /\ Lets(Say(At(o, "authors"), At(g, "authors")), p)
<1>1. CASE IsMap(g) /\ IsMap(o)
  BY <1>1 DEF MergeBranch, Over, Say, At, IsMap
<1>2. CASE ~ (IsMap(g) /\ IsMap(o)) /\ o # None
  BY <1>2 DEF MergeBranch, Over, Say, At, IsMap, Lets
<1>3. CASE ~ (IsMap(g) /\ IsMap(o)) /\ o = None
  BY <1>3 DEF MergeBranch, Over, Say, At, IsMap, Lets
<1> QED BY <1>1, <1>2, <1>3

\* A branch of a map laid over another is a branch laid over another.
LEMMA MergedBranch ==
  ASSUME NEW o \in BranchMaps \cup {None, Null}, NEW g \in BranchMaps \cup {None, Null},
         NEW k \in Keys, IsMap(MergeBranches(g, o)), MergeBranches(g, o)[k] # None
  PROVE  /\ At(o, k) \in Branches \cup {None, Null} /\ At(g, k) \in Branches \cup {None, Null}
         /\ MergeBranches(g, o)[k] = MergeBranch(At(g, k), At(o, k))
<1>1. At(o, k) \in Branches \cup {None, Null} /\ At(g, k) \in Branches \cup {None, Null}
  BY DEF At, BranchMaps, IsMap
<1>2. CASE IsMap(g) /\ IsMap(o)
  <2>1. MergeBranches(g, o) = [l \in Keys |-> MergeBranch(g[l], o[l])]
    BY <1>2 DEF MergeBranches
  <2>2. At(o, k) = o[k] /\ At(g, k) = g[k]
    BY <1>2 DEF At
  <2> QED BY <1>1, <2>1, <2>2
<1>3. CASE ~ (IsMap(g) /\ IsMap(o)) /\ o # None
  <2>1. MergeBranches(g, o) = o /\ ~ IsMap(g) /\ IsMap(o)
    BY <1>3 DEF MergeBranches, Over
  <2> QED BY <1>1, <2>1 DEF At, MergeBranch, Over
<1>4. CASE o = None
  <2>1. MergeBranches(g, o) = g /\ IsMap(g)
    BY <1>4 DEF MergeBranches, Over, IsMap
  <2>2. At(o, k) = None /\ At(g, k) = g[k]
    BY <1>4, <2>1 DEF At, IsMap
  <2>3. MergeBranch(g[k], None) = g[k]
    BY DEF MergeBranch, Over, IsMap
  <2> QED BY <1>1, <2>1, <2>2, <2>3
<1> QED BY <1>1, <1>2, <1>3, <1>4

\* A section laid over another accepts what the two together allow.
LEMMA InMergeDeep ==
  ASSUME NEW o \in Sections, NEW g \in Sections, NEW p, In(MergeDeep(g, o), p)
  PROVE  Allowed(o, g, p)
<1> DEFINE m == MergeDeep(g, o)
           x == At(o, "branches")
           y == At(g, "branches")
<1>1. IsMap(m) /\ Lets(m.authors, p) /\ IsMap(m.branches)
  BY DEF In, Found
<1>2. PICK k \in Keys : /\ m.branches[k] # None
                        /\ Lets(m.branches[k].prefix, p) /\ Lets(m.branches[k].authors, p)
  BY <1>1 DEF In, Found
<1>3. /\ x \in BranchMaps \cup {None, Null} /\ y \in BranchMaps \cup {None, Null}
  BY DEF Sections, Includes, At, IsMap
<1>4. /\ IsMap(Say(o, g))
      /\ Lets(Say(At(o, "authors"), At(g, "authors")), p)
      /\ m.branches = MergeBranches(y, x)
  <2>1. CASE IsMap(g) /\ IsMap(o)
    BY <1>1, <2>1 DEF MergeDeep, Over, Say, At, IsMap
  <2>2. CASE ~ (IsMap(g) /\ IsMap(o)) /\ o # None
    <3>1. m = o /\ ~ IsMap(g) /\ IsMap(o)
      BY <1>1, <2>2 DEF MergeDeep, Over
    <3>2. x = o.branches /\ y = g /\ x # None
      BY <1>1, <3>1 DEF At, IsMap
    <3>3. MergeBranches(y, x) = x
      BY <3>1, <3>2 DEF MergeBranches, Over
    <3>4. Say(o, g) = o
      BY <2>2 DEF Say
    <3>5. Lets(Say(At(o, "authors"), At(g, "authors")), p)
      BY <1>1, <3>1 DEF Say, At, Lets
    <3> QED BY <3>1, <3>2, <3>3, <3>4, <3>5
  <2>3. CASE o = None
    <3>1. m = g /\ IsMap(g) /\ ~ IsMap(o)
      BY <1>1, <2>3 DEF MergeDeep, Over, IsMap
    <3>2. x = None /\ y = g.branches
      BY <2>3, <3>1 DEF At
    <3>3. MergeBranches(y, x) = y
      BY <3>2 DEF MergeBranches, Over, IsMap
    <3> QED BY <1>1, <2>3, <3>1, <3>2, <3>3 DEF Say, At, Lets
  <2> QED BY <2>1, <2>2, <2>3
<1>5. /\ At(x, k) \in Branches \cup {None, Null} /\ At(y, k) \in Branches \cup {None, Null}
      /\ m.branches[k] = MergeBranch(At(y, k), At(x, k))
  BY <1>1, <1>2, <1>3, <1>4, MergedBranch
<1>6. m.branches[k] # Null
  <2>1. MergeBranches(y, x) \in BranchMaps
    BY <1>1, <1>3, <1>4, MergeDeepType DEF IsMap
  <2>2. m.branches[k] \in Branches
    BY <1>2, <1>4, <2>1 DEF BranchMaps
  <2> QED BY <2>2, DuneBotAssumption DEF IsMap
<1>7. /\ IsMap(Say(At(x, k), At(y, k)))
      /\ Lets(Say(At(At(x, k), "prefix"), At(At(y, k), "prefix")), p)
      /\ Lets(Say(At(At(x, k), "authors"), At(At(y, k), "authors")), p)
  <2>1. IsMap(MergeBranch(At(y, k), At(x, k)))
    BY <1>2, <1>5, <1>6 DEF IsMap
  <2> QED BY <1>2, <1>5, <2>1, BranchAllows
<1> QED BY <1>4, <1>7 DEF Allowed

\* A section that is laid over nothing accepts what it allows itself.
LEMMA InAlone ==
  ASSUME NEW s \in Sections, NEW p, In(s, p)
  PROVE  Allowed(s, None, p)
<1>1. MergeDeep(None, s) = s
  BY DEF MergeDeep, Over, IsMap
<1>2. None \in Sections
  BY DEF Sections
<1> QED BY <1>1, <1>2, InMergeDeep

\* The files, and those that were seen, are files or missing.
LEMMA FilesAreContents ==
  ASSUME TypeOK
  PROVE  /\ \A r \in Repos : /\ file[r] \in Contents \cup {None}
                             /\ Config(r) \in Contents \cup {None}
                             /\ AtRef(r) \in Contents \cup {None}
         /\ None \notin Contents /\ Null \notin Contents
<1>1. \A b \in Refs : orgFile[b] \in Contents \cup {None}
  BY DuneBotAssumption DEF TypeOK
<1>2. \A r \in Repos : file[r] \in Contents \cup {None}
  BY DuneBotAssumption DEF TypeOK
<1> QED BY <1>1, <1>2, DuneBotAssumption DEF Config, AtRef

\* A file alone accepts what it allows, one over another what both allow.
LEMMA ContentsAllow ==
  ASSUME NEW f \in Contents, NEW org \in Contents \cup {None}, NEW p,
         None \notin Contents, Null \notin Contents
  PROVE  /\ In(f.approve, p) => Allowed(At(f, "approve"), At(None, "approve"), p)
         /\ In(f.merge, p) => Allowed(At(f, "merge"), At(None, "merge"), p)
         /\ In(Merge(org, f).approve, p) => Allowed(At(f, "approve"), At(org, "approve"), p)
         /\ In(Merge(org, f).merge, p) => Allowed(At(f, "merge"), At(org, "merge"), p)
<1>1. /\ f.approve \in Sections /\ f.merge \in Sections
      /\ At(f, "approve") = f.approve /\ At(f, "merge") = f.merge
      /\ At(None, "approve") = None /\ At(None, "merge") = None
  BY DEF Contents, At, IsMap
<1>2. In(f.approve, p) => Allowed(f.approve, None, p)
  BY <1>1, InAlone
<1>3. In(f.merge, p) => Allowed(f.merge, None, p)
  BY <1>1, InAlone
<1>4. CASE org = None
  <2>1. Merge(org, f).approve = f.approve /\ Merge(org, f).merge = f.merge
    BY <1>4 DEF Merge, Unmarshal
  <2> QED BY <1>1, <1>2, <1>3, <1>4, <2>1
<1>5. CASE org # None
  <2>1. /\ org.approve \in Sections /\ org.merge \in Sections
        /\ At(org, "approve") = org.approve /\ At(org, "merge") = org.merge
    BY <1>5 DEF Contents, At, IsMap
  <2>2. /\ Merge(org, f).approve = MergeDeep(org.approve, f.approve)
        /\ Merge(org, f).merge = MergeDeep(org.merge, f.merge)
    BY <1>5 DEF Merge
  <2>3. In(MergeDeep(org.approve, f.approve), p) => Allowed(f.approve, org.approve, p)
    BY <1>1, <2>1, InMergeDeep
  <2>4. In(MergeDeep(org.merge, f.merge), p) => Allowed(f.merge, org.merge, p)
    BY <1>1, <2>1, InMergeDeep
  <2> QED BY <1>1, <1>2, <1>3, <2>1, <2>2, <2>3, <2>4
<1> QED BY <1>4, <1>5

\* What was seen more of accepts no less.
LEMMA FaithfulGrows ==
  ASSUME NEW c, NEW p, NEW s, NEW t, s.own \subseteq t.own, s.org \subseteq t.org,
         Faithful(c, p, s)
  PROVE  Faithful(c, p, t)
BY DEF Faithful

-----------------------------------------------------------------------------
(* The invariant                                                              *)

\* It holds when the program starts for the first time.
LEMMA InitInv == Init => IInv
<1> SUFFICES ASSUME Init PROVE IInv
  OBVIOUS
<1>1. TypeOK
  <2>1. seen \in [Slots -> [own : SUBSET Files, org : SUBSET [Refs -> OrgFiles]]]
    BY DEF Init, NothingSeen
  <2> QED BY <2>1, DuneBotAssumption DEF Init, TypeOK
<1>2. Placed /\ NowIsSeen /\ FirstIsSeen /\ LoadedIsSeen
  BY DEF Init, Placed, NowIsSeen, FirstIsSeen, LoadedIsSeen
<1> QED BY <1>1, <1>2 DEF IInv

\* An event that is not in the queue or under review may leave at any time.
LEMMA DropInv ==
  ASSUME IInv, NEW d \in Slots, pc[d] \in {"load", "global"}, Drop(d), UNCHANGED github,
         trouble' \in 0 .. MaxTrouble
  PROVE  IInv'
<1>1. TypeOK'
  <2>1. seen' \in [Slots -> [own : SUBSET Files, org : SUBSET [Refs -> OrgFiles]]]
    BY DEF IInv, TypeOK, Drop, Free, NothingSeen
  <2> QED BY <2>1 DEF IInv, TypeOK, Drop, Free, github
<1>2. Placed'
  <2>1. UNCHANGED <<queue, busy>> /\ \A e \in Slots \ {d} : pc'[e] = pc[e] /\ pr'[e] = pr[e]
    BY DEF IInv, TypeOK, Drop, Free
  <2>2. pc'[d] = "free"
    BY DEF IInv, TypeOK, Drop, Free
  <2>3. \A r \in Repos : \A i \in 1 .. Len(queue[r]) : queue[r][i] \in Slots \ {d}
    BY DEF IInv, TypeOK, Placed
  <2>4. \A r \in Repos : busy[r] # None => busy[r] \in Slots \ {d}
    BY DEF IInv, TypeOK, Placed
  <2> QED BY <2>1, <2>2, <2>3, <2>4 DEF IInv, Placed
<1>3. \A e \in Slots : \/ e = d /\ pc'[e] = "free"
                       \/ /\ pc'[e] = pc[e] /\ pr'[e] = pr[e] /\ got'[e] = got[e]
                          /\ cfg'[e] = cfg[e] /\ seen'[e] = seen[e]
  BY DEF IInv, TypeOK, Drop, Free
<1>4. NowIsSeen' /\ FirstIsSeen' /\ LoadedIsSeen'
  <2>1. NowIsSeen'
    BY <1>3 DEF IInv, NowIsSeen, github
  <2>2. FirstIsSeen'
    BY <1>3 DEF IInv, FirstIsSeen
  <2>3. LoadedIsSeen'
    BY <1>3 DEF IInv, LoadedIsSeen
  <2> QED BY <2>1, <2>2, <2>3
<1> QED BY <1>1, <1>2, <1>4 DEF IInv

\* An event with its configuration is queued, or dropped.
LEMMA HandleInv ==
  ASSUME IInv, NEW d \in Slots, pc[d] \in {"load", "global"}, NEW c \in Configs,
         Handle(d, c), UNCHANGED <<github, trouble>>,
         Faithful(c, pr[d], seen[d])
  PROVE  IInv'
<1>1. CASE Drop(d)
  BY <1>1, DropInv DEF IInv, TypeOK
<1>2. CASE ~ Drop(d)
  <2> DEFINE s == repoOf[pr[d]]
  <2>1. /\ pc' = [pc EXCEPT ![d] = "queued"] /\ cfg' = [cfg EXCEPT ![d] = c]
        /\ got' = [got EXCEPT ![d] = None] /\ UNCHANGED <<pr, open, busy, seen>>
        /\ queue' = [queue EXCEPT ![s] = Append(@, d)]
    BY <1>2 DEF Handle
  <2>2. pr[d] \in PRs /\ s \in Repos
    BY DuneBotAssumption DEF IInv, Placed
  <2>3. TypeOK'
    <3>1. queue' \in [Repos -> Seq(Slots)]
      BY <2>1, <2>2 DEF IInv, TypeOK
    <3>2. /\ cfg' \in [Slots -> Configs \cup {None}]
          /\ \A e \in Slots : pc'[e] \in {"queued", "review"} => cfg'[e] \in Configs
      BY <2>1 DEF IInv, TypeOK
    <3> QED BY <2>1, <3>1, <3>2 DEF IInv, TypeOK, github
  <2>4. Placed'
    <3>1. \A r \in Repos : queue[r] \in Seq(Slots)
      BY DEF IInv, TypeOK
    <3>2. \A r \in Repos : \A i \in 1 .. Len(queue[r]) : queue[r][i] \in Slots \ {d}
      BY <3>1 DEF IInv, Placed
    <3>3. \A e \in Slots \ {d} : pc'[e] = pc[e]
      BY <2>1 DEF IInv, TypeOK
    <3>4. pc'[d] = "queued"
      BY <2>1 DEF IInv, TypeOK
    <3>5. \A r \in Repos \ {s} : queue'[r] = queue[r]
      BY <2>1 DEF IInv, TypeOK
    <3>6. /\ Len(queue'[s]) = Len(queue[s]) + 1 /\ queue'[s][Len(queue[s]) + 1] = d
          /\ \A i \in 1 .. Len(queue[s]) : queue'[s][i] = queue[s][i]
          /\ Len(queue[s]) \in Nat
      BY <2>1, <2>2, <3>1 DEF IInv, TypeOK
    <3>7. \A r \in Repos : busy[r] # None => busy[r] \in Slots \ {d}
      BY DEF IInv, TypeOK, Placed
    <3>8. \A r \in Repos : \A i \in 1 .. Len(queue'[r]) :
            pc'[queue'[r][i]] = "queued" /\ repoOf[pr[queue'[r][i]]] = r
      <4> SUFFICES ASSUME NEW r \in Repos, NEW i \in 1 .. Len(queue'[r])
                   PROVE  pc'[queue'[r][i]] = "queued" /\ repoOf[pr[queue'[r][i]]] = r
        OBVIOUS
      <4>1. CASE r # s
        BY <4>1, <3>2, <3>3, <3>5 DEF IInv, Placed
      <4>2. CASE r = s /\ i = Len(queue[s]) + 1
        BY <4>2, <3>4, <3>6
      <4>3. CASE r = s /\ i \in 1 .. Len(queue[s])
        <5>1. queue'[r][i] = queue[r][i] /\ queue[r][i] \in Slots \ {d}
          BY <4>3, <3>2, <3>6
        <5>2. pc[queue[r][i]] = "queued" /\ repoOf[pr[queue[r][i]]] = r
          BY <4>3 DEF IInv, Placed
        <5> QED BY <5>1, <5>2, <3>3
      <4> QED BY <4>1, <4>2, <4>3, <3>6
    <3>9. \A r \in Repos : \A i, j \in 1 .. Len(queue'[r]) : queue'[r][i] = queue'[r][j] => i = j
      <4> SUFFICES ASSUME NEW r \in Repos, NEW i \in 1 .. Len(queue'[r]),
                          NEW j \in 1 .. Len(queue'[r]), queue'[r][i] = queue'[r][j]
                   PROVE  i = j
        OBVIOUS
      <4>1. CASE r # s
        BY <4>1, <3>5 DEF IInv, Placed
      <4>2. CASE r = s
        <5>1. i \in 1 .. Len(queue[s]) \/ i = Len(queue[s]) + 1
          BY <4>2, <3>6
        <5>2. j \in 1 .. Len(queue[s]) \/ j = Len(queue[s]) + 1
          BY <4>2, <3>6
        <5>3. \A k, l \in 1 .. Len(queue[s]) : queue[s][k] = queue[s][l] => k = l
          BY <2>2 DEF IInv, Placed
        <5>4. \A k \in 1 .. Len(queue[s]) : queue[s][k] # d
          BY <2>2, <3>2
        <5> QED BY <4>2, <5>1, <5>2, <5>3, <5>4, <3>6
      <4> QED BY <4>1, <4>2
    <3>10. \A e \in Slots : pc'[e] # "free" => pr[e] \in PRs
      BY <2>2, <3>3 DEF IInv, Placed
    <3> QED BY <2>1, <3>3, <3>7, <3>8, <3>9, <3>10 DEF IInv, Placed
  <2>5. /\ pc'[d] = "queued" /\ cfg'[d] = c
        /\ \A e \in Slots \ {d} : pc'[e] = pc[e] /\ cfg'[e] = cfg[e] /\ got'[e] = got[e]
    BY <2>1 DEF IInv, TypeOK
  <2>6. NowIsSeen' /\ FirstIsSeen'
    BY <2>1, <2>5 DEF IInv, NowIsSeen, FirstIsSeen, github
  <2>7. LoadedIsSeen'
    <3> SUFFICES ASSUME NEW e \in Slots, pc'[e] \in {"queued", "review"}
                 PROVE  Faithful(cfg'[e], pr[e], seen[e])
      BY <2>1 DEF LoadedIsSeen
    <3>1. CASE e = d
      BY <2>5, <3>1
    <3>2. CASE e # d
      BY <2>5, <3>2 DEF IInv, LoadedIsSeen
    <3> QED BY <3>1, <3>2
  <2> QED BY <2>3, <2>4, <2>6, <2>7 DEF IInv
<1> QED BY <1>1, <1>2

\* The calls of LoadConfig give the handler what files that the event has seen say.
LEMMA LoadInv ==
  ASSUME IInv, NEW d \in Slots, Step(d)
  PROVE  IInv'
<1> DEFINE r == repoOf[pr[d]]
           p == pr[d]
           f == Config(r)
           org == AtRef(r)
<1>1. /\ p \in PRs /\ r \in Repos /\ f \in Contents \cup {None} /\ org \in Contents \cup {None}
      /\ None \notin Contents /\ Null \notin Contents
      /\ file[r] \in seen[d].own /\ orgFile \in seen[d].org
  <2>1. pc[d] \in {"load", "global"}
    BY DEF Step, LoadConfig, LoadGlobalConfig
  <2>2. p \in PRs
    BY <2>1 DEF IInv, Placed
  <2>3. file[r] \in seen[d].own /\ orgFile \in seen[d].org
    BY <2>1 DEF IInv, NowIsSeen
  <2> QED BY <2>2, <2>3, FilesAreContents, DuneBotAssumption DEF IInv
<1>2. CASE LoadConfig(d)
  <2>1. CASE f = None
    BY <1>2, <2>1, DropInv DEF LoadConfig, IInv, TypeOK
  <2>2. CASE f # None /\ f.mode \in {"original", "merge"}
    <3>1. /\ pc[d] = "load" /\ pc' = [pc EXCEPT ![d] = "global"]
          /\ got' = [got EXCEPT ![d] = f]
          /\ UNCHANGED <<github, pr, open, cfg, queue, busy, trouble, seen>>
      BY <1>2, <2>2 DEF LoadConfig
    <3>2. f \in Files \cup OrgFiles
      BY <1>1, DuneBotAssumption DEF Config, IInv, TypeOK
    <3>3. TypeOK'
      BY <3>1, <3>2 DEF IInv, TypeOK, github
    <3>4. pc'[d] = "global" /\ got'[d] = f
          /\ \A e \in Slots \ {d} : pc'[e] = pc[e] /\ got'[e] = got[e]
      BY <3>1 DEF IInv, TypeOK
    <3>5. Placed'
      <4>1. \A s \in Repos : \A i \in 1 .. Len(queue[s]) : queue[s][i] \in Slots \ {d}
        BY <3>1 DEF IInv, TypeOK, Placed
      <4>2. \A s \in Repos : busy[s] # None => busy[s] \in Slots \ {d}
        BY <3>1 DEF IInv, TypeOK, Placed
      <4> QED BY <1>1, <3>1, <3>4, <4>1, <4>2 DEF IInv, Placed
    <3>6. NowIsSeen'
      BY <3>1, <3>4 DEF IInv, NowIsSeen, github
    <3>7. FirstIsSeen'
      <4>1. f = First(file[r], orgFile)
        BY DEF First, Config
      <4> QED BY <1>1, <2>2, <3>1, <3>4, <4>1 DEF IInv, FirstIsSeen
    <3>8. LoadedIsSeen'
      BY <3>1, <3>4 DEF IInv, LoadedIsSeen
    <3> QED BY <3>3, <3>5, <3>6, <3>7, <3>8 DEF IInv
  <2>3. CASE f # None /\ f.mode = "override"
    <3>1. Faithful(Unmarshal(f), p, seen[d])
      <4> SUFFICES ASSUME In(f.approve, p), In(f.merge, p)
                   PROVE  \E own \in seen[d].own, g \in seen[d].org, h \in seen[d].org :
                            Accepts(p, own, g, h)
        BY DEF Faithful, Unmarshal
      <4>1. /\ Allowed(At(f, "approve"), At(None, "approve"), p)
            /\ Allowed(At(f, "merge"), At(None, "merge"), p)
        BY <1>1, <2>3, ContentsAllow
      <4>2. Accepts(p, file[r], orgFile, orgFile)
        BY <2>3, <4>1 DEF Accepts, Config
      <4> QED BY <1>1, <4>2
    <3>2. Unmarshal(f) \in Configs
      BY <1>1, <2>3, ConfigsAreMade
    <3>3. Handle(d, Unmarshal(f)) /\ pc[d] = "load" /\ UNCHANGED <<github, trouble>>
      BY <1>2, <2>3 DEF LoadConfig
    <3> QED BY <3>1, <3>2, <3>3, HandleInv
  <2>4. f # None => f.mode \in Modes
    BY <1>1 DEF Contents
  <2> QED BY <2>1, <2>2, <2>3, <2>4 DEF Modes
<1>3. CASE LoadGlobalConfig(d)
  <2>1. /\ pc[d] = "global" /\ UNCHANGED <<github, trouble>> /\ got[d] \in Contents
    BY <1>3 DEF LoadGlobalConfig, IInv, FirstIsSeen
  <2>2. PICK own \in seen[d].own, g \in seen[d].org : got[d] = First(own, g)
    BY <2>1 DEF IInv, FirstIsSeen
  <2>3. CASE got[d].mode = "original" /\ org = None
    <3>1. Handle(d, EmptyConfig)
      BY <1>3, <2>3 DEF LoadGlobalConfig
    <3>2. Faithful(EmptyConfig, p, seen[d])
      BY DEF Faithful, EmptyConfig, In, IsMap
    <3> QED BY <2>1, <3>1, <3>2, HandleInv, ConfigsAreMade
  <2>4. CASE got[d].mode = "original" /\ org # None
    <3>1. Handle(d, Unmarshal(org))
      BY <1>3, <2>4 DEF LoadGlobalConfig
    <3>2. Faithful(Unmarshal(org), p, seen[d])
      <4> SUFFICES ASSUME In(org.approve, p), In(org.merge, p)
                   PROVE  \E x \in seen[d].own, y \in seen[d].org, h \in seen[d].org :
                            Accepts(p, x, y, h)
        BY DEF Faithful, Unmarshal
      <4>1. /\ Allowed(At(org, "approve"), At(None, "approve"), p)
            /\ Allowed(At(org, "merge"), At(None, "merge"), p)
        BY <1>1, <2>4, ContentsAllow
      <4>2. Accepts(p, own, g, orgFile)
        BY <1>1, <2>1, <2>2, <2>4, <4>1 DEF Accepts, First, AtRef
      <4> QED BY <1>1, <2>2, <4>2
    <3>3. Unmarshal(org) \in Configs
      BY <1>1, <2>4, ConfigsAreMade
    <3> QED BY <2>1, <3>1, <3>2, <3>3, HandleInv
  <2>5. CASE got[d].mode = "merge"
    <3> DEFINE c == Merge(org, got[d])
    <3>1. Handle(d, c)
      BY <1>3, <2>5 DEF LoadGlobalConfig
    <3>2. Faithful(c, p, seen[d])
      <4> SUFFICES ASSUME In(c.approve, p), In(c.merge, p)
                   PROVE  \E x \in seen[d].own, y \in seen[d].org, h \in seen[d].org :
                            Accepts(p, x, y, h)
        BY DEF Faithful
      <4>1. /\ Allowed(At(got[d], "approve"), At(org, "approve"), p)
            /\ Allowed(At(got[d], "merge"), At(org, "merge"), p)
        BY <1>1, <2>1, ContentsAllow
      <4>2. Accepts(p, own, g, orgFile)
        BY <1>1, <2>1, <2>2, <2>5, <4>1 DEF Accepts, First, AtRef
      <4> QED BY <1>1, <2>2, <4>2
    <3>3. c \in Configs
      BY <1>1, <2>1, ConfigsAreMade
    <3> QED BY <2>1, <3>1, <3>2, <3>3, HandleInv
  <2> QED BY <1>3, <2>3, <2>4, <2>5 DEF LoadGlobalConfig
<1> QED BY <1>2, <1>3 DEF Step

\* A new event takes a free slot.
LEMMA DeliverInv ==
  ASSUME IInv, NEW p \in PRs, NEW d \in Slots, Deliver(p, d)
  PROVE  IInv'
<1>1. /\ pc[d] = "free" /\ pc' = [pc EXCEPT ![d] = "load"] /\ pr' = [pr EXCEPT ![d] = p]
      /\ seen' = [seen EXCEPT ![d] = [own |-> {file[repoOf[p]]}, org |-> {orgFile}]]
      /\ UNCHANGED <<github, got, cfg, queue, busy, trouble>>
  BY DEF Deliver
<1>2. TypeOK'
  <2>1. file[repoOf[p]] \in Files
    BY DuneBotAssumption DEF IInv, TypeOK
  <2>2. seen' \in [Slots -> [own : SUBSET Files, org : SUBSET [Refs -> OrgFiles]]]
    BY <1>1, <2>1 DEF IInv, TypeOK
  <2> QED BY <2>2 DEF Deliver, Open, IInv, TypeOK, github
<1>3. \A e \in Slots \ {d} : pc'[e] = pc[e] /\ pr'[e] = pr[e] /\ seen'[e] = seen[e]
  BY <1>1 DEF IInv, TypeOK
<1>4. pc'[d] = "load" /\ pr'[d] = p /\ file[repoOf[p]] \in seen'[d].own /\ orgFile \in seen'[d].org
  BY <1>1 DEF IInv, TypeOK
<1>5. Placed'
  <2>1. \A r \in Repos : \A i \in 1 .. Len(queue[r]) : queue[r][i] \in Slots \ {d}
    BY <1>1 DEF IInv, TypeOK, Placed
  <2>2. \A r \in Repos : busy[r] # None => busy[r] \in Slots \ {d}
    BY <1>1 DEF IInv, TypeOK, Placed
  <2> QED BY <1>1, <1>3, <1>4, <2>1, <2>2 DEF IInv, Placed
<1>6. NowIsSeen' /\ FirstIsSeen'
  BY <1>1, <1>3, <1>4 DEF IInv, NowIsSeen, FirstIsSeen, github
<1>7. LoadedIsSeen'
  BY <1>1, <1>3, <1>4 DEF IInv, LoadedIsSeen
<1> QED BY <1>2, <1>5, <1>6, <1>7 DEF IInv

\* The worker of a repository takes the first event, and no other place has it.
LEMMA ReceiveInv ==
  ASSUME IInv, NEW r \in Repos, Receive(r)
  PROVE  IInv'
<1> DEFINE d == Head(queue[r])
<1>1. /\ busy[r] = None /\ queue[r] # <<>> /\ busy' = [busy EXCEPT ![r] = d]
      /\ queue' = [queue EXCEPT ![r] = Tail(@)] /\ pc' = [pc EXCEPT ![d] = "review"]
      /\ UNCHANGED <<github, pr, open, got, cfg, trouble, seen>>
  BY DEF Receive
<1>2. \A s \in Repos : queue[s] \in Seq(Slots) /\ Len(queue[s]) \in Nat
  BY DEF IInv, TypeOK
<1>3. /\ 1 \in 1 .. Len(queue[r]) /\ d = queue[r][1] /\ d \in Slots
      /\ Tail(queue[r]) \in Seq(Slots) /\ Len(Tail(queue[r])) = Len(queue[r]) - 1
      /\ \A i \in 1 .. Len(queue[r]) - 1 : Tail(queue[r])[i] = queue[r][i + 1]
  BY <1>1, <1>2
<1>4. pc[d] = "queued" /\ repoOf[pr[d]] = r
  BY <1>3 DEF IInv, Placed
<1>5. cfg[d] \in Configs
  BY <1>3, <1>4 DEF IInv, TypeOK
<1>6. /\ pc'[d] = "review" /\ \A e \in Slots \ {d} : pc'[e] = pc[e]
      /\ busy'[r] = d /\ \A s \in Repos \ {r} : busy'[s] = busy[s] /\ queue'[s] = queue[s]
      /\ queue'[r] = Tail(queue[r])
  BY <1>1, <1>3 DEF IInv, TypeOK
<1>7. TypeOK'
  BY <1>1, <1>3, <1>5 DEF IInv, TypeOK, github
<1>8. Placed'
  <2>1. \A e \in Slots : pc'[e] # "free" => pr[e] \in PRs
    BY <1>4, <1>6 DEF IInv, Placed
  <2>2. \A s \in Repos : busy'[s] # None => pc'[busy'[s]] = "review" /\ repoOf[pr[busy'[s]]] = s
    <3>1. \A s \in Repos \ {r} : busy[s] # None => busy[s] \in Slots \ {d}
      BY <1>4 DEF IInv, TypeOK, Placed
    <3> QED BY <1>4, <1>6, <3>1 DEF IInv, Placed
  <2>3. ASSUME NEW s \in Repos \ {r}, NEW i \in 1 .. Len(queue'[s])
        PROVE  pc'[queue'[s][i]] = "queued" /\ repoOf[pr[queue'[s][i]]] = s
    <3>1. queue'[s] = queue[s] /\ i \in 1 .. Len(queue[s]) /\ queue[s][i] \in Slots
      BY <1>2, <1>6
    <3>2. pc[queue[s][i]] = "queued" /\ repoOf[pr[queue[s][i]]] = s
      BY <3>1 DEF IInv, Placed
    <3> QED BY <1>4, <1>6, <3>1, <3>2
  <2>4. ASSUME NEW i \in 1 .. Len(queue'[r])
        PROVE  pc'[queue'[r][i]] = "queued" /\ repoOf[pr[queue'[r][i]]] = r
    <3>1. /\ i \in 1 .. Len(queue[r]) - 1 /\ i + 1 \in 1 .. Len(queue[r])
          /\ queue'[r][i] = queue[r][i + 1] /\ i + 1 # 1
      BY <1>2, <1>3, <1>6
    <3>2. queue[r][i + 1] \in Slots
      BY <1>2, <3>1
    <3>3. queue[r][i + 1] # d
      BY <1>3, <3>1 DEF IInv, Placed
    <3>4. pc[queue[r][i + 1]] = "queued" /\ repoOf[pr[queue[r][i + 1]]] = r
      BY <3>1 DEF IInv, Placed
    <3> QED BY <1>6, <3>1, <3>2, <3>3, <3>4
  <2>5. ASSUME NEW s \in Repos, NEW i \in 1 .. Len(queue'[s]), NEW j \in 1 .. Len(queue'[s]),
               queue'[s][i] = queue'[s][j]
        PROVE  i = j
    <3>1. CASE s # r
      BY <1>6, <2>5, <3>1 DEF IInv, Placed
    <3>2. CASE s = r
      <4>1. /\ i + 1 \in 1 .. Len(queue[r]) /\ j + 1 \in 1 .. Len(queue[r])
            /\ queue[r][i + 1] = queue[r][j + 1]
        <5>1. i \in 1 .. Len(queue[r]) - 1 /\ j \in 1 .. Len(queue[r]) - 1
          BY <1>3, <1>6, <3>2
        <5>2. queue[r][i + 1] = queue[r][j + 1]
          BY <1>3, <1>6, <2>5, <3>2, <5>1
        <5> QED BY <1>2, <5>1, <5>2
      <4>2. i + 1 = j + 1
        BY <4>1 DEF IInv, Placed
      <4> QED BY <4>2, <1>2, <1>3, <1>6, <3>2
    <3> QED BY <3>1, <3>2
  <2>6. \A s \in Repos : \A i \in 1 .. Len(queue'[s]) :
          pc'[queue'[s][i]] = "queued" /\ repoOf[pr[queue'[s][i]]] = s
    BY <2>3, <2>4
  <2>7. pr' = pr
    BY <1>1
  <2> QED BY <2>1, <2>2, <2>5, <2>6, <2>7 DEF Placed
<1>9. NowIsSeen' /\ FirstIsSeen' /\ LoadedIsSeen'
  <2>1. NowIsSeen' /\ FirstIsSeen'
    BY <1>1, <1>3, <1>4, <1>6 DEF IInv, NowIsSeen, FirstIsSeen, github
  <2>2. LoadedIsSeen'
    BY <1>1, <1>3, <1>4, <1>6 DEF IInv, LoadedIsSeen
  <2> QED BY <2>1, <2>2
<1> QED BY <1>7, <1>8, <1>9 DEF IInv

\* A review frees its slot and its repository, whatever comes of it.
LEMMA ReviewInv ==
  ASSUME IInv, NEW r \in Repos, Review(r)
  PROVE  IInv'
<1> DEFINE d == busy[r]
<1>1. /\ d # None /\ Free(d) /\ busy' = [busy EXCEPT ![r] = None]
      /\ UNCHANGED <<file, orgFile, edits, queue>>
  BY DEF Review
<1>2. d \in Slots /\ pc[d] = "review" /\ repoOf[pr[d]] = r /\ pr[d] \in PRs
  BY <1>1 DEF IInv, TypeOK, Placed
<1>3. /\ state' \in [PRs -> {"open", "ready", "merged", "closed"}]
      /\ trouble' \in 0 .. MaxTrouble
  <2>1. \/ state' = [state EXCEPT ![pr[d]] = "merged"] /\ UNCHANGED trouble
        \/ UNCHANGED <<state, trouble>>
        \/ Trouble /\ UNCHANGED state
    BY DEF Review
  <2>2. state' \in [PRs -> {"open", "ready", "merged", "closed"}]
    BY <1>2, <2>1 DEF IInv, TypeOK
  <2>3. trouble' \in 0 .. MaxTrouble
    BY <2>1, DuneBotAssumption DEF IInv, TypeOK, Trouble
  <2> QED BY <2>2, <2>3
<1>4. TypeOK'
  <2>1. seen' \in [Slots -> [own : SUBSET Files, org : SUBSET [Refs -> OrgFiles]]]
    BY <1>1 DEF IInv, TypeOK, Free, NothingSeen
  <2> QED BY <1>1, <1>2, <1>3, <2>1 DEF IInv, TypeOK, Free
<1>5. /\ pc'[d] = "free" /\ busy'[r] = None
      /\ \A e \in Slots \ {d} : /\ pc'[e] = pc[e] /\ pr'[e] = pr[e] /\ got'[e] = got[e]
                                /\ cfg'[e] = cfg[e] /\ seen'[e] = seen[e]
      /\ \A s \in Repos \ {r} : busy'[s] = busy[s]
  BY <1>1, <1>2 DEF IInv, TypeOK, Free
<1>6. Placed'
  <2>1. \A s \in Repos : \A i \in 1 .. Len(queue[s]) : queue[s][i] \in Slots \ {d}
    BY <1>2 DEF IInv, TypeOK, Placed
  <2>2. \A s \in Repos \ {r} : busy[s] # None => busy[s] \in Slots \ {d}
    BY <1>2 DEF IInv, TypeOK, Placed
  <2> QED BY <1>1, <1>5, <2>1, <2>2 DEF IInv, Placed
<1>7. NowIsSeen' /\ FirstIsSeen' /\ LoadedIsSeen'
  <2>1. NowIsSeen' /\ FirstIsSeen'
    BY <1>1, <1>5 DEF IInv, NowIsSeen, FirstIsSeen
  <2>2. LoadedIsSeen'
    BY <1>1, <1>5 DEF IInv, LoadedIsSeen
  <2> QED BY <2>1, <2>2
<1> QED BY <1>4, <1>6, <1>7 DEF IInv

\* A file is edited: every event that is under way has seen it before and after.
LEMMA EditInv ==
  ASSUME IInv, SeeFiles, UNCHANGED <<state, process, trouble>>,
         file' \in [Repos -> Files], orgFile' \in [Refs -> OrgFiles], edits' \in 0 .. MaxEdits
  PROVE  IInv'
<1>1. pc' = pc /\ pr' = pr /\ got' = got /\ cfg' = cfg /\ queue' = queue /\ busy' = busy
  BY DEF process
<1>2. ASSUME NEW d \in Slots, pc[d] # "free"
      PROVE  /\ file'[repoOf[pr[d]]] \in seen'[d].own /\ orgFile' \in seen'[d].org
             /\ seen[d].own \subseteq seen'[d].own /\ seen[d].org \subseteq seen'[d].org
             /\ seen'[d] \in [own : SUBSET Files, org : SUBSET [Refs -> OrgFiles]]
  <2>1. seen'[d] = [own |-> seen[d].own \cup {file'[repoOf[pr[d]]]},
                    org |-> seen[d].org \cup {orgFile'}]
    BY <1>2 DEF SeeFiles
  <2>2. file'[repoOf[pr[d]]] \in Files
    BY <1>2, DuneBotAssumption DEF IInv, Placed
  <2>3. seen[d].own \subseteq Files /\ seen[d].org \subseteq [Refs -> OrgFiles]
    BY DEF IInv, TypeOK
  <2> QED BY <2>1, <2>2, <2>3
<1>3. TypeOK'
  <2>1. \A d \in Slots : pc[d] = "free" => seen'[d] = seen[d]
    BY DEF SeeFiles
  <2>2. \A d \in Slots : seen[d] \in [own : SUBSET Files, org : SUBSET [Refs -> OrgFiles]]
    BY DEF IInv, TypeOK
  <2>3. \A d \in Slots : seen'[d] \in [own : SUBSET Files, org : SUBSET [Refs -> OrgFiles]]
    BY <1>2, <2>1, <2>2
  <2>4. seen' \in [Slots -> [own : SUBSET Files, org : SUBSET [Refs -> OrgFiles]]]
    BY <2>3 DEF SeeFiles
  <2> QED BY <2>4 DEF IInv, TypeOK, process
<1>4. Placed'
  BY <1>1 DEF IInv, Placed
<1>5. NowIsSeen'
  BY <1>1, <1>2 DEF NowIsSeen
<1>6. FirstIsSeen'
  <2> SUFFICES ASSUME NEW d \in Slots, pc[d] = "global"
               PROVE  /\ got[d] \in Contents /\ got[d].mode \in {"original", "merge"}
                      /\ \E own \in seen'[d].own, g \in seen'[d].org : got[d] = First(own, g)
    BY <1>1 DEF FirstIsSeen
  <2>1. seen[d].own \subseteq seen'[d].own /\ seen[d].org \subseteq seen'[d].org
    BY <1>2
  <2> QED BY <2>1 DEF IInv, FirstIsSeen
<1>7. LoadedIsSeen'
  <2> SUFFICES ASSUME NEW d \in Slots, pc[d] \in {"queued", "review"}
               PROVE  Faithful(cfg[d], pr[d], seen'[d])
    BY <1>1 DEF LoadedIsSeen
  <2>1. Faithful(cfg[d], pr[d], seen[d])
    BY DEF IInv, LoadedIsSeen
  <2>2. seen[d].own \subseteq seen'[d].own /\ seen[d].org \subseteq seen'[d].org
    BY <1>2
  <2> QED BY <2>1, <2>2, FaithfulGrows
<1> QED BY <1>3, <1>4, <1>5, <1>6, <1>7 DEF IInv

\* Every step keeps the invariant.
LEMMA StepInv == IInv /\ [Next]_vars => IInv'
<1> SUFFICES ASSUME IInv, [Next]_vars PROVE IInv'
  OBVIOUS
<1>1. ASSUME NEW p \in PRs, NEW d \in Slots, Deliver(p, d) PROVE IInv'
  BY <1>1, DeliverInv
<1>2. ASSUME NEW d \in Slots, Step(d) PROVE IInv'
  BY <1>2, LoadInv
<1>3. ASSUME NEW d \in Slots, LoadFails(d) PROVE IInv'
  <2>1. trouble' \in 0 .. MaxTrouble
    BY <1>3, DuneBotAssumption DEF LoadFails, Trouble, IInv, TypeOK
  <2> QED BY <1>3, <2>1, DropInv DEF LoadFails
<1>4. ASSUME NEW r \in Repos, Work(r) PROVE IInv'
  BY <1>4, ReceiveInv, ReviewInv DEF Work
<1>5. ASSUME NEW r \in Repos, NEW f \in Files, Edit(r, f) PROVE IInv'
  <2>1. file' \in [Repos -> Files] /\ orgFile' \in [Refs -> OrgFiles] /\ edits' \in 0 .. MaxEdits
    BY <1>5, DuneBotAssumption DEF Edit, IInv, TypeOK
  <2> QED BY <1>5, <2>1, EditInv DEF Edit
<1>6. ASSUME NEW b \in Refs, NEW f \in OrgFiles, EditOrg(b, f) PROVE IInv'
  <2>1. file' \in [Repos -> Files] /\ orgFile' \in [Refs -> OrgFiles] /\ edits' \in 0 .. MaxEdits
    BY <1>6, DuneBotAssumption DEF EditOrg, IInv, TypeOK
  <2> QED BY <1>6, <2>1, EditInv DEF EditOrg
<1>7. ASSUME NEW p \in PRs, Favour(p) \/ Abandon(p) PROVE IInv'
  <2>1. UNCHANGED <<file, orgFile, process, trouble, seen>> /\ edits' \in 0 .. MaxEdits
    BY <1>7, DuneBotAssumption DEF Favour, Abandon, IInv, TypeOK
  <2>2. TypeOK'
    BY <1>7, <2>1 DEF Favour, Abandon, IInv, TypeOK, process
  <2>3. Placed' /\ NowIsSeen' /\ FirstIsSeen'
    BY <2>1 DEF IInv, Placed, NowIsSeen, FirstIsSeen, process
  <2>4. LoadedIsSeen'
    BY <2>1 DEF IInv, LoadedIsSeen, process
  <2> QED BY <2>2, <2>3, <2>4 DEF IInv
<1>8. ASSUME Crash PROVE IInv'
  <2>1. TypeOK'
    BY <1>8, DuneBotAssumption DEF Crash, Trouble, IInv, TypeOK, github, NothingSeen
  <2>2. Placed' /\ NowIsSeen' /\ FirstIsSeen' /\ LoadedIsSeen'
    BY <1>8 DEF Crash, Placed, NowIsSeen, FirstIsSeen, LoadedIsSeen
  <2> QED BY <2>1, <2>2 DEF IInv
<1>9. ASSUME UNCHANGED vars PROVE IInv'
  <2>1. TypeOK'
    BY <1>9 DEF vars, github, process, IInv, TypeOK
  <2>2. Placed' /\ NowIsSeen' /\ FirstIsSeen'
    BY <1>9 DEF vars, github, process, IInv, Placed, NowIsSeen, FirstIsSeen
  <2>3. LoadedIsSeen'
    BY <1>9 DEF vars, process, IInv, LoadedIsSeen
  <2> QED BY <2>1, <2>2, <2>3 DEF IInv
<1> QED BY <1>1, <1>2, <1>3, <1>4, <1>5, <1>6, <1>7, <1>8, <1>9 DEF Next

\* The invariant holds in every reachable state.
LEMMA Invariance == Spec => []IInv
<1>1. Init => IInv
  BY InitInv
<1>2. IInv /\ [Next]_vars => IInv'
  BY StepInv
<1> QED BY <1>1, <1>2, PTL DEF Spec

-----------------------------------------------------------------------------
(* What follows from it                                                       *)

\* The variables keep their types, and what waits for a review or is under one
\* has a configuration.
THEOREM TypeCorrect == Spec => []TypeOK
<1>1. IInv => TypeOK
  BY DEF IInv
<1> QED BY <1>1, Invariance, PTL

\* What is merged is ready, and files that were in force since its event came in
\* accept it, whatever was edited between the steps of the event.
THEOREM AsConfigured == Spec => MergedAsConfigured
<1> DEFINE A == \A p \in PRs : state[p] # "merged" /\ state'[p] = "merged" =>
                  LET s == seen[busy[repoOf[p]]] IN
                  /\ state[p] = "ready"
                  /\ \E own \in s.own, g \in s.org, h \in s.org : Accepts(p, own, g, h)
<1>1. IInv /\ [Next]_vars => [A]_vars
  <2> DEFINE s(p) == seen[busy[repoOf[p]]]
  <2> SUFFICES ASSUME IInv, Next, NEW p \in PRs, state[p] # "merged", state'[p] = "merged"
               PROVE  /\ state[p] = "ready"
                      /\ \E own \in s(p).own, g \in s(p).org, h \in s(p).org : Accepts(p, own, g, h)
    BY DEF vars
  <2>1. PICK r \in Repos : Review(r)
    BY DEF Next, IInv, TypeOK, Deliver, Step, LoadConfig, LoadGlobalConfig, LoadFails, Work,
           Receive, Edit, EditOrg, Favour, Abandon, Crash, github
  <2> DEFINE d == busy[r]
  <2>2. d # None /\ d \in Slots /\ pc[d] = "review" /\ repoOf[pr[d]] = r
    BY <2>1 DEF Review, IInv, TypeOK, Placed
  <2>3. /\ pr[d] = p /\ state[p] = "ready" /\ In(cfg[d].approve, p) /\ In(cfg[d].merge, p)
    BY <2>1 DEF Review, IInv, TypeOK
  <2>4. Faithful(cfg[d], p, seen[d])
    BY <2>2, <2>3 DEF IInv, LoadedIsSeen
  <2> QED BY <2>2, <2>3, <2>4 DEF Faithful
<1> QED BY <1>1, Invariance, PTL DEF Spec, MergedAsConfigured
=============================================================================
