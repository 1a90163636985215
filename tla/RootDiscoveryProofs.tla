------------------------- MODULE RootDiscoveryProofs -------------------------
(***************************************************************************)
(* Proofs about RootDiscovery, for every directory tree, every ancestor    *)
(* cap, every configured root list and every placement of tier            *)
(* directories.  The recursive function of Up and the minima taken by      *)
(* AncestorCount and FirstCall are handled by least-counterexample        *)
(* arguments on the well-ordering of Nat (WFMin).                          *)
(***************************************************************************)
EXTENDS RootDiscovery, WellFoundedInduction, SequenceTheorems, TLAPS

(***************************************************************************)
(* Lemmas about the operators.                                             *)
(***************************************************************************)

\* Every non-empty set of naturals has a least element.
LEMMA LeastExists ==
    \A S \in SUBSET Nat : S # {} => \E m \in S : \A j \in S : m <= j
<1> SUFFICES ASSUME NEW S \in SUBSET Nat, S # {}
             PROVE  \E m \in S : \A j \in S : m <= j
    OBVIOUS
<1>1. PICK m \in S : \A j \in S : ~ (<<j, m>> \in OpToRel(<, Nat))
    BY NatLessThanWellFounded, WFMin
<1>2. \A j \in S : ~ (<<j, m>> \in OpToRel(<, Nat)) => m <= j
    BY DEF OpToRel
<1>3. QED
    BY <1>1, <1>2

\* FirstCall of a non-empty set of naturals is its least element, and the
\* only element below or equal to all others.
LEMMA FirstCallFacts ==
    ASSUME NEW S \in SUBSET Nat, S # {}
    PROVE  /\ FirstCall(S) \in S
           /\ \A j \in S : FirstCall(S) <= j
           /\ \A m \in S : (\A j \in S : m <= j) => FirstCall(S) = m
<1>1. FirstCall(S) \in S /\ \A j \in S : FirstCall(S) <= j
    BY LeastExists DEF FirstCall
<1>2. ASSUME NEW m \in S, \A j \in S : m <= j
      PROVE  FirstCall(S) = m
  <2>1. FirstCall(S) \in Nat /\ FirstCall(S) <= m /\ m <= FirstCall(S)
      BY <1>1, <1>2
  <2>2. QED
      BY <2>1
<1>3. QED
    BY <1>1, <1>2

\* The recursion of Up: a function on 0..k that starts at d and steps by
\* Parent exists for every k, and every such function stays in Dirs.
UpEq(g, d, k) == g = [i \in 0 .. k |-> IF i = 0 THEN d ELSE Parent[g[i - 1]]]

LEMMA UpExists ==
    ASSUME NEW d \in Dirs, NEW k \in Nat
    PROVE  \E g : UpEq(g, d, k)
<1> DEFINE T == {n \in Nat : ~ \E g : UpEq(g, d, n)}
<1> SUFFICES T = {}
    OBVIOUS
<1>1. SUFFICES ASSUME T # {} PROVE FALSE
    OBVIOUS
<1>2. PICK m \in T : \A j \in T : m <= j
    BY <1>1, LeastExists
<1>3. m # 0
  <2>1. UpEq([i \in 0 .. 0 |-> d], d, 0)
      BY DEF UpEq
  <2>2. QED
      BY <2>1, <1>2
<1>4. PICK g : UpEq(g, d, m - 1)
    BY <1>2, <1>3
<1> DEFINE h == [i \in 0 .. m |-> IF i = 0 THEN d ELSE Parent[g[i - 1]]]
<1>5. \A i \in 0 .. m - 1 : h[i] = g[i]
    BY <1>3, <1>4 DEF UpEq
<1>6. UpEq(h, d, m)
  <2>1. m \in Nat \ {0}
      BY <1>3
  <2>2. \A i \in 0 .. m : h[i] = IF i = 0 THEN d ELSE Parent[h[i - 1]]
    <3> TAKE i \in 0 .. m
    <3>1. CASE i = 0
        BY <3>1
    <3>2. CASE i # 0
      <4>1. i - 1 \in 0 .. m - 1 /\ h[i] = Parent[g[i - 1]]
          BY <2>1, <3>2
      <4>2. QED
          BY <4>1, <3>2, <1>5
    <3>3. QED
        BY <3>1, <3>2
  <2>3. QED
      BY <2>2 DEF UpEq
<1>7. QED
    BY <1>2, <1>6

LEMMA UpType ==
    ASSUME NEW d \in Dirs, NEW k \in Nat
    PROVE  Up(d, k) \in Dirs
<1> DEFINE f == CHOOSE g : UpEq(g, d, k)
<1>1. UpEq(f, d, k)
    BY UpExists
<1> DEFINE T == {i \in 0 .. k : f[i] \notin Dirs}
<1>2. T = {}
  <2>1. SUFFICES ASSUME T # {} PROVE FALSE
      OBVIOUS
  <2>2. PICK m \in T : \A j \in T : m <= j
    <3>1. T \in SUBSET Nat
        OBVIOUS
    <3>2. QED
        BY <2>1, <3>1, LeastExists
  <2>3. m # 0
      BY <1>1 DEF UpEq
  <2>4. f[m - 1] \in Dirs
      BY <2>2, <2>3
  <2>5. QED
      BY <1>1, <2>2, <2>3, <2>4, ParentAssumption DEF UpEq
<1>3. f[k] \in Dirs
    BY <1>2
<1>4. QED
    BY <1>3 DEF Up, UpEq

\* The bounded walk of collect_bounded_ancestors yields 1 to
\* MAX_ANCESTOR_DEPTH directories.
LEMMA AncestorCountType ==
    \A d \in Dirs : AncestorCount(d) \in 1 .. MaxAncestorDepth
<1> SUFFICES ASSUME NEW d \in Dirs PROVE AncestorCount(d) \in 1 .. MaxAncestorDepth
    OBVIOUS
<1> DEFINE stops == {k \in 0 .. MaxAncestorDepth - 1 : Parent[Up(d, k)] = Up(d, k)}
<1>1. CASE stops = {}
    BY <1>1, DepthAssumption DEF AncestorCount
<1>2. CASE stops # {}
  <2>1. stops \in SUBSET Nat
      BY DepthAssumption
  <2>2. \E k \in stops : \A j \in stops : k <= j
      BY <1>2, <2>1, LeastExists
  <2>3. (CHOOSE k \in stops : \A j \in stops : k <= j) \in 0 .. MaxAncestorDepth - 1
      BY <2>2
  <2>4. QED
      BY <1>2, <2>3, DepthAssumption DEF AncestorCount
<1>3. QED
    BY <1>1, <1>2

\* The walk of one directory is a list of candidates.
LEMMA AncestorCandidatesType ==
    \A d \in Dirs, src \in Sources : AncestorCandidates(d, src) \in Seq(Candidate)
<1> SUFFICES ASSUME NEW d \in Dirs, NEW src \in Sources
             PROVE  AncestorCandidates(d, src) \in Seq(Candidate)
    OBVIOUS
<1>1. AncestorCount(d) \in 1 .. MaxAncestorDepth
    BY AncestorCountType
<1>2. \A i \in 1 .. AncestorCount(d) :
         [root_dir |-> [dir |-> Up(d, AncestorCount(d) - i), depth |-> 0],
          source |-> src] \in Candidate
    BY <1>1, UpType DEF Candidate, Path
<1>3. QED
    BY <1>1, <1>2, DepthAssumption DEF AncestorCandidates

\* discover_skill_roots makes a list of calls.
LEMMA DiscoverCandidatesType ==
    \A md, ed, gd, pd \in Dirs, conf \in ConfigLists :
        DiscoverCandidates(md, ed, [dir |-> gd, depth |-> 0], [dir |-> pd, depth |-> 0], conf)
            \in Seq(Candidate)
<1> SUFFICES ASSUME NEW md \in Dirs, NEW ed \in Dirs, NEW gd \in Dirs,
                    NEW pd \in Dirs, NEW conf \in ConfigLists
             PROVE  DiscoverCandidates(md, ed, [dir |-> gd, depth |-> 0],
                                       [dir |-> pd, depth |-> 0], conf) \in Seq(Candidate)
    OBVIOUS
<1>1. AncestorCandidates(md, "module_ancestor") \in Seq(Candidate)
      /\ AncestorCandidates(ed, "exec_ancestor") \in Seq(Candidate)
    BY AncestorCandidatesType DEF Sources
<1>2. << [root_dir |-> [dir |-> gd, depth |-> 0], source |-> "global_root"],
         [root_dir |-> [dir |-> pd, depth |-> 0], source |-> "project_root"] >>
        \in Seq(Candidate)
    BY DEF Candidate, Path, Sources
<1>3. [i \in 1 .. Len(conf) |-> [root_dir |-> conf[i], source |-> "config_root"]]
        \in Seq(Candidate)
    BY ConfigListsAssumption DEF Candidate, Sources
<1>4. QED
    BY <1>1, <1>2, <1>3 DEF DiscoverCandidates

\* resolve_skill_directory returns at most one directory, and one that
\* holds a tier directory.
LEMMA ResolveFacts ==
    \A p : /\ ResolveSkillDirectory(p) \subseteq tiered
          /\ \A x, y \in ResolveSkillDirectory(p) : x = y
BY DEF ResolveSkillDirectory

(***************************************************************************)
(* The invariants over explicit state.  CallsIn, OrderIn and ProvIn are    *)
(* CallsFor, RootsInFirstRegistrationOrder and the provenance facts with   *)
(* the call list, the next call, the tier directories, the roots and the   *)
(* index as parameters, so that one append_discovered_root call relates    *)
(* two instances of them.                                                  *)
(***************************************************************************)
ResolveIn(tr, p) ==
    IF p \in tr THEN {p}
    ELSE IF p.depth < 2 /\ Skills(p) \in tr THEN {Skills(p)}
    ELSE {}

CallsIn(cs, n, tr, k) == {j \in 1 .. n - 1 : k \in ResolveIn(tr, cs[j].root_dir)}

SkillDirsOf(rs) == {rs[i].skill_dir : i \in 1 .. Len(rs)}

OrderIn(rs, idx, cs, n, tr) ==
    /\ SkillDirsOf(rs) = {k \in Path : CallsIn(cs, n, tr, k) # {}}
    /\ \A i, j \in 1 .. Len(rs) :
          i < j => FirstCall(CallsIn(cs, n, tr, rs[i].skill_dir))
                     < FirstCall(CallsIn(cs, n, tr, rs[j].skill_dir))
    /\ DOMAIN idx = SkillDirsOf(rs)
    /\ \A k \in DOMAIN idx : rs[idx[k]].skill_dir = k

(* The inductive form of ProvenanceIsHighestFirst: the provenance of every *)
(* root is at least that of every call that reached its skill directory,  *)
(* and some call that reached it carried that provenance and its root_dir, *)
(* with only lower provenances before it.                                  *)
ProvenanceOf(cs, r, calls) ==
    /\ \A m \in calls : SourcePriority[cs[m].source] <= SourcePriority[r.source]
    /\ \E j \in calls :
          /\ cs[j].source = r.source
          /\ cs[j].root_dir = r.root_dir
          /\ \A m \in calls :
                m < j => SourcePriority[cs[m].source] < SourcePriority[r.source]

ProvIn(cs, rs, n, tr) ==
    \A i \in 1 .. Len(rs) : ProvenanceOf(cs, rs[i], CallsIn(cs, n, tr, rs[i].skill_dir))

ProvInv == ProvIn(cands, roots, ci, tiered)

\* The state-level definitions are the explicit ones at the current state.
LEMMA CallsForIn ==
    \A k : CallsFor(k) = CallsIn(cands, ci, tiered, k)
BY DEF CallsFor, CallsIn, ResolveSkillDirectory, ResolveIn

LEMMA OrderInState ==
    RootsInFirstRegistrationOrder = OrderIn(roots, index_by_skill_dir, cands, ci, tiered)
BY CallsForIn DEF RootsInFirstRegistrationOrder, OrderIn, SkillDirsOf

\* resolve_skill_directory over given tier directories.
LEMMA ResolveInFacts ==
    \A tr, p : /\ ResolveIn(tr, p) \subseteq tr
               /\ \A x, y \in ResolveIn(tr, p) : x = y
BY DEF ResolveIn

\* One more call joins the calls of the directory it resolves to.
LEMMA CallsInStep ==
    ASSUME NEW cs, NEW n \in Nat \ {0}, NEW tr, NEW k
    PROVE  /\ CallsIn(cs, n + 1, tr, k) =
                 CallsIn(cs, n, tr, k) \cup {j \in {n} : k \in ResolveIn(tr, cs[n].root_dir)}
           /\ CallsIn(cs, n, tr, k) \subseteq 1 .. n - 1
<1>1. 1 .. (n + 1) - 1 = (1 .. n - 1) \cup {n}
    OBVIOUS
<1>2. QED
    BY <1>1 DEF CallsIn

(***************************************************************************)
(* Type correctness of discover_skill_roots: the call list, the roots and  *)
(* the index keep their types, and the index points into the list.        *)
(***************************************************************************)
THEOREM TypeCorrect == Spec => []TypeOK
<1>1. Init => TypeOK
  <2> SUFFICES ASSUME Init PROVE TypeOK
      OBVIOUS
  <2>1. cands \in Seq(Candidate)
      BY DiscoverCandidatesType DEF Init
  <2>2. tiered \subseteq Path
      BY TieredSetsAssumption DEF Init
  <2>3. QED
      BY <2>1, <2>2 DEF Init, TypeOK
<1>2. TypeOK /\ [Next]_vars => TypeOK'
  <2> SUFFICES ASSUME TypeOK, [Next]_vars PROVE TypeOK'
      OBVIOUS
  <2>1. CASE UNCHANGED vars
      BY <2>1 DEF TypeOK, vars
  <2>2. CASE AppendDiscoveredRoot
    <3> DEFINE c == cands[ci]
    <3>1. c \in Candidate /\ ci \in 1 .. Len(cands)
        BY <2>2 DEF AppendDiscoveredRoot, TypeOK
    <3>2. ResolveSkillDirectory(c.root_dir) \subseteq Path
        BY ResolveFacts DEF TypeOK
    <3>3. CASE ResolveSkillDirectory(c.root_dir) = {}
          /\ UNCHANGED <<roots, index_by_skill_dir>>
        BY <2>2, <3>1, <3>3 DEF AppendDiscoveredRoot, TypeOK
    <3>4. ASSUME NEW key \in ResolveSkillDirectory(c.root_dir),
                 key \in DOMAIN index_by_skill_dir,
                 LET i == index_by_skill_dir[key] IN
                 IF Upgrades(c, roots[i])
                 THEN roots' = [roots EXCEPT ![i] = UpgradedRoot(roots[i], c)]
                 ELSE UNCHANGED roots,
                 UNCHANGED index_by_skill_dir
          PROVE  TypeOK'
      <4> DEFINE i == index_by_skill_dir[key]
      <4>1. i \in 1 .. Len(roots)
          BY <3>4 DEF TypeOK
      <4>2. UpgradedRoot(roots[i], c) \in Root
        <5>1. roots[i] \in Root
            BY <4>1 DEF TypeOK
        <5>2. QED
            BY <3>1, <5>1 DEF UpgradedRoot, Root, Candidate
      <4>3. roots' \in Seq(Root) /\ Len(roots') = Len(roots)
        <5>1. CASE Upgrades(c, roots[i])
          <6>1. roots' = [roots EXCEPT ![i] = UpgradedRoot(roots[i], c)]
              BY <3>4, <5>1
          <6>2. roots \in Seq(Root)
              BY DEF TypeOK
          <6>3. QED
              BY <4>1, <4>2, <6>1, <6>2
        <5>2. CASE ~Upgrades(c, roots[i])
          <6>1. roots' = roots
              BY <3>4, <5>2
          <6>2. QED
              BY <6>1 DEF TypeOK
        <5>3. QED
            BY <5>1, <5>2
      <4>4. QED
          BY <2>2, <3>1, <3>4, <4>3 DEF AppendDiscoveredRoot, TypeOK
    <3>5. ASSUME NEW key \in ResolveSkillDirectory(c.root_dir),
                 key \notin DOMAIN index_by_skill_dir,
                 index_by_skill_dir' =
                   [k \in DOMAIN index_by_skill_dir \cup {key} |->
                       IF k = key THEN NewIndex(roots) ELSE index_by_skill_dir[k]],
                 roots' = Append(roots, [root_dir |-> c.root_dir, skill_dir |-> key,
                                         source |-> c.source])
          PROVE  TypeOK'
      <4>1. [root_dir |-> c.root_dir, skill_dir |-> key, source |-> c.source] \in Root
          BY <3>1, <3>2 DEF Root, Candidate
      <4>2. roots' \in Seq(Root) /\ Len(roots') = Len(roots) + 1
          BY <3>5, <4>1 DEF TypeOK
      <4>3. QED
          BY <2>2, <3>1, <3>2, <3>5, <4>2 DEF AppendDiscoveredRoot, TypeOK, NewIndex
    <3>6. QED
        BY <2>2, <3>3, <3>4, <3>5 DEF AppendDiscoveredRoot
  <2>3. QED
      BY <2>1, <2>2 DEF Next
<1>3. QED
    BY <1>1, <1>2, PTL DEF Spec

\* Adding a later call to a set of calls keeps its first call.
LEMMA FirstCallAdd ==
    ASSUME NEW S \in SUBSET Nat, S # {}, NEW c \in Nat, \A j \in S : j < c
    PROVE  FirstCall(S \cup {c}) = FirstCall(S)
<1>1. FirstCall(S) \in S /\ \A j \in S : FirstCall(S) <= j
    BY FirstCallFacts
<1>2. \A j \in S \cup {c} : FirstCall(S) <= j
  <2>1. FirstCall(S) \in Nat /\ FirstCall(S) < c
      BY <1>1
  <2>2. QED
      BY <1>1, <2>1
<1>3. S \cup {c} \in SUBSET Nat /\ S \cup {c} # {} /\ FirstCall(S) \in S \cup {c}
    BY <1>1
<1>4. QED
    BY <1>2, <1>3, FirstCallFacts

\* The first call of a single call is that call.
LEMMA FirstCallSingle ==
    ASSUME NEW c \in Nat
    PROVE  FirstCall({c}) = c
BY FirstCallFacts

(***************************************************************************)
(* The three outcomes of append_discovered_root keep the order invariant.  *)
(***************************************************************************)
\* The call resolves to no skill directory.
LEMMA OrderSkip ==
    ASSUME NEW rs, NEW idx, NEW cs, NEW n \in Nat \ {0}, NEW tr,
           OrderIn(rs, idx, cs, n, tr),
           ResolveIn(tr, cs[n].root_dir) = {}
    PROVE  OrderIn(rs, idx, cs, n + 1, tr)
<1>1. \A k : CallsIn(cs, n + 1, tr, k) = CallsIn(cs, n, tr, k)
  <2> TAKE k
  <2>1. CallsIn(cs, n + 1, tr, k) =
          CallsIn(cs, n, tr, k) \cup {j \in {n} : k \in ResolveIn(tr, cs[n].root_dir)}
      BY CallsInStep
  <2>2. QED
      BY <2>1
<1>2. QED
    BY <1>1 DEF OrderIn

\* The call reaches a registered directory; the stored root may be
\* replaced, with the same skill_dir.
LEMMA OrderDup ==
    ASSUME NEW rs \in Seq(Root), NEW idx, idx \in [DOMAIN idx -> 1 .. Len(rs)],
           NEW cs, NEW n \in Nat \ {0}, NEW tr,
           OrderIn(rs, idx, cs, n, tr),
           NEW key \in ResolveIn(tr, cs[n].root_dir), key \in DOMAIN idx,
           NEW rs2 \in Seq(Root), Len(rs2) = Len(rs),
           \A j \in 1 .. Len(rs) : rs2[j].skill_dir = rs[j].skill_dir
    PROVE  OrderIn(rs2, idx, cs, n + 1, tr)
<1> DEFINE C(k) == CallsIn(cs, n, tr, k)
           C2(k) == CallsIn(cs, n + 1, tr, k)
<1>1. \A k : C(k) \subseteq 1 .. n - 1 /\ C2(k) = C(k) \cup (IF k = key THEN {n} ELSE {})
    BY CallsInStep, ResolveInFacts
<1>2. \A k \in SkillDirsOf(rs) : C(k) # {}
    BY DEF OrderIn
<1>3. \A k \in SkillDirsOf(rs) : FirstCall(C2(k)) = FirstCall(C(k))
  <2> TAKE k \in SkillDirsOf(rs)
  <2>1. CASE k = key
    <3>1. C2(k) = C(k) \cup {n} /\ C(k) \in SUBSET Nat /\ \A j \in C(k) : j < n
        BY <1>1, <2>1
    <3>2. QED
        BY <1>2, <3>1, FirstCallAdd
  <2>2. CASE k # key
      BY <1>1, <2>2
  <2>3. QED
      BY <2>1, <2>2
<1>4. key \in SkillDirsOf(rs)
    BY DEF OrderIn
<1>5. {k \in Path : C2(k) # {}} = {k \in Path : C(k) # {}}
    BY <1>1, <1>2, <1>4
<1>6. SkillDirsOf(rs2) = SkillDirsOf(rs)
    BY DEF SkillDirsOf
<1>7. \A i, j \in 1 .. Len(rs2) :
         i < j => FirstCall(C2(rs2[i].skill_dir)) < FirstCall(C2(rs2[j].skill_dir))
  <2> TAKE i, j \in 1 .. Len(rs2)
  <2>1. rs2[i].skill_dir = rs[i].skill_dir /\ rs2[j].skill_dir = rs[j].skill_dir
        /\ rs[i].skill_dir \in SkillDirsOf(rs) /\ rs[j].skill_dir \in SkillDirsOf(rs)
      BY DEF SkillDirsOf
  <2>2. QED
      BY <1>3, <2>1 DEF OrderIn
<1>8. \A k \in DOMAIN idx : rs2[idx[k]].skill_dir = k
    BY DEF OrderIn
<1>9. QED
    BY <1>5, <1>6, <1>7, <1>8 DEF OrderIn

\* The call reaches a new directory, whose root is appended and indexed.
LEMMA OrderNew ==
    ASSUME NEW rs \in Seq(Root), NEW idx, idx \in [DOMAIN idx -> 1 .. Len(rs)],
           NEW cs, NEW n \in Nat \ {0}, NEW tr, tr \subseteq Path,
           OrderIn(rs, idx, cs, n, tr),
           NEW key \in ResolveIn(tr, cs[n].root_dir), key \notin DOMAIN idx,
           NEW r \in Root, r.skill_dir = key,
           NEW rs2, rs2 = Append(rs, r),
           NEW idx2, idx2 = [k \in DOMAIN idx \cup {key} |-> IF k = key THEN Len(rs) + 1 ELSE idx[k]]
    PROVE  OrderIn(rs2, idx2, cs, n + 1, tr)
<1> DEFINE C(k) == CallsIn(cs, n, tr, k)
           C2(k) == CallsIn(cs, n + 1, tr, k)
<1>1. \A k : C(k) \subseteq 1 .. n - 1 /\ C2(k) = C(k) \cup (IF k = key THEN {n} ELSE {})
    BY CallsInStep, ResolveInFacts
<1>2. key \in Path /\ key \notin SkillDirsOf(rs)
    BY ResolveInFacts DEF OrderIn
<1>3. C(key) = {} /\ C2(key) = {n}
    BY <1>1, <1>2 DEF OrderIn
<1>4. FirstCall(C2(key)) = n
    BY <1>3, FirstCallSingle
<1>5. \A k \in SkillDirsOf(rs) : C2(k) = C(k) /\ FirstCall(C(k)) < n
  <2> TAKE k \in SkillDirsOf(rs)
  <2>1. k # key /\ C(k) # {} /\ C(k) \in SUBSET Nat
      BY <1>1, <1>2 DEF OrderIn
  <2>2. FirstCall(C(k)) \in 1 .. n - 1
    <3>1. FirstCall(C(k)) \in C(k)
        BY <2>1, FirstCallFacts
    <3>2. QED
        BY <1>1, <3>1
  <2>3. C2(k) = C(k)
      BY <1>1, <2>1
  <2>4. QED
      BY <2>2, <2>3
<1>6. Len(rs2) = Len(rs) + 1 /\ rs2[Len(rs) + 1] = r
      /\ \A j \in 1 .. Len(rs) : rs2[j] = rs[j]
    OBVIOUS
<1>7. SkillDirsOf(rs2) = SkillDirsOf(rs) \cup {key}
    BY <1>6 DEF SkillDirsOf
<1>8. {k \in Path : C2(k) # {}} = {k \in Path : C(k) # {}} \cup {key}
    BY <1>1, <1>2, <1>3
<1>9. \A i, j \in 1 .. Len(rs2) :
         i < j => FirstCall(C2(rs2[i].skill_dir)) < FirstCall(C2(rs2[j].skill_dir))
  <2> TAKE i, j \in 1 .. Len(rs2)
  <2> HAVE i < j
  <2>1. i \in 1 .. Len(rs) /\ rs2[i].skill_dir = rs[i].skill_dir
        /\ rs[i].skill_dir \in SkillDirsOf(rs)
      BY <1>6 DEF SkillDirsOf
  <2>2. CASE j \in 1 .. Len(rs)
    <3>1. rs2[j].skill_dir = rs[j].skill_dir /\ rs[j].skill_dir \in SkillDirsOf(rs)
        BY <1>6, <2>2 DEF SkillDirsOf
    <3>2. QED
        BY <1>5, <2>1, <3>1 DEF OrderIn
  <2>3. CASE j = Len(rs) + 1
      BY <1>4, <1>5, <1>6, <2>1, <2>3
  <2>4. QED
      BY <1>6, <2>2, <2>3
<1>10. DOMAIN idx2 = SkillDirsOf(rs2)
    BY <1>7 DEF OrderIn
<1>11. \A k \in DOMAIN idx2 : rs2[idx2[k]].skill_dir = k
  <2> TAKE k \in DOMAIN idx2
  <2>1. CASE k = key
      BY <1>6, <2>1
  <2>2. CASE k # key
    <3>1. k \in DOMAIN idx /\ idx2[k] = idx[k] /\ idx[k] \in 1 .. Len(rs)
        BY <2>2
    <3>2. QED
        BY <1>6, <3>1 DEF OrderIn
  <2>3. QED
      BY <2>1, <2>2
<1>12. QED
    BY <1>7, <1>8, <1>9, <1>10, <1>11 DEF OrderIn

\* What append_discovered_root does, over explicit state.
LEMMA AppendCases ==
    ASSUME TypeOK, AppendDiscoveredRoot
    PROVE  LET c == cands[ci]
               R == ResolveIn(tiered, c.root_dir)
           IN  /\ ci \in 1 .. Len(cands) /\ c \in Candidate
               /\ ci' = ci + 1 /\ cands' = cands /\ tiered' = tiered
               /\ \/ R = {} /\ UNCHANGED <<roots, index_by_skill_dir>>
                  \/ \E key \in R :
                       /\ key \in DOMAIN index_by_skill_dir
                       /\ LET i == index_by_skill_dir[key] IN
                          IF Upgrades(c, roots[i])
                          THEN roots' = [roots EXCEPT ![i] = UpgradedRoot(roots[i], c)]
                          ELSE UNCHANGED roots
                       /\ UNCHANGED index_by_skill_dir
                  \/ \E key \in R :
                       /\ key \notin DOMAIN index_by_skill_dir
                       /\ index_by_skill_dir' =
                             [k \in DOMAIN index_by_skill_dir \cup {key} |->
                                 IF k = key THEN Len(roots) + 1 ELSE index_by_skill_dir[k]]
                       /\ roots' = Append(roots, [root_dir |-> c.root_dir, skill_dir |-> key,
                                                  source |-> c.source])
<1>1. ResolveSkillDirectory(cands[ci].root_dir) = ResolveIn(tiered, cands[ci].root_dir)
    BY DEF ResolveSkillDirectory, ResolveIn
<1>2. ci \in 1 .. Len(cands) /\ cands[ci] \in Candidate
      /\ ci' = ci + 1 /\ cands' = cands /\ tiered' = tiered
    BY DEF AppendDiscoveredRoot, TypeOK
<1>3. QED
    BY <1>1, <1>2, Zenon DEF AppendDiscoveredRoot, NewIndex

(***************************************************************************)
(* Deduplication of append_discovered_root keeps the first-registration    *)
(* order: whatever the calls of discover_skill_roots, the roots list holds *)
(* each skill directory reached so far exactly once, ordered by the first  *)
(* call that reached it, and the index points at each one.  The invariant  *)
(* is inductive together with TypeOK: a call either reaches no directory, *)
(* or one already registered (whose first call it cannot change, being     *)
(* later than all calls before it), or a new one that it appends last.    *)
(***************************************************************************)
THEOREM RootsOrdered == Spec => []RootsInFirstRegistrationOrder
<1>1. Init => RootsInFirstRegistrationOrder
  <2> SUFFICES ASSUME Init PROVE RootsInFirstRegistrationOrder
      OBVIOUS
  <2>1. \A k : CallsFor(k) = {}
      BY DEF Init, CallsFor
  <2>2. QED
      BY <2>1 DEF Init, RootsInFirstRegistrationOrder
<1>2. TypeOK /\ TypeOK' /\ RootsInFirstRegistrationOrder /\ [Next]_vars
        => RootsInFirstRegistrationOrder'
  <2> SUFFICES ASSUME TypeOK, TypeOK', RootsInFirstRegistrationOrder, [Next]_vars
               PROVE  RootsInFirstRegistrationOrder'
      OBVIOUS
  <2>1. OrderIn(roots, index_by_skill_dir, cands, ci, tiered)
      BY OrderInState
  <2>2. RootsInFirstRegistrationOrder' =
          OrderIn(roots', index_by_skill_dir', cands', ci', tiered')
      BY DEF RootsInFirstRegistrationOrder, OrderIn, SkillDirsOf, CallsFor, CallsIn,
             ResolveSkillDirectory, ResolveIn
  <2>3. CASE UNCHANGED vars
      BY <2>1, <2>2, <2>3 DEF vars
  <2>4. CASE AppendDiscoveredRoot
    <3> DEFINE c == cands[ci]
               R == ResolveIn(tiered, c.root_dir)
    <3>1. /\ ci \in 1 .. Len(cands) /\ c \in Candidate
          /\ ci' = ci + 1 /\ cands' = cands /\ tiered' = tiered
        BY <2>4, AppendCases
    <3>2. SUFFICES OrderIn(roots', index_by_skill_dir', cands, ci + 1, tiered)
        BY <2>2, <3>1
    <3>3. ci \in Nat \ {0} /\ roots \in Seq(Root) /\ roots' \in Seq(Root)
          /\ index_by_skill_dir \in [DOMAIN index_by_skill_dir -> 1 .. Len(roots)]
          /\ tiered \subseteq Path
        BY <3>1 DEF TypeOK
    <3>4. CASE R = {} /\ UNCHANGED <<roots, index_by_skill_dir>>
        BY <2>1, <3>3, <3>4, OrderSkip
    <3>5. ASSUME NEW key \in R,
                 key \in DOMAIN index_by_skill_dir,
                 LET i == index_by_skill_dir[key] IN
                 IF Upgrades(c, roots[i])
                 THEN roots' = [roots EXCEPT ![i] = UpgradedRoot(roots[i], c)]
                 ELSE UNCHANGED roots,
                 UNCHANGED index_by_skill_dir
          PROVE  OrderIn(roots', index_by_skill_dir', cands, ci + 1, tiered)
      <4> DEFINE i == index_by_skill_dir[key]
      <4>1. i \in 1 .. Len(roots)
          BY <3>3, <3>5
      <4>2. Len(roots') = Len(roots)
            /\ \A j \in 1 .. Len(roots) : roots'[j].skill_dir = roots[j].skill_dir
        <5>1. CASE Upgrades(c, roots[i])
            BY <3>3, <3>5, <4>1, <5>1 DEF UpgradedRoot
        <5>2. CASE ~ Upgrades(c, roots[i])
            BY <3>5, <5>2
        <5>3. QED
            BY <5>1, <5>2
      <4>3. QED
          BY <2>1, <3>3, <3>5, <4>2, OrderDup
    <3>6. ASSUME NEW key \in R,
                 key \notin DOMAIN index_by_skill_dir,
                 index_by_skill_dir' =
                    [k \in DOMAIN index_by_skill_dir \cup {key} |->
                        IF k = key THEN Len(roots) + 1 ELSE index_by_skill_dir[k]],
                 roots' = Append(roots, [root_dir |-> c.root_dir, skill_dir |-> key,
                                         source |-> c.source])
          PROVE  OrderIn(roots', index_by_skill_dir', cands, ci + 1, tiered)
      <4> DEFINE r == [root_dir |-> c.root_dir, skill_dir |-> key, source |-> c.source]
      <4>1. r \in Root /\ r.skill_dir = key
          BY <3>1, <3>3, ResolveInFacts DEF Root, Candidate
      <4>2. OrderIn(roots', index_by_skill_dir', cands, ci + 1, tiered)
        <5>1. /\ roots \in Seq(Root)
              /\ index_by_skill_dir \in [DOMAIN index_by_skill_dir -> 1 .. Len(roots)]
              /\ ci \in Nat \ {0}
              /\ tiered \subseteq Path
              /\ OrderIn(roots, index_by_skill_dir, cands, ci, tiered)
              /\ key \in ResolveIn(tiered, cands[ci].root_dir)
              /\ key \notin DOMAIN index_by_skill_dir
              /\ r \in Root /\ r.skill_dir = key
              /\ roots' = Append(roots, r)
              /\ index_by_skill_dir' =
                    [k \in DOMAIN index_by_skill_dir \cup {key} |->
                        IF k = key THEN Len(roots) + 1 ELSE index_by_skill_dir[k]]
            BY <2>1, <3>3, <3>6, <4>1
        <5>2. QED
            BY <5>1, OrderNew, ZenonT(60)
      <4>3. QED
          BY <3>6, <4>2
    <3>7. QED
        BY <2>4, <3>4, <3>5, <3>6, AppendCases
  <2>5. QED
      BY <2>3, <2>4 DEF Next
<1>3. QED
    BY <1>1, <1>2, TypeCorrect, PTL DEF Spec

(***************************************************************************)
(* The provenance of the roots.                                            *)
(***************************************************************************)
\* The provenance ranks are distinct numbers.
LEMMA PriorityFacts ==
    /\ SourcePriority \in [Sources -> 1 .. 5]
    /\ \A x, y \in Sources : SourcePriority[x] = SourcePriority[y] => x = y
BY DEF SourcePriority, Sources

\* The order invariant implies the roots list never holds a skill
\* directory twice.
LEMMA OrderDistinct ==
    ASSUME NEW rs \in Seq(Root), NEW idx, NEW cs, NEW n \in Nat, NEW tr,
           OrderIn(rs, idx, cs, n, tr),
           NEW i \in 1 .. Len(rs), NEW j \in 1 .. Len(rs),
           rs[i].skill_dir = rs[j].skill_dir
    PROVE  i = j
<1> DEFINE S == CallsIn(cs, n, tr, rs[i].skill_dir)
<1>1. S # {} /\ S \in SUBSET Nat
    BY DEF OrderIn, SkillDirsOf, CallsIn
<1>2. FirstCall(S) \in Nat
    BY <1>1, FirstCallFacts
<1>3. ~ (i < j) /\ ~ (j < i)
    BY <1>2 DEF OrderIn
<1>4. QED
    BY <1>3

\* A call of no higher provenance leaves a root's provenance facts intact.
LEMMA ProvAddLower ==
    ASSUME NEW cs, NEW r, NEW S \in SUBSET Nat, NEW c \in Nat, \A j \in S : j < c,
           ProvenanceOf(cs, r, S),
           SourcePriority[cs[c].source] <= SourcePriority[r.source]
    PROVE  ProvenanceOf(cs, r, S \cup {c})
<1>1. PICK j \in S : /\ cs[j].source = r.source
                     /\ cs[j].root_dir = r.root_dir
                     /\ \A m \in S : m < j =>
                           SourcePriority[cs[m].source] < SourcePriority[r.source]
    BY DEF ProvenanceOf
<1>2. ~ (c < j)
    OBVIOUS
<1>3. QED
    BY <1>1, <1>2 DEF ProvenanceOf

\* A call of strictly higher provenance, whose root replaces the stored one.
LEMMA ProvUpgrade ==
    ASSUME NEW cs, NEW r, NEW S \in SUBSET Nat, NEW c \in Nat, \A j \in S : j < c,
           r.source \in Sources, cs[c].source \in Sources,
           \A m \in S : cs[m].source \in Sources,
           ProvenanceOf(cs, r, S),
           SourcePriority[cs[c].source] > SourcePriority[r.source],
           NEW r2, r2.source = cs[c].source, r2.root_dir = cs[c].root_dir
    PROVE  ProvenanceOf(cs, r2, S \cup {c})
<1>1. \A m \in S : SourcePriority[cs[m].source] < SourcePriority[cs[c].source]
    BY PriorityFacts DEF ProvenanceOf
<1>2. QED
    BY <1>1, PriorityFacts DEF ProvenanceOf

\* The first call to reach a skill directory gives its root.
LEMMA ProvSingle ==
    ASSUME NEW cs, NEW c \in Nat, cs[c].source \in Sources,
           NEW r2, r2.source = cs[c].source, r2.root_dir = cs[c].root_dir
    PROVE  ProvenanceOf(cs, r2, {c})
BY PriorityFacts DEF ProvenanceOf

\* A call that reaches no skill directory leaves the provenance facts.
LEMMA ProvSkip ==
    ASSUME NEW rs, NEW cs, NEW n \in Nat \ {0}, NEW tr,
           ProvIn(cs, rs, n, tr),
           ResolveIn(tr, cs[n].root_dir) = {}
    PROVE  ProvIn(cs, rs, n + 1, tr)
<1>1. \A k : CallsIn(cs, n + 1, tr, k) = CallsIn(cs, n, tr, k)
  <2> TAKE k
  <2>1. CallsIn(cs, n + 1, tr, k) =
          CallsIn(cs, n, tr, k) \cup {j \in {n} : k \in ResolveIn(tr, cs[n].root_dir)}
      BY CallsInStep
  <2>2. QED
      BY <2>1
<1>2. QED
    BY <1>1 DEF ProvIn

\* A call that reaches a registered directory: the stored root is upgraded
\* when the call's provenance ranks strictly higher, and kept otherwise.
LEMMA ProvDup ==
    ASSUME NEW rs \in Seq(Root), NEW idx, idx \in [DOMAIN idx -> 1 .. Len(rs)],
           NEW cs, NEW n \in Nat \ {0}, NEW tr,
           \A m \in 1 .. n : cs[m] \in Candidate,
           OrderIn(rs, idx, cs, n, tr), ProvIn(cs, rs, n, tr),
           NEW key \in ResolveIn(tr, cs[n].root_dir), key \in DOMAIN idx,
           NEW rs2,
           rs2 = IF Upgrades(cs[n], rs[idx[key]])
                 THEN [rs EXCEPT ![idx[key]] = UpgradedRoot(rs[idx[key]], cs[n])]
                 ELSE rs
    PROVE  ProvIn(cs, rs2, n + 1, tr)
<1> DEFINE C(k) == CallsIn(cs, n, tr, k)
           C2(k) == CallsIn(cs, n + 1, tr, k)
           i0 == idx[key]
<1>1. \A k : C(k) \subseteq 1 .. n - 1 /\ C2(k) = C(k) \cup (IF k = key THEN {n} ELSE {})
    BY CallsInStep, ResolveInFacts
<1>2. i0 \in 1 .. Len(rs) /\ rs[i0].skill_dir = key
    BY DEF OrderIn
<1>3. /\ Len(rs2) = Len(rs)
      /\ \A j \in 1 .. Len(rs) : j # i0 => rs2[j] = rs[j]
      /\ rs2[i0].skill_dir = key
    BY <1>2 DEF UpgradedRoot
<1>4. SUFFICES ASSUME NEW j \in 1 .. Len(rs2)
               PROVE  ProvenanceOf(cs, rs2[j], C2(rs2[j].skill_dir))
    BY DEF ProvIn
<1>5. CASE j # i0
  <2>1. rs[j].skill_dir # key
      BY <1>2, <1>3, <1>5, OrderDistinct
  <2>2. QED
      BY <1>1, <1>3, <1>5, <2>1 DEF ProvIn
<1>6. CASE j = i0
  <2>1. /\ C2(key) = C(key) \cup {n}
        /\ C(key) \in SUBSET Nat /\ \A m \in C(key) : m < n
        /\ \A m \in C(key) : cs[m].source \in Sources
        /\ cs[n].source \in Sources /\ rs[i0].source \in Sources
        /\ ProvenanceOf(cs, rs[i0], C(key))
    <3>1. C2(key) = C(key) \cup {n} /\ C(key) \subseteq 1 .. n - 1
        BY <1>1
    <3>2. \A m \in 1 .. n : cs[m].source \in Sources
        BY DEF Candidate
    <3>3. rs[i0] \in Root
        BY <1>2
    <3>4. ProvenanceOf(cs, rs[i0], C(key))
        BY <1>2 DEF ProvIn
    <3>5. QED
        BY <3>1, <3>2, <3>3, <3>4 DEF Root
  <2>0. rs2[j] = rs2[i0] /\ C2(rs2[j].skill_dir) = C(key) \cup {n}
      BY <1>3, <1>6, <2>1
  <2>2. CASE Upgrades(cs[n], rs[i0])
    <3>1. rs2[i0].source = cs[n].source /\ rs2[i0].root_dir = cs[n].root_dir
        BY <1>2, <2>2 DEF UpgradedRoot
    <3>2. SourcePriority[cs[n].source] > SourcePriority[rs[i0].source]
        BY <2>2 DEF Upgrades
    <3>3. ProvenanceOf(cs, rs2[i0], C(key) \cup {n})
        BY <2>1, <3>1, <3>2, ProvUpgrade
    <3>4. QED
        BY <2>0, <3>3
  <2>3. CASE ~ Upgrades(cs[n], rs[i0])
    <3>1. SourcePriority[cs[n].source] <= SourcePriority[rs[i0].source]
      <4>1. SourcePriority[cs[n].source] \in 1 .. 5
            /\ SourcePriority[rs[i0].source] \in 1 .. 5
          BY <2>1, PriorityFacts
      <4>2. ~ (SourcePriority[cs[n].source] > SourcePriority[rs[i0].source])
          BY <2>3 DEF Upgrades
      <4>3. QED
          BY <4>1, <4>2
    <3>2. rs2 = rs
        BY <2>3
    <3>3. ProvenanceOf(cs, rs[i0], C(key) \cup {n})
        BY <2>1, <3>1, ProvAddLower
    <3>4. QED
        BY <2>0, <3>2, <3>3
  <2>4. QED
      BY <2>2, <2>3
<1>7. QED
    BY <1>5, <1>6

\* A call that reaches a new directory appends its own root.
LEMMA ProvNew ==
    ASSUME NEW rs \in Seq(Root), NEW idx, NEW cs, NEW n \in Nat \ {0},
           NEW tr, tr \subseteq Path,
           cs[n] \in Candidate,
           OrderIn(rs, idx, cs, n, tr), ProvIn(cs, rs, n, tr),
           NEW key \in ResolveIn(tr, cs[n].root_dir), key \notin DOMAIN idx,
           NEW r, r = [root_dir |-> cs[n].root_dir, skill_dir |-> key, source |-> cs[n].source],
           NEW rs2, rs2 = Append(rs, r)
    PROVE  ProvIn(cs, rs2, n + 1, tr)
<1> DEFINE C(k) == CallsIn(cs, n, tr, k)
           C2(k) == CallsIn(cs, n + 1, tr, k)
<1>1. \A k : C(k) \subseteq 1 .. n - 1 /\ C2(k) = C(k) \cup (IF k = key THEN {n} ELSE {})
    BY CallsInStep, ResolveInFacts
<1>2. key \in Path /\ key \notin SkillDirsOf(rs)
    BY ResolveInFacts DEF OrderIn
<1>3. C(key) = {} /\ C2(key) = {n}
    BY <1>1, <1>2 DEF OrderIn
<1>4. SUFFICES ASSUME NEW j \in 1 .. Len(rs2)
               PROVE  ProvenanceOf(cs, rs2[j], C2(rs2[j].skill_dir))
    BY DEF ProvIn
<1>5. CASE j \in 1 .. Len(rs)
  <2>1. rs2[j] = rs[j] /\ rs[j].skill_dir # key
      BY <1>2, <1>5 DEF SkillDirsOf
  <2>2. QED
      BY <1>1, <1>5, <2>1 DEF ProvIn
<1>6. CASE j = Len(rs) + 1
  <2>1. rs2[j] = r /\ r.skill_dir = key
        /\ r.source = cs[n].source /\ r.root_dir = cs[n].root_dir
      BY <1>6
  <2>2. cs[n].source \in Sources
      BY DEF Candidate
  <2>3. ProvenanceOf(cs, r, {n})
      BY <2>1, <2>2, ProvSingle
  <2>4. QED
      BY <1>3, <2>1, <2>3
<1>7. QED
    BY <1>5, <1>6

(***************************************************************************)
(* The provenance upgrade of append_discovered_root (the strict `>` of     *)
(* source_priority): every root carries the highest provenance among the   *)
(* calls that reached its skill directory, with the root_dir of the first  *)
(* call that carried it.  The inductive invariant ProvInv replaces the     *)
(* least element of `best` by a witness call with only lower provenances   *)
(* before it; with the order invariant (which keeps every skill directory  *)
(* in one root) it is preserved by each of the three outcomes of a call.   *)
(***************************************************************************)
THEOREM ProvenanceHighest == Spec => []ProvenanceIsHighestFirst
<1>1. Init => ProvInv
    BY DEF Init, ProvInv, ProvIn
<1>2. TypeOK /\ TypeOK' /\ RootsInFirstRegistrationOrder /\ ProvInv /\ [Next]_vars
        => ProvInv'
  <2> SUFFICES ASSUME TypeOK, TypeOK', RootsInFirstRegistrationOrder, ProvInv,
                      [Next]_vars
               PROVE  ProvInv'
      OBVIOUS
  <2>1. OrderIn(roots, index_by_skill_dir, cands, ci, tiered)
      BY OrderInState
  <2>2. ProvInv' = ProvIn(cands', roots', ci', tiered')
      BY DEF ProvInv
  <2>3. CASE UNCHANGED vars
      BY <2>2, <2>3 DEF vars, ProvInv
  <2>4. CASE AppendDiscoveredRoot
    <3> DEFINE c == cands[ci]
               R == ResolveIn(tiered, c.root_dir)
    <3>1. /\ ci \in 1 .. Len(cands) /\ c \in Candidate
          /\ ci' = ci + 1 /\ cands' = cands /\ tiered' = tiered
        BY <2>4, AppendCases
    <3>2. SUFFICES ProvIn(cands, roots', ci + 1, tiered)
        BY <2>2, <3>1
    <3>3. /\ ci \in Nat \ {0} /\ roots \in Seq(Root)
          /\ index_by_skill_dir \in [DOMAIN index_by_skill_dir -> 1 .. Len(roots)]
          /\ tiered \subseteq Path
          /\ \A m \in 1 .. ci : cands[m] \in Candidate
          /\ ProvIn(cands, roots, ci, tiered)
        BY <3>1 DEF TypeOK, ProvInv
    <3>4. CASE R = {} /\ UNCHANGED <<roots, index_by_skill_dir>>
        BY <3>3, <3>4, ProvSkip
    <3>5. ASSUME NEW key \in R,
                 key \in DOMAIN index_by_skill_dir,
                 LET i == index_by_skill_dir[key] IN
                 IF Upgrades(c, roots[i])
                 THEN roots' = [roots EXCEPT ![i] = UpgradedRoot(roots[i], c)]
                 ELSE UNCHANGED roots,
                 UNCHANGED index_by_skill_dir
          PROVE  ProvIn(cands, roots', ci + 1, tiered)
      <4>1. roots' = IF Upgrades(c, roots[index_by_skill_dir[key]])
                     THEN [roots EXCEPT ![index_by_skill_dir[key]] =
                              UpgradedRoot(roots[index_by_skill_dir[key]], c)]
                     ELSE roots
          BY <3>5
      <4>2. QED
          BY <2>1, <3>3, <3>5, <4>1, ProvDup
    <3>6. ASSUME NEW key \in R,
                 key \notin DOMAIN index_by_skill_dir,
                 index_by_skill_dir' =
                    [k \in DOMAIN index_by_skill_dir \cup {key} |->
                        IF k = key THEN Len(roots) + 1 ELSE index_by_skill_dir[k]],
                 roots' = Append(roots, [root_dir |-> c.root_dir, skill_dir |-> key,
                                         source |-> c.source])
          PROVE  ProvIn(cands, roots', ci + 1, tiered)
        BY <2>1, <3>1, <3>3, <3>6, ProvNew
    <3>7. QED
        BY <2>4, <3>4, <3>5, <3>6, AppendCases
  <2>5. QED
      BY <2>3, <2>4 DEF Next
<1>3. TypeOK /\ ProvInv => ProvenanceIsHighestFirst
  <2> SUFFICES ASSUME TypeOK, ProvInv, NEW i \in 1 .. Len(roots)
               PROVE  LET calls == CallsFor(roots[i].skill_dir)
                          best  == {j \in calls : \A m \in calls :
                                       SourcePriority[cands[m].source]
                                         <= SourcePriority[cands[j].source]}
                      IN  /\ roots[i].source = cands[FirstCall(best)].source
                          /\ roots[i].root_dir = cands[FirstCall(best)].root_dir
      BY DEF ProvenanceIsHighestFirst
  <2> DEFINE calls == CallsFor(roots[i].skill_dir)
             best  == {j \in calls : \A m \in calls :
                          SourcePriority[cands[m].source]
                            <= SourcePriority[cands[j].source]}
             r     == roots[i]
  <2>1. calls = CallsIn(cands, ci, tiered, r.skill_dir)
      BY CallsForIn
  <2>2. ProvenanceOf(cands, r, calls)
      BY <2>1 DEF ProvInv, ProvIn
  <2>3. calls \subseteq 1 .. ci - 1 /\ ci \in Nat \ {0}
    <3>1. ci \in Nat \ {0}
        BY DEF TypeOK
    <3>2. CallsIn(cands, ci, tiered, r.skill_dir) \subseteq 1 .. ci - 1
        BY <3>1, CallsInStep
    <3>3. QED
        BY <2>1, <3>1, <3>2
  <2>4. \A m \in calls : SourcePriority[cands[m].source] \in 1 .. 5
    <3>1. \A m \in calls : cands[m] \in Candidate
        BY <2>3 DEF TypeOK
    <3>2. QED
        BY <3>1, PriorityFacts DEF Candidate
  <2>5. PICK j \in calls :
          /\ cands[j].source = r.source
          /\ cands[j].root_dir = r.root_dir
          /\ \A m \in calls :
                m < j => SourcePriority[cands[m].source] < SourcePriority[r.source]
      BY <2>2 DEF ProvenanceOf
  <2>6. j \in best
      BY <2>2, <2>5 DEF ProvenanceOf
  <2>7. \A m \in best : j <= m
      BY <2>3, <2>4, <2>5
  <2>8. FirstCall(best) = j
    <3>1. best \in SUBSET Nat /\ best # {}
        BY <2>3, <2>6
    <3>2. QED
        BY <3>1, <2>6, <2>7, FirstCallFacts
  <2>9. QED
      BY <2>5, <2>8
<1>4. QED
    BY <1>1, <1>2, <1>3, TypeCorrect, RootsOrdered, PTL DEF Spec
=============================================================================
