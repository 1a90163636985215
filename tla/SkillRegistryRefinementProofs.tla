-------------------- MODULE SkillRegistryRefinementProofs --------------------
(***************************************************************************)
(* Proof that load_registry implements RegistrySpec, and that when it      *)
(* returns the effective entry of every name is the one spec section 4.4   *)
(* prescribes.  The argument: the order in which the loader lists a root's *)
(* files (Key) is the order of tier, pack and path; on the candidate files *)
(* of a name, Outranks is the lexicographic order of tier priority, root   *)
(* and Key, a strict total order; loaded holds the greatest of the         *)
(* candidates merged so far, and the files still pending come after every  *)
(* merged file of their root.                                              *)
(***************************************************************************)
EXTENDS SkillRegistryRefinement, SkillRegistryProofs, WellFoundedInduction

(***************************************************************************)
(* Arithmetic of Key.                                                      *)
(***************************************************************************)
\* Inside the pack tier, Key orders files by pack and then by directory.
LEMMA PackKeyOrder ==
    ASSUME NEW a \in 0 .. N - 1, NEW b \in 0 .. N - 1,
           NEW d1 \in 0 .. N, NEW d2 \in 0 .. N
    PROVE  /\ (a * (N + 1) + d1 < b * (N + 1) + d2) <=> (a < b \/ (a = b /\ d1 < d2))
           /\ (a * (N + 1) + d1 = b * (N + 1) + d2) <=> (a = b /\ d1 = d2)
           /\ a * (N + 1) + d1 \in 0 .. N * (N + 1) - 1
<1> DEFINE x == a * (N + 1) + d1
           y == b * (N + 1) + d2
<1>1. N \in Nat \ {0}
    BY NAssumption
<1>2. ASSUME a < b PROVE x < y
  <2>1. (a + 1) * (N + 1) <= b * (N + 1)
      BY <1>1, <1>2
  <2>2. QED
      BY <1>1, <2>1
<1>3. ASSUME b < a PROVE y < x
  <2>1. (b + 1) * (N + 1) <= a * (N + 1)
      BY <1>1, <1>3
  <2>2. QED
      BY <1>1, <2>1
<1>4. (x < y) <=> (a < b \/ (a = b /\ d1 < d2))
    BY <1>1, <1>2, <1>3
<1>5. (x = y) <=> (a = b /\ d1 = d2)
    BY <1>1, <1>2, <1>3
<1>6. x \in 0 .. N * (N + 1) - 1
  <2>1. a * (N + 1) <= (N - 1) * (N + 1)
      BY <1>1
  <2>2. QED
      BY <1>1, <2>1
<1>7. QED
    BY <1>4, <1>5, <1>6

\* The fields of a location, tier by tier.
LocFieldsOf(l) ==
    /\ l = [sd |-> l.sd, tier |-> l.tier, pack |-> l.pack, dir |-> l.dir]
    /\ l.sd \in SkillDirs
    /\ \/ l.tier = "base" /\ l.pack = 0 /\ l.dir \in 1 .. N
       \/ l.tier = "pack" /\ l.pack \in 1 .. N /\ l.dir \in 0 .. N
       \/ l.tier = "project" /\ l.pack = 0 /\ l.dir \in 1 .. N

LEMMA LocFields ==
    ASSUME NEW l \in Loc
    PROVE  LocFieldsOf(l)
BY DEF Loc, Names, LocFieldsOf

\* The three tiers occupy consecutive ranges of Key.
KeyRangeOf(l) ==
    /\ Key(l) \in Nat
    /\ l.tier = "base" => Key(l) = l.dir /\ Key(l) \in 1 .. N
    /\ l.tier = "pack" =>
          /\ Key(l) = N + 1 + ((l.pack - 1) * (N + 1) + l.dir)
          /\ (l.pack - 1) * (N + 1) + l.dir \in 0 .. N * (N + 1) - 1
          /\ Key(l) \in N + 1 .. N + N * (N + 1)
    /\ l.tier = "project" =>
          /\ Key(l) = N + N * (N + 1) + l.dir
          /\ Key(l) \in N + N * (N + 1) + 1 .. N + N * (N + 1) + N

LEMMA KeyRange ==
    ASSUME NEW l \in Loc
    PROVE  KeyRangeOf(l)
<1>0. LocFieldsOf(l)
    BY LocFields
<1>1. N \in Nat \ {0} /\ N * (N + 1) \in Nat
    BY NAssumption
<1>2. CASE l.tier = "base"
  <2>1. Key(l) = l.dir
      BY <1>2 DEF Key
  <2>2. QED
      BY <1>0, <1>1, <1>2, <2>1 DEF KeyRangeOf, LocFieldsOf
<1>3. CASE l.tier = "pack"
  <2>1. l.pack - 1 \in 0 .. N - 1 /\ l.dir \in 0 .. N
      BY <1>0, <1>1, <1>3 DEF LocFieldsOf
  <2>2. (l.pack - 1) * (N + 1) + l.dir \in 0 .. N * (N + 1) - 1
      BY <2>1, PackKeyOrder
  <2>5. Key(l) = N + (l.pack - 1) * (N + 1) + l.dir + 1
      BY <1>3 DEF Key
  <2>3. Key(l) = N + 1 + ((l.pack - 1) * (N + 1) + l.dir)
      BY <1>1, <2>1, <2>5
  <2>4. QED
      BY <1>1, <1>3, <2>2, <2>3 DEF KeyRangeOf
<1>4. CASE l.tier = "project"
  <2>1. Key(l) = N + N * (N + 1) + l.dir
      BY <1>4 DEF Key
  <2>2. QED
      BY <1>0, <1>1, <1>4, <2>1 DEF KeyRangeOf, LocFieldsOf
<1>5. QED
    BY <1>0, <1>2, <1>3, <1>4 DEF LocFieldsOf

\* The priorities of the three tiers.
LEMMA TierPriorityValues ==
    TierPriority["base"] = 1 /\ TierPriority["pack"] = 2 /\ TierPriority["project"] = 3
BY DEF TierPriority, Tiers

\* The order of the loader's listing: a lower tier first, then a lower
\* pack, then a lower directory.
LocBefore(l, m) ==
    \/ TierPriority[l.tier] < TierPriority[m.tier]
    \/ /\ l.tier = m.tier
       /\ \/ l.pack < m.pack
          \/ l.pack = m.pack /\ l.dir < m.dir

\* Key lists the files of a root in that order, and tells them apart.
LEMMA KeyFacts ==
    ASSUME NEW l \in Loc, NEW m \in Loc
    PROVE  /\ Key(l) \in Nat
           /\ Key(l) < Key(m) <=> LocBefore(l, m)
           /\ Key(l) = Key(m) <=> (l.tier = m.tier /\ l.pack = m.pack /\ l.dir = m.dir)
<1>0. /\ KeyRangeOf(l) /\ KeyRangeOf(m)
      /\ LocFieldsOf(l) /\ LocFieldsOf(m)
    BY KeyRange, LocFields
<1>1. N \in Nat \ {0} /\ N * (N + 1) \in Nat
    BY NAssumption
<1> USE <1>0, <1>1, TierPriorityValues DEF KeyRangeOf, LocFieldsOf
<1>3. CASE l.tier = m.tier /\ l.tier = "pack"
  <2>1. l.pack - 1 \in 0 .. N - 1 /\ l.dir \in 0 .. N
        /\ m.pack - 1 \in 0 .. N - 1 /\ m.dir \in 0 .. N
      BY <1>3
  <2>2. /\ ((l.pack - 1) * (N + 1) + l.dir < (m.pack - 1) * (N + 1) + m.dir)
             <=> (l.pack - 1 < m.pack - 1 \/ (l.pack - 1 = m.pack - 1 /\ l.dir < m.dir))
        /\ ((l.pack - 1) * (N + 1) + l.dir = (m.pack - 1) * (N + 1) + m.dir)
             <=> (l.pack - 1 = m.pack - 1 /\ l.dir = m.dir)
      BY <2>1, PackKeyOrder
  <2>3. Key(l) = N + 1 + ((l.pack - 1) * (N + 1) + l.dir)
        /\ Key(m) = N + 1 + ((m.pack - 1) * (N + 1) + m.dir)
      BY <1>3
  <2>4. /\ (l.pack - 1 < m.pack - 1) <=> (l.pack < m.pack)
        /\ (l.pack - 1 = m.pack - 1) <=> (l.pack = m.pack)
        /\ ~(TierPriority[l.tier] < TierPriority[m.tier])
    <3>1. (l.pack - 1 < m.pack - 1) <=> (l.pack < m.pack)
        BY <2>1
    <3>2. (l.pack - 1 = m.pack - 1) <=> (l.pack = m.pack)
        BY <2>1
    <3>3. TierPriority[l.tier] = TierPriority[m.tier]
        BY <1>3
    <3>4. TierPriority[l.tier] \in Nat
        BY <1>3
    <3>5. QED
        BY <3>1, <3>2, <3>3, <3>4
  <2>5. QED
      BY <1>3, <2>1, <2>2, <2>3, <2>4 DEF LocBefore
<1>4. CASE l.tier = m.tier /\ l.tier # "pack"
    BY <1>4 DEF LocBefore
<1>5. CASE l.tier # m.tier
    BY <1>5 DEF LocBefore
<1>6. QED
    BY <1>3, <1>4, <1>5

\* Every non-empty set of naturals has a least element.
LEMMA LeastExists ==
    ASSUME NEW S \in SUBSET Nat, S # {}
    PROVE  \E m \in S : \A j \in S : m <= j
<1>1. PICK m \in S : \A j \in S : ~ (<<j, m>> \in OpToRel(<, Nat))
    BY NatLessThanWellFounded, WFMin
<1>2. \A j \in S : ~ (<<j, m>> \in OpToRel(<, Nat)) => m <= j
    BY DEF OpToRel
<1>3. QED
    BY <1>1, <1>2

\* The largest Key of any location.
KeyMax == N + N * (N + 1) + N

LEMMA KeyBound ==
    ASSUME NEW l \in Loc
    PROVE  Key(l) \in 0 .. KeyMax
<1>1. KeyRangeOf(l) /\ LocFieldsOf(l)
    BY KeyRange, LocFields
<1>2. N \in Nat \ {0} /\ N * (N + 1) \in Nat
    BY NAssumption
<1>3. QED
    BY <1>1, <1>2 DEF KeyRangeOf, LocFieldsOf, KeyMax

\* Every non-empty set of locations has one listed last.
LEMMA MaxKeyExists ==
    ASSUME NEW P \in SUBSET Loc, P # {}
    PROVE  \E l \in P : \A m \in P : Key(m) <= Key(l)
<1> DEFINE S == {KeyMax - Key(l) : l \in P}
<1>0. KeyMax \in Nat
    BY NAssumption DEF KeyMax
<1>1. \A l \in P : Key(l) \in 0 .. KeyMax
    BY KeyBound
<1>2. S \in SUBSET Nat /\ S # {}
  <2>1. S \in SUBSET Nat
      BY <1>0, <1>1
  <2>2. PICK l0 \in P : TRUE
      OBVIOUS
  <2>3. KeyMax - Key(l0) \in S
      OBVIOUS
  <2>4. QED
      BY <2>1, <2>3
<1>3. PICK s \in S : \A j \in S : s <= j
    BY <1>2, LeastExists
<1>4. PICK l \in P : s = KeyMax - Key(l)
    OBVIOUS
<1>5. \A m \in P : KeyMax - Key(l) <= KeyMax - Key(m)
    BY <1>3, <1>4
<1>6. \A m \in P : Key(m) <= Key(l)
    BY <1>0, <1>1, <1>5
<1>7. QED
    BY <1>6

(***************************************************************************)
(* Candidates: file l of the i-th root, <<i, l>>.                          *)
(***************************************************************************)
AllCands == {c \in (1 .. Len(roots)) \X Loc : c[2] \in Loadable(roots[c[1]])}

\* The facts about the state that the candidate lemmas rest on.
StateOK == roots \in Seq(RootRec) /\ DOMAIN fs \subseteq Loc

LEMMA CandFacts ==
    ASSUME NEW c \in AllCands
    PROVE  /\ c = <<c[1], c[2]>>
           /\ c[1] \in 1 .. Len(roots)
           /\ c[2] \in Loc
           /\ c[2].sd = roots[c[1]].skill_dir
BY DEF AllCands, Loadable

LEMMA CandidatesSub ==
    ASSUME NEW n
    PROVE  Candidates(n) \subseteq AllCands
BY DEF Candidates, AllCands

\* Outranks, on candidates, is the lexicographic order of tier priority,
\* root index and Key.
Above(c, d) ==
    \/ TierPriority[c[2].tier] > TierPriority[d[2].tier]
    \/ /\ TierPriority[c[2].tier] = TierPriority[d[2].tier]
       /\ \/ c[1] > d[1]
          \/ c[1] = d[1] /\ Key(d[2]) < Key(c[2])

LEMMA OutranksAbove ==
    ASSUME NEW c \in AllCands, NEW d \in AllCands
    PROVE  Outranks(c, d) <=> Above(c, d)
<1>1. c[2] \in Loc /\ d[2] \in Loc /\ c[1] \in Nat /\ d[1] \in Nat
    BY CandFacts
<1>2. LocFieldsOf(c[2]) /\ LocFieldsOf(d[2])
    BY <1>1, LocFields
<1>3. TierPriority[c[2].tier] = TierPriority[d[2].tier] <=> c[2].tier = d[2].tier
    BY <1>2, TierPriorityValues DEF LocFieldsOf
<1>4. Key(d[2]) < Key(c[2]) <=> LocBefore(d[2], c[2])
    BY <1>1, KeyFacts
<1>5. QED
    BY <1>1, <1>2, <1>3, <1>4, TierPriorityValues
       DEF Outranks, ProcessedAfter, Above, LocBefore, LocFieldsOf

\* Two candidates of the same root at the same Key are the same candidate.
LEMMA SameCand ==
    ASSUME NEW c \in AllCands, NEW d \in AllCands,
           c[1] = d[1], Key(c[2]) = Key(d[2])
    PROVE  c = d
<1>1. c[2] \in Loc /\ d[2] \in Loc
    BY CandFacts
<1>2. c[2].tier = d[2].tier /\ c[2].pack = d[2].pack /\ c[2].dir = d[2].dir
    BY <1>1, KeyFacts
<1>3. c[2].sd = d[2].sd
    BY CandFacts
<1>4. c[2] = d[2]
    BY <1>1, <1>2, <1>3, LocFields DEF LocFieldsOf
<1>5. QED
    BY <1>4, CandFacts

\* Outranks is a strict total order on candidates.
LEMMA OutranksOrder ==
    ASSUME NEW c \in AllCands, NEW d \in AllCands, NEW e \in AllCands
    PROVE  /\ ~ Outranks(c, c)
           /\ Outranks(c, d) => ~ Outranks(d, c)
           /\ Outranks(c, d) /\ Outranks(d, e) => Outranks(c, e)
           /\ c # d => Outranks(c, d) \/ Outranks(d, c)
<1>1. /\ Outranks(c, c) <=> Above(c, c)
      /\ Outranks(c, d) <=> Above(c, d)
      /\ Outranks(d, c) <=> Above(d, c)
      /\ Outranks(d, e) <=> Above(d, e)
      /\ Outranks(c, e) <=> Above(c, e)
    BY OutranksAbove
<1>2. /\ c[2] \in Loc /\ d[2] \in Loc /\ e[2] \in Loc
      /\ c[1] \in Nat /\ d[1] \in Nat /\ e[1] \in Nat
    BY CandFacts
<1>3. /\ TierPriority[c[2].tier] \in Nat
      /\ TierPriority[d[2].tier] \in Nat
      /\ TierPriority[e[2].tier] \in Nat
    BY <1>2, TierPriorityType DEF Loc, Tiers
<1>4. Key(c[2]) \in Nat /\ Key(d[2]) \in Nat /\ Key(e[2]) \in Nat
    BY <1>2, KeyRange DEF KeyRangeOf
<1>5. c[1] = d[1] /\ Key(c[2]) = Key(d[2]) => c = d
    BY SameCand
<1>6. QED
    BY <1>1, <1>2, <1>3, <1>4, <1>5 DEF Above

(***************************************************************************)
(* The candidate that outranks every other candidate of a set.             *)
(***************************************************************************)
IsMax(S, x) == x \in S /\ \A d \in S : d = x \/ Outranks(x, d)

LEMMA MaxUnique ==
    ASSUME NEW S \in SUBSET AllCands, NEW x, NEW y, IsMax(S, x), IsMax(S, y)
    PROVE  x = y
BY OutranksOrder DEF IsMax

\* The CHOOSE of SpecEffective and EffectiveUpTo picks the maximum.
LEMMA MaxChoose ==
    ASSUME NEW S \in SUBSET AllCands, NEW x, IsMax(S, x)
    PROVE  (CHOOSE c \in S : \A d \in S : d = c \/ Outranks(c, d)) = x
<1> DEFINE ch == CHOOSE c \in S : \A d \in S : d = c \/ Outranks(c, d)
<1>1. IsMax(S, ch)
    BY DEF IsMax
<1>2. QED
    BY <1>1, MaxUnique

\* The maximum of a union of two disjoint sets is the higher of the two
\* maxima.
LEMMA MaxUnion ==
    ASSUME NEW S \in SUBSET AllCands, NEW T \in SUBSET AllCands,
           NEW x, NEW y, IsMax(S, x), IsMax(T, y), x # y
    PROVE  /\ Outranks(y, x) => IsMax(S \cup T, y)
           /\ ~ Outranks(y, x) => IsMax(S \cup T, x)
<1>1. x \in AllCands /\ y \in AllCands
    BY DEF IsMax
<1>2. ASSUME Outranks(y, x) PROVE IsMax(S \cup T, y)
    BY <1>1, <1>2, OutranksOrder DEF IsMax
<1>3. ASSUME ~ Outranks(y, x) PROVE IsMax(S \cup T, x)
  <2>1. Outranks(x, y)
      BY <1>1, <1>3, OutranksOrder
  <2>2. QED
      BY <1>1, <2>1, OutranksOrder DEF IsMax
<1>4. QED
    BY <1>2, <1>3

(***************************************************************************)
(* The inductive invariant of the two nested loops.  The root being merged *)
(* is roots[ri - 1]; the candidates already merged are those of earlier    *)
(* roots and the files of that root that have left tier_entries.           *)
(***************************************************************************)
MergedC(n) ==
    {c \in Candidates(n) :
        \/ c[1] < ri - 1
        \/ c[1] = ri - 1 /\ c[2] \notin DOMAIN tier_entries}

\* tier_entries holds entries of the root last loaded.
PendInv ==
    /\ DOMAIN tier_entries # {} => ri >= 2
    /\ \A l \in DOMAIN tier_entries :
          /\ l \in Loadable(roots[ri - 1])
          /\ tier_entries[l] = EntryOf(roots[ri - 1], l)

\* The merge loop takes that root's files in Key order: those merged come
\* before those pending.
OrderInv ==
    ri >= 2 =>
       \A l \in Loadable(roots[ri - 1]) \ DOMAIN tier_entries :
          \A m \in DOMAIN tier_entries : Key(l) < Key(m)

\* loaded[n] is the entry of the highest merged candidate called n.
Resolved(n) ==
    IF MergedC(n) = {} THEN loaded[n] = NoEntry
    ELSE \E x \in MergedC(n) :
            /\ IsMax(MergedC(n), x)
            /\ loaded[n] = EntryOf(roots[x[1]], x[2])

IInv == PendInv /\ OrderInv /\ \A n \in Names : Resolved(n)

\* The files, the roots and the active packs never change, and with them
\* neither do the candidates and the entries built from files.
LEMMA DataUnchanged ==
    ASSUME fs' = fs, roots' = roots, active' = active
    PROVE  /\ \A n : Candidates(n)' = Candidates(n)
           /\ \A r, l : EntryOf(r, l)' = EntryOf(r, l)
           /\ \A r : Loadable(r)' = Loadable(r)
BY DEF Candidates, Loadable, EntryOf, EntryName, DirName, IncludeAllPacks

LEMMA InitIInv == Init => IInv
<1> SUFFICES ASSUME Init PROVE IInv
    OBVIOUS
<1>1. ri = 1 /\ DOMAIN tier_entries = {}
    BY DEF Init
<1>2. \A n \in Names : MergedC(n) = {}
    BY <1>1 DEF MergedC, Candidates
<1>3. \A n \in Names : Resolved(n)
    BY <1>2 DEF Resolved, Init
<1>4. QED
    BY <1>1, <1>3 DEF IInv, PendInv, OrderInv

LEMMA LoadRootIInv ==
    ASSUME TypeOK, IInv, LoadRoot
    PROVE  IInv'
<1>1. /\ ri \in 1 .. Len(roots) /\ DOMAIN tier_entries = {}
      /\ tier_entries' = [l \in Loadable(roots[ri]) |-> EntryOf(roots[ri], l)]
      /\ ri' = ri + 1
      /\ fs' = fs /\ roots' = roots /\ active' = active /\ loaded' = loaded
    BY DEF LoadRoot, TypeOK
<1>2. /\ \A n : Candidates(n)' = Candidates(n)
      /\ \A r, l : EntryOf(r, l)' = EntryOf(r, l)
      /\ \A r : Loadable(r)' = Loadable(r)
    BY <1>1, DataUnchanged
<1>3. PendInv'
    BY <1>1, <1>2 DEF PendInv
<1>4. OrderInv'
    BY <1>1, <1>2 DEF OrderInv
<1>5. ASSUME NEW n \in Names PROVE MergedC(n)' = MergedC(n)
  <2>1. MergedC(n)' = {c \in Candidates(n) :
                          \/ c[1] < ri
                          \/ c[1] = ri /\ c[2] \notin Loadable(roots[ri])}
      BY <1>1, <1>2 DEF MergedC
  <2>2. MergedC(n) = {c \in Candidates(n) : c[1] < ri}
      BY <1>1, CandidatesSub, CandFacts DEF MergedC
  <2>3. \A c \in Candidates(n) : c[1] = ri => c[2] \in Loadable(roots[ri])
      BY DEF Candidates
  <2>4. QED
      BY <2>1, <2>2, <2>3
<1>6. ASSUME NEW n \in Names PROVE Resolved(n)'
  <2>1. Resolved(n)
      BY DEF IInv
  <2>2. QED
      BY <2>1, <1>1, <1>2, <1>5 DEF Resolved
<1>7. QED
    BY <1>3, <1>4, <1>6 DEF IInv

\* A candidate of root k that is merged outranks the merged candidates
\* exactly when its tier is at least theirs: the earlier roots, and the
\* files of root k merged before it, all come before it.
LEMMA OutranksMerged ==
    ASSUME NEW c0 \in AllCands, NEW x \in AllCands,
           \/ x[1] < c0[1]
           \/ x[1] = c0[1] /\ Key(x[2]) < Key(c0[2])
    PROVE  Outranks(c0, x) <=>
              TierPriority[c0[2].tier] >= TierPriority[x[2].tier]
<1>1. c0[2] \in Loc /\ x[2] \in Loc
    BY CandFacts
<1>2. TierPriority[c0[2].tier] \in Nat /\ TierPriority[x[2].tier] \in Nat
    BY <1>1, TierPriorityType DEF Loc, Tiers
<1>3. QED
    BY <1>2, OutranksAbove DEF Above

LEMMA MergeEntryIInv ==
    ASSUME TypeOK, IInv, NEW l \in DOMAIN tier_entries, MergeEntry(l)
    PROVE  IInv'
<1> DEFINE k == ri - 1
           entry == tier_entries[l]
           n0 == entry.name
           c0 == <<k, l>>
<1>1. /\ ri >= 2 /\ k \in 1 .. Len(roots)
      /\ l \in Loadable(roots[k]) /\ entry = EntryOf(roots[k], l)
    BY DEF IInv, PendInv, TypeOK
<1>2. /\ \A m \in DOMAIN tier_entries : Key(l) <= Key(m)
      /\ loaded' = IF loaded[n0] = NoEntry \/ Replaces(entry, loaded[n0])
                   THEN [loaded EXCEPT ![n0] = entry]
                   ELSE loaded
      /\ tier_entries' = [m \in DOMAIN tier_entries \ {l} |-> tier_entries[m]]
      /\ fs' = fs /\ roots' = roots /\ active' = active /\ ri' = ri
    BY DEF MergeEntry
<1>3. /\ \A n : Candidates(n)' = Candidates(n)
      /\ \A r, m : EntryOf(r, m)' = EntryOf(r, m)
      /\ \A r : Loadable(r)' = Loadable(r)
    BY <1>2, DataUnchanged
<1>4. /\ l \in Loc /\ fs[l] \in Content /\ roots[k] \in RootRec
      /\ entry \in Entry /\ n0 \in Names /\ n0 = EntryName(fs[l], l)
      /\ entry.tier = l.tier
  <2>1. l \in Loc /\ fs[l] \in Content /\ roots[k] \in RootRec
      BY <1>1 DEF TypeOK, Loadable
  <2>2. EntryOf(roots[k], l) \in Entry
      BY <2>1, EntryOfType
  <2>3. QED
      BY <1>1, <2>1, <2>2 DEF EntryOf, Entry
<1>5. c0 \in Candidates(n0) /\ c0 \in AllCands
    BY <1>1, <1>4 DEF Candidates, AllCands
<1>6. c0 \notin MergedC(n0)
    BY <1>1 DEF MergedC
<1>7. \A n \in Names : MergedC(n)' = MergedC(n) \cup (IF n = n0 THEN {c0} ELSE {})
  <2> SUFFICES ASSUME NEW n \in Names, NEW c \in Candidates(n)
               PROVE  c \in MergedC(n)' <=>
                         c \in MergedC(n) \/ (n = n0 /\ c = c0)
      BY <1>3, <1>5 DEF MergedC
  <2>1. c \in MergedC(n)' <=> c \in MergedC(n) \/ (c[1] = k /\ c[2] = l)
      BY <1>2, <1>3 DEF MergedC
  <2>2. c = <<c[1], c[2]>> /\ EntryName(fs[c[2]], c[2]) = n
      BY CandidatesSub, CandFacts DEF Candidates
  <2>3. QED
      BY <2>1, <2>2, <1>4
<1>8. PendInv'
    BY <1>1, <1>2, <1>3 DEF IInv, PendInv
<1>9. OrderInv'
  <2> SUFFICES ASSUME NEW a \in Loadable(roots[k]) \ DOMAIN tier_entries',
                      NEW m \in DOMAIN tier_entries'
               PROVE  Key(a) < Key(m)
      BY <1>2, <1>3 DEF OrderInv
  <2>1. m \in DOMAIN tier_entries /\ m # l /\ m \in Loadable(roots[k])
      BY <1>2 DEF IInv, PendInv
  <2>2. CASE a # l
      BY <1>1, <1>2, <2>1, <2>2 DEF IInv, OrderInv
  <2>3. CASE a = l
    <3>1. <<k, l>> \in AllCands /\ <<k, m>> \in AllCands
        BY <1>1, <2>1 DEF AllCands, Loadable, TypeOK
    <3>2. Key(l) # Key(m)
        BY <3>1, <2>1, SameCand
    <3>3. Key(l) \in Nat /\ Key(m) \in Nat
        BY <3>1, CandFacts, KeyRange DEF KeyRangeOf
    <3>4. QED
        BY <1>2, <2>1, <2>3, <3>2, <3>3
  <2>4. QED
      BY <2>2, <2>3
<1>10. \A x \in MergedC(n0) :
          Outranks(c0, x) <=> TierPriority[l.tier] >= TierPriority[x[2].tier]
  <2> SUFFICES ASSUME NEW x \in MergedC(n0)
               PROVE  Outranks(c0, x) <=> TierPriority[l.tier] >= TierPriority[x[2].tier]
      OBVIOUS
  <2>1. x \in AllCands /\ x \in Candidates(n0)
      BY CandidatesSub DEF MergedC
  <2>2. x[1] < k \/ (x[1] = k /\ x[2] \in Loadable(roots[k]) \ DOMAIN tier_entries)
      BY <2>1 DEF MergedC, Candidates
  <2>3. x[1] < k \/ (x[1] = k /\ Key(x[2]) < Key(l))
      BY <2>2, <1>1 DEF IInv, OrderInv
  <2>4. QED
      BY <2>1, <2>3, <1>5, OutranksMerged
<1>11. ASSUME NEW n \in Names, n # n0 PROVE Resolved(n)'
  <2>1. Resolved(n) /\ MergedC(n)' = MergedC(n) /\ loaded'[n] = loaded[n]
      BY <1>2, <1>7, <1>11 DEF IInv, TypeOK
  <2>2. QED
      BY <2>1, <1>2, <1>3 DEF Resolved
<1>12. ASSUME NEW n \in Names, n = n0 PROVE Resolved(n)'
  <2>0. MergedC(n)' = MergedC(n) \cup {c0}
      BY <1>7, <1>12
  <2>1. CASE MergedC(n) = {}
    <3>1. loaded[n] = NoEntry
        BY <2>1 DEF IInv, Resolved
    <3>2. loaded'[n] = entry
        BY <3>1, <1>2, <1>4, <1>12 DEF TypeOK
    <3>3. IsMax({c0}, c0)
        BY DEF IsMax
    <3>4. QED
        BY <2>0, <2>1, <3>2, <3>3, <1>1, <1>2, <1>3 DEF Resolved
  <2>2. CASE MergedC(n) # {}
    <3>1. PICK x \in MergedC(n) :
              IsMax(MergedC(n), x) /\ loaded[n] = EntryOf(roots[x[1]], x[2])
        BY <2>2 DEF IInv, Resolved
    <3>2. x \in AllCands /\ x # c0
        BY <1>6, <1>12, CandidatesSub DEF MergedC
    <3>3. loaded[n] # NoEntry /\ loaded[n].tier = x[2].tier
      <4>1. x[2] \in Loc /\ fs[x[2]] \in Content /\ roots[x[1]] \in RootRec
          BY <3>2, CandFacts DEF AllCands, Loadable, TypeOK
      <4>2. EntryOf(roots[x[1]], x[2]) \in Entry
          BY <4>1, EntryOfType
      <4>3. QED
          BY <3>1, <4>2, NoEntryAssumption DEF EntryOf
    <3>4. Replaces(entry, loaded[n]) <=> Outranks(c0, x)
        BY <3>3, <1>4, <1>10, <1>12 DEF Replaces
    <3>5. IsMax({c0}, c0)
        BY DEF IsMax
    <3>6. MergedC(n) \in SUBSET AllCands /\ {c0} \in SUBSET AllCands
        BY <1>5, CandidatesSub DEF MergedC
    <3>7. CASE Outranks(c0, x)
      <4>1. loaded'[n] = entry
          BY <3>3, <3>4, <3>7, <1>2, <1>4, <1>12 DEF TypeOK
      <4>2. IsMax(MergedC(n) \cup {c0}, c0)
          BY <3>1, <3>2, <3>5, <3>6, <3>7, MaxUnion
      <4>3. QED
          BY <2>0, <4>1, <4>2, <1>1, <1>2, <1>3 DEF Resolved, IsMax
    <3>8. CASE ~ Outranks(c0, x)
      <4>1. loaded'[n] = loaded[n]
          BY <3>3, <3>4, <3>8, <1>2, <1>12
      <4>2. IsMax(MergedC(n) \cup {c0}, x)
          BY <3>1, <3>2, <3>5, <3>6, <3>8, MaxUnion
      <4>3. QED
          BY <2>0, <3>1, <4>1, <4>2, <1>2, <1>3 DEF Resolved, IsMax
    <3>9. QED
        BY <3>7, <3>8
  <2>3. QED
      BY <2>1, <2>2
<1>13. \A n \in Names : Resolved(n)'
    BY <1>11, <1>12
<1>14. QED
    BY <1>8, <1>9, <1>13 DEF IInv

LEMMA StutterIInv ==
    ASSUME IInv, UNCHANGED vars
    PROVE  IInv'
<1>1. /\ \A n : Candidates(n)' = Candidates(n)
      /\ \A r, m : EntryOf(r, m)' = EntryOf(r, m)
      /\ \A r : Loadable(r)' = Loadable(r)
    BY DataUnchanged DEF vars
<1>2. \A n : MergedC(n)' = MergedC(n)
    BY <1>1 DEF vars, MergedC
<1>3. QED
    BY <1>1, <1>2 DEF vars, IInv, PendInv, OrderInv, Resolved

\* The strengthened invariant holds in every state of load_registry.
THEOREM IInvHolds == Spec => [](TypeOK /\ IInv)
<1>1. Init => IInv
    BY InitIInv
<1>2. TypeOK /\ IInv /\ [Next]_vars => IInv'
  <2> SUFFICES ASSUME TypeOK, IInv, [Next]_vars PROVE IInv'
      OBVIOUS
  <2>1. CASE LoadRoot
      BY <2>1, LoadRootIInv
  <2>2. CASE \E l \in DOMAIN tier_entries : MergeEntry(l)
      BY <2>2, MergeEntryIInv
  <2>3. CASE UNCHANGED vars
      BY <2>3, StutterIInv
  <2>4. QED
      BY <2>1, <2>2, <2>3 DEF Next
<1>3. QED
    BY <1>1, <1>2, TypeCorrect, PTL DEF Spec

(***************************************************************************)
(* Spec sections 4.4 and 8: when load_registry returns, the effective      *)
(* entry of every name is the one of highest tier, and among equal tiers   *)
(* the one processed last in root, tier, pack and path order.              *)
(***************************************************************************)
THEOREM EffectiveCorrect == Spec => []EffectiveIsHighestTierLastProcessed
<1>1. TypeOK /\ IInv => EffectiveIsHighestTierLastProcessed
  <2> SUFFICES ASSUME TypeOK, IInv, Finished, NEW n \in Names
               PROVE  loaded[n] = SpecEffective(n)
      BY DEF EffectiveIsHighestTierLastProcessed
  <2>1. ri = Len(roots) + 1 /\ DOMAIN tier_entries = {}
      BY DEF Finished, TypeOK
  <2>2. MergedC(n) = Candidates(n)
      BY <2>1, CandidatesSub, CandFacts DEF MergedC
  <2>3. Resolved(n)
      BY DEF IInv
  <2>4. CASE Candidates(n) = {}
      BY <2>2, <2>3, <2>4 DEF Resolved, SpecEffective
  <2>5. CASE Candidates(n) # {}
    <3>1. PICK x \in Candidates(n) :
              IsMax(Candidates(n), x) /\ loaded[n] = EntryOf(roots[x[1]], x[2])
        BY <2>2, <2>3, <2>5 DEF Resolved
    <3>2. (CHOOSE c \in Candidates(n) :
              \A d \in Candidates(n) : d = c \/ Outranks(c, d)) = x
        BY <3>1, CandidatesSub, MaxChoose
    <3>3. QED
        BY <2>5, <3>1, <3>2 DEF SpecEffective
  <2>6. QED
      BY <2>4, <2>5
<1>2. QED
    BY <1>1, IInvHolds, PTL

(***************************************************************************)
(* The refinement mapping.                                                 *)
(***************************************************************************)
\* RegistrySpec's EffectiveUpTo, over this module's operators: Eff takes
\* the candidates, the root list and the files as arguments.
Eff(Cs, k, rts, F) ==
    LET C == {c \in Cs : c[1] <= k} IN
    IF C = {} THEN NoEntry
    ELSE LET c == CHOOSE c \in C : \A d \in C : d = c \/ Outranks(c, d)
         IN  [name |-> EntryName(F[c[2]], c[2]), tier |-> c[2].tier,
              loc |-> c[2], root |-> rts[c[1]]]

EUT(k, n) == Eff(Candidates(n), k, roots, fs)

LEMMA AbsEUT ==
    ASSUME NEW k, NEW n
    PROVE  Abs!EffectiveUpTo(k, n) = EUT(k, n)
BY DEF Abs!EffectiveUpTo, Abs!R!Candidates, Abs!R!Loadable, Abs!R!EntryName,
       Abs!R!DirName, Abs!R!IncludeAllPacks, Abs!R!Outranks,
       Abs!R!ProcessedAfter, Abs!R!TierPriority, Abs!R!Tiers, Abs!R!Loc,
       Abs!R!Names, Abs!R!EntryOf, EUT, Candidates, Loadable, EntryName,
       DirName, IncludeAllPacks, Outranks, ProcessedAfter, TierPriority,
       Tiers, Loc, Names, EntryOf, Eff

\* The condition by which LoadedBar picks the last pending entry of the
\* highest tier.
TopCond(P, l) ==
    \A m \in P :
       \/ TierPriority[tier_entries[m].tier] < TierPriority[tier_entries[l].tier]
       \/ /\ tier_entries[m].tier = tier_entries[l].tier
          /\ Key(m) <= Key(l)

\* The candidates of the files still pending, called n.
PendC(n) == {<<ri - 1, m>> : m \in PendingOf(n)}

\* The entry built from candidate x.
LEMMA CandEntry ==
    ASSUME TypeOK, NEW x \in AllCands
    PROVE  /\ EntryOf(roots[x[1]], x[2]) \in Entry
           /\ EntryOf(roots[x[1]], x[2]) # NoEntry
           /\ EntryOf(roots[x[1]], x[2]).tier = x[2].tier
<1>1. x[2] \in Loc /\ fs[x[2]] \in Content /\ roots[x[1]] \in RootRec
    BY CandFacts DEF AllCands, Loadable, TypeOK
<1>2. EntryOf(roots[x[1]], x[2]) \in Entry
    BY <1>1, EntryOfType
<1>3. QED
    BY <1>2, NoEntryAssumption DEF EntryOf

\* A pending file of name n is a candidate of root ri - 1 called n.
LEMMA PendingFacts ==
    ASSUME TypeOK, IInv, NEW n \in Names, NEW m \in PendingOf(n)
    PROVE  /\ ri >= 2 /\ ri - 1 \in 1 .. Len(roots)
           /\ m \in Loc /\ m \in DOMAIN tier_entries
           /\ tier_entries[m] = EntryOf(roots[ri - 1], m)
           /\ tier_entries[m].tier = m.tier
           /\ <<ri - 1, m>> \in Candidates(n)
           /\ <<ri - 1, m>> \in AllCands
<1>1. /\ m \in DOMAIN tier_entries /\ tier_entries[m].name = n
      /\ ri >= 2 /\ ri - 1 \in 1 .. Len(roots)
      /\ m \in Loadable(roots[ri - 1])
      /\ tier_entries[m] = EntryOf(roots[ri - 1], m)
    BY DEF PendingOf, IInv, PendInv, TypeOK
<1>2. m \in Loc
    BY <1>1 DEF TypeOK, Loadable
<1>3. EntryName(fs[m], m) = n /\ tier_entries[m].tier = m.tier
    BY <1>1 DEF EntryOf
<1>4. <<ri - 1, m>> \in Candidates(n)
    BY <1>1, <1>2, <1>3 DEF Candidates
<1>5. QED
    BY <1>1, <1>2, <1>3, <1>4, CandidatesSub

\* The candidates of the first ri - 1 roots are those merged and those
\* pending.
LEMMA CandsSplit ==
    ASSUME TypeOK, IInv, NEW n \in Names
    PROVE  /\ {c \in Candidates(n) : c[1] <= ri - 1} = MergedC(n) \cup PendC(n)
           /\ MergedC(n) \cap PendC(n) = {}
           /\ PendC(n) \in SUBSET AllCands
<1>1. \A m \in PendingOf(n) :
         <<ri - 1, m>> \in Candidates(n) /\ <<ri - 1, m>> \in AllCands
         /\ m \in DOMAIN tier_entries
    BY PendingFacts
<1>2. ASSUME NEW c \in Candidates(n), c[1] = ri - 1, c[2] \in DOMAIN tier_entries
      PROVE  c \in PendC(n)
  <2>1. c = <<c[1], c[2]>> /\ EntryName(fs[c[2]], c[2]) = n
      BY CandidatesSub, CandFacts DEF Candidates
  <2>2. tier_entries[c[2]] = EntryOf(roots[ri - 1], c[2])
      BY <1>2 DEF IInv, PendInv
  <2>3. c[2] \in PendingOf(n)
      BY <1>2, <2>1, <2>2 DEF PendingOf, EntryOf
  <2>4. QED
      BY <1>2, <2>1, <2>3 DEF PendC
<1>3. \A c \in Candidates(n) : c[1] \in Nat
    BY CandidatesSub, CandFacts
<1>4. ri \in Nat
    BY DEF TypeOK
<1>5. QED
    BY <1>1, <1>2, <1>3, <1>4 DEF MergedC, PendC

\* LoadedBar shows, for every name, the effective entry over the roots
\* loaded so far, pending files included.
LEMMA RefMap ==
    ASSUME TypeOK, IInv, NEW n \in Names
    PROVE  LoadedBar[n] = EUT(ri - 1, n)
<1> DEFINE k == ri - 1
           P == PendingOf(n)
           C == {c \in Candidates(n) : c[1] <= k}
           ch(S) == CHOOSE c \in S : \A d \in S : d = c \/ Outranks(c, d)
<1>1. EUT(k, n) = IF C = {} THEN NoEntry ELSE EntryOf(roots[ch(C)[1]], ch(C)[2])
    BY DEF EUT, Eff, EntryOf
<1>2. C = MergedC(n) \cup PendC(n) /\ MergedC(n) \cap PendC(n) = {}
      /\ PendC(n) \in SUBSET AllCands /\ MergedC(n) \in SUBSET AllCands
    BY CandsSplit, CandidatesSub DEF MergedC
<1>3. Resolved(n)
    BY DEF IInv
<1>4. CASE P = {}
  <2>1. LoadedBar[n] = loaded[n] /\ C = MergedC(n)
      BY <1>2, <1>4 DEF LoadedBar, PendC
  <2>2. CASE C = {}
      BY <1>1, <1>3, <2>1, <2>2 DEF Resolved
  <2>3. CASE C # {}
    <3>1. PICK x \in C : IsMax(C, x) /\ loaded[n] = EntryOf(roots[x[1]], x[2])
        BY <1>3, <2>1, <2>3 DEF Resolved
    <3>2. ch(C) = x
        BY <1>2, <3>1, MaxChoose
    <3>3. QED
        BY <1>1, <2>1, <2>3, <3>1, <3>2
  <2>4. QED
      BY <2>2, <2>3
<1>5. CASE P # {}
  <2>1. P \in SUBSET Loc
      BY PendingFacts
  <2>2. PICK t \in P : \A m \in P : Key(m) <= Key(t)
      BY <1>5, <2>1, MaxKeyExists
  <2>3. TopCond(P, t)
    <3> SUFFICES ASSUME NEW m \in P
                 PROVE  \/ TierPriority[tier_entries[m].tier] < TierPriority[tier_entries[t].tier]
                        \/ /\ tier_entries[m].tier = tier_entries[t].tier
                           /\ Key(m) <= Key(t)
        BY DEF TopCond
    <3>1. tier_entries[m].tier = m.tier /\ tier_entries[t].tier = t.tier
          /\ m \in Loc /\ t \in Loc
        BY PendingFacts
    <3>2. Key(m) <= Key(t)
        BY <2>2
    <3>3. /\ Key(m) < Key(t) <=> LocBefore(m, t)
          /\ Key(m) = Key(t) => m.tier = t.tier
          /\ Key(m) \in Nat /\ Key(t) \in Nat
        BY <3>1, KeyFacts
    <3>4. QED
        BY <3>1, <3>2, <3>3 DEF LocBefore
  <2>0. PICK top : top = CHOOSE l \in P : TopCond(P, l)
      OBVIOUS
  <2> DEFINE t0 == <<k, top>>
  <2>4. top \in P /\ TopCond(P, top)
    <3>1. \E l \in P : TopCond(P, l)
        BY <2>2, <2>3
    <3>2. QED
        BY <2>0, <3>1, Zenon
  <2>5. LoadedBar[n] = IF \/ loaded[n] = NoEntry
                          \/ TierPriority[tier_entries[top].tier] >= TierPriority[loaded[n].tier]
                       THEN tier_entries[top] ELSE loaded[n]
    <3>1. LoadedBar[n] =
            LET top1 == CHOOSE l \in P : TopCond(P, l)
            IN  IF \/ loaded[n] = NoEntry
                   \/ TierPriority[tier_entries[top1].tier] >= TierPriority[loaded[n].tier]
                THEN tier_entries[top1] ELSE loaded[n]
        BY <1>5 DEF LoadedBar, TopCond
    <3>2. QED
        BY <2>0, <3>1
  <2>6. /\ tier_entries[top] = EntryOf(roots[k], top)
        /\ tier_entries[top].tier = top.tier
        /\ t0 \in AllCands /\ t0 \in PendC(n) /\ t0 \notin MergedC(n)
        /\ k \in 1 .. Len(roots) /\ ri >= 2
      BY <1>2, <2>4, PendingFacts DEF PendC
  <2>7. IsMax(PendC(n), t0)
    <3> SUFFICES ASSUME NEW m \in P, m # top PROVE Outranks(t0, <<k, m>>)
        BY <2>6 DEF IsMax, PendC
    <3>1. /\ <<k, m>> \in AllCands
          /\ tier_entries[m].tier = m.tier
          /\ m \in Loc /\ top \in Loc
        BY <2>4, PendingFacts
    <3>2. <<k, m>> # t0
        OBVIOUS
    <3>3. Key(m) # Key(top)
        BY <2>6, <3>1, <3>2, SameCand
    <3>4. TierPriority[m.tier] \in Nat /\ TierPriority[top.tier] \in Nat
          /\ Key(m) \in Nat /\ Key(top) \in Nat
        BY <3>1, TierPriorityType, KeyRange DEF Loc, Tiers, KeyRangeOf
    <3>5. \/ TierPriority[m.tier] < TierPriority[top.tier]
          \/ m.tier = top.tier /\ Key(m) < Key(top)
        BY <2>4, <2>6, <3>1, <3>3, <3>4 DEF TopCond
    <3>6. QED
        BY <2>6, <3>1, <3>4, <3>5, OutranksAbove DEF Above
  <2>8. CASE MergedC(n) = {}
    <3>1. loaded[n] = NoEntry
        BY <2>8, <1>3 DEF Resolved
    <3>2. C = PendC(n) /\ C # {}
        BY <1>2, <2>6, <2>8
    <3>3. ch(C) = t0
        BY <1>2, <2>7, <3>2, MaxChoose
    <3>4. LoadedBar[n] = EntryOf(roots[k], top)
        BY <2>5, <2>6, <3>1
    <3>5. EUT(k, n) = EntryOf(roots[t0[1]], t0[2])
        BY <1>1, <3>2, <3>3
    <3>6. QED
        BY <3>4, <3>5
  <2>9. CASE MergedC(n) # {}
    <3>1. PICK x \in MergedC(n) :
              IsMax(MergedC(n), x) /\ loaded[n] = EntryOf(roots[x[1]], x[2])
        BY <2>9, <1>3 DEF Resolved
    <3>2. x \in AllCands /\ x # t0
        BY <1>2, <2>6
    <3>3. loaded[n] # NoEntry /\ loaded[n].tier = x[2].tier
        BY <3>1, <3>2, CandEntry
    <3>4. Outranks(t0, x) <=> TierPriority[top.tier] >= TierPriority[x[2].tier]
      <4>1. x[1] < k \/ (x[1] = k /\ x[2] \in Loadable(roots[k]) \ DOMAIN tier_entries)
          BY <3>1 DEF MergedC, Candidates
      <4>2. top \in DOMAIN tier_entries
          BY <2>4, PendingFacts
      <4>3. x[1] < k \/ (x[1] = k /\ Key(x[2]) < Key(top))
          BY <4>1, <4>2, <2>6 DEF IInv, OrderInv
      <4>4. QED
          BY <2>6, <3>2, <4>3, OutranksMerged
    <3>5. C # {}
        BY <1>2, <3>1
    <3>6. CASE Outranks(t0, x)
      <4>1. IsMax(C, t0)
          BY <1>2, <2>7, <3>1, <3>2, <3>6, MaxUnion
      <4>2. ch(C) = t0
          BY <1>2, <4>1, MaxChoose
      <4>3. LoadedBar[n] = tier_entries[top]
          BY <2>5, <2>6, <3>3, <3>4, <3>6
      <4>4. EUT(k, n) = EntryOf(roots[t0[1]], t0[2])
          BY <1>1, <3>5, <4>2
      <4>5. QED
          BY <2>6, <4>3, <4>4
    <3>7. CASE ~ Outranks(t0, x)
      <4>1. IsMax(C, x)
          BY <1>2, <2>7, <3>1, <3>2, <3>7, MaxUnion
      <4>2. ch(C) = x
          BY <1>2, <4>1, MaxChoose
      <4>3. LoadedBar[n] = loaded[n]
          BY <2>5, <2>6, <3>3, <3>4, <3>7
      <4>4. EUT(k, n) = EntryOf(roots[x[1]], x[2])
          BY <1>1, <3>5, <4>2
      <4>5. QED
          BY <3>1, <4>3, <4>4
    <3>8. QED
        BY <3>6, <3>7
  <2>10. QED
      BY <2>8, <2>9
<1>6. QED
    BY <1>4, <1>5

\* The mapped registry as a whole.
LEMMA RefMapFun ==
    ASSUME TypeOK, IInv
    PROVE  LoadedBar = [n \in Names |-> EUT(ri - 1, n)]
<1>1. DOMAIN LoadedBar = Names
    BY DEF LoadedBar
<1>2. QED
    BY <1>1, RefMap DEF LoadedBar

\* The refinement mapping, as a state predicate.
RefInv == LoadedBar = [n \in Names |-> EUT(ri - 1, n)]

\* The refinement mapping's registry is, in every reachable state, the
\* abstract registry after the roots loaded so far (RefMap as an invariant).
THEOREM RefInvHolds == Spec => [](TypeOK /\ RefInv)
<1>1. TypeOK /\ IInv => RefInv
    BY RefMapFun DEF RefInv
<1>2. QED
    BY <1>1, IInvHolds, PTL

(***************************************************************************)
(* load_registry implements RegistrySpec: its initial state maps to an     *)
(* initial state of RegistrySpec, LoadRoot to TakeRoot, and MergeEntry to  *)
(* a stutter, in every state the two loops reach, for every N, set of     *)
(* skill directories, layout and root list.                                *)
(***************************************************************************)
THEOREM Refinement == Spec => ImplementsRegistrySpec
<1>1. Init => Abs!AbsInit
  <2> SUFFICES ASSUME Init PROVE Abs!AbsInit
      OBVIOUS
  <2>1. DOMAIN tier_entries = {} /\ ri = 1
      BY DEF Init
  <2>2. LoadedBar = [n \in Names |-> NoEntry]
      BY <2>1 DEF LoadedBar, PendingOf, Init
  <2>3. DOMAIN fs \subseteq Loc /\ fs \in [DOMAIN fs -> Content]
      BY LayoutsAssumption DEF Init
  <2>4. QED
      BY <2>1, <2>2, <2>3
         DEF Init, Abs!AbsInit, DoneBar, Abs!R!Loc, Abs!R!Content, Abs!R!Names,
             Loc, Content, Names
<1>2. TypeOK /\ RefInv /\ RefInv' /\ [Next]_vars
        => [Abs!TakeRoot]_Abs!absvars
  <2> SUFFICES ASSUME TypeOK, RefInv, RefInv', [Next]_vars
               PROVE  [Abs!TakeRoot]_Abs!absvars
      OBVIOUS
  <2>1. LoadedBar = [n \in Names |-> Eff(Candidates(n), ri - 1, roots, fs)]
      BY DEF RefInv, EUT
  <2>2. LoadedBar' = [n \in Names |-> Eff(Candidates(n)', ri' - 1, roots', fs')]
      BY DEF RefInv, EUT
  <2>3. CASE LoadRoot
    <3>1. /\ ri \in 1 .. Len(roots) /\ ri' = ri + 1
          /\ fs' = fs /\ roots' = roots /\ active' = active
        BY <2>3 DEF LoadRoot, TypeOK
    <3>2. \A n : Candidates(n)' = Candidates(n)
        BY <3>1, DataUnchanged
    <3>3. LoadedBar' = [n \in Names |-> EUT(ri, n)]
        BY <2>2, <3>1, <3>2 DEF EUT
    <3>4. /\ DoneBar < Len(roots) /\ DoneBar' = DoneBar + 1
          /\ LoadedBar' = [n \in Names |-> Abs!EffectiveUpTo(DoneBar + 1, n)]
        BY <3>1, <3>3, AbsEUT DEF DoneBar
    <3>5. QED
        BY <3>1, <3>4 DEF Abs!TakeRoot, Abs!R!Names, Names
  <2>4. CASE \E l \in DOMAIN tier_entries : MergeEntry(l)
    <3>1. fs' = fs /\ roots' = roots /\ active' = active /\ ri' = ri
        BY <2>4 DEF MergeEntry
    <3>2. \A n : Candidates(n)' = Candidates(n)
        BY <3>1, DataUnchanged
    <3>3. LoadedBar' = LoadedBar
        BY <2>1, <2>2, <3>1, <3>2
    <3>4. QED
        BY <3>1, <3>3 DEF Abs!absvars, DoneBar
  <2>5. CASE UNCHANGED vars
    <3>1. fs' = fs /\ roots' = roots /\ active' = active /\ ri' = ri
        BY <2>5 DEF vars
    <3>2. \A n : Candidates(n)' = Candidates(n)
        BY <3>1, DataUnchanged
    <3>3. LoadedBar' = LoadedBar
        BY <2>1, <2>2, <3>1, <3>2
    <3>4. QED
        BY <3>1, <3>3 DEF Abs!absvars, DoneBar
  <2>6. QED
      BY <2>3, <2>4, <2>5 DEF Next
<1>3. QED
    BY <1>1, <1>2, RefInvHolds, PTL DEF Spec, ImplementsRegistrySpec, Abs!AbsSpec
=============================================================================
