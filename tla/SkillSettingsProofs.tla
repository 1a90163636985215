------------------------- MODULE SkillSettingsProofs -------------------------
(***************************************************************************)
(* Proofs about SkillSettings, for every set of values, default pack list  *)
(* and set of file contents.  The loops that filter a field's items are    *)
(* recursive functions over the prefix length; their facts are proved by a *)
(* least-counterexample argument over that length.                         *)
(***************************************************************************)
EXTENDS SkillSettings, FiniteSetTheorems, WellFoundedInduction, TLAPS

\* Every non-empty set of naturals has a least element.
LEMMA LeastNat ==
    ASSUME NEW S \in SUBSET Nat, S # {}
    PROVE  \E m \in S : \A j \in S : m <= j
<1>1. PICK m \in S : \A j \in S : ~ (<<j, m>> \in OpToRel(<, Nat))
    BY NatLessThanWellFounded, WFMin
<1>2. \A j \in S : ~ (<<j, m>> \in OpToRel(<, Nat)) => m <= j
    BY DEF OpToRel
<1>3. QED
    BY <1>1, <1>2

(***************************************************************************)
(* The loops of normalize_string_array and of the `roots` branch: g[i] is  *)
(* `normalized` after the first i items of s, and e gives what is appended *)
(* for a usable item (its trimmed text, or the resolved path).             *)
(***************************************************************************)
Loop(s, e, g, m) ==
    g = [i \in 0 .. m |-> IF i = 0 THEN << >>
                          ELSE IF IsUsableString(s[i]) THEN Append(g[i - 1], e[s[i]])
                                                       ELSE g[i - 1]]

\* The items a usable string can be.
StrItem == {x \in Item : x.kind = "string"}

\* The loop is defined for every number of items.
LEMMA LoopExists ==
    ASSUME NEW s, NEW e, NEW k \in Nat
    PROVE  \E g : Loop(s, e, g, k)
<1> DEFINE T == {n \in Nat : ~ \E g : Loop(s, e, g, n)}
<1> SUFFICES T = {}
    OBVIOUS
<1>1. SUFFICES ASSUME T # {} PROVE FALSE
    OBVIOUS
<1>2. PICK m \in T : \A j \in T : m <= j
    BY <1>1, LeastNat
<1>3. m # 0
  <2>1. Loop(s, e, [i \in 0 .. 0 |-> << >>], 0)
      BY DEF Loop
  <2>2. QED
      BY <2>1, <1>2
<1>4. PICK g : Loop(s, e, g, m - 1)
    BY <1>2, <1>3
<1> DEFINE h == [i \in 0 .. m |-> IF i = 0 THEN << >>
                                  ELSE IF IsUsableString(s[i]) THEN Append(g[i - 1], e[s[i]])
                                                               ELSE g[i - 1]]
<1>0. m \in Nat \ {0}
    BY <1>2, <1>3
<1>5. ASSUME NEW i \in 0 .. m - 1 PROVE h[i] = g[i]
  <2>1. i \in 0 .. m
      BY <1>0
  <2>2. h[i] = IF i = 0 THEN << >>
               ELSE IF IsUsableString(s[i]) THEN Append(g[i - 1], e[s[i]])
                                            ELSE g[i - 1]
      BY <2>1
  <2>3. g[i] = IF i = 0 THEN << >>
               ELSE IF IsUsableString(s[i]) THEN Append(g[i - 1], e[s[i]])
                                            ELSE g[i - 1]
      BY <1>4 DEF Loop
  <2>4. QED
      BY <2>2, <2>3
<1>6. Loop(s, e, h, m)
  <2>1. ASSUME NEW i \in 0 .. m
        PROVE  h[i] = IF i = 0 THEN << >>
                      ELSE IF IsUsableString(s[i]) THEN Append(h[i - 1], e[s[i]])
                                                   ELSE h[i - 1]
    <3>1. CASE i = 0
        BY <3>1
    <3>2. CASE i # 0
      <4>1. i - 1 \in 0 .. m - 1
          BY <1>0, <3>2
      <4>2. h[i - 1] = g[i - 1]
          BY <4>1, <1>5
      <4>3. QED
          BY <3>2, <4>2
    <3>3. QED
        BY <3>1, <3>2
  <2>2. QED
      BY <2>1 DEF Loop
<1>7. QED
    BY <1>2, <1>6

\* Every prefix result of the loop is a sequence of appended values.
LEMMA LoopType ==
    ASSUME NEW X, NEW s \in Seq(Item), NEW e \in [StrItem -> X],
           NEW m \in 0 .. Len(s), NEW g, Loop(s, e, g, m)
    PROVE  \A i \in 0 .. m : g[i] \in Seq(X)
<1> DEFINE T == {n \in 0 .. m : g[n] \notin Seq(X)}
<1> SUFFICES T = {}
    OBVIOUS
<1>1. SUFFICES ASSUME T # {} PROVE FALSE
    OBVIOUS
<1>0. T \in SUBSET Nat
    OBVIOUS
<1>2. PICK n \in T : \A j \in T : n <= j
    BY <1>0, <1>1, LeastNat
<1>3. n # 0
    BY <1>2 DEF Loop
<1>4. n - 1 \in 0 .. m /\ n \in 1 .. Len(s) /\ g[n - 1] \in Seq(X)
    BY <1>2, <1>3
<1>5. g[n] = IF IsUsableString(s[n]) THEN Append(g[n - 1], e[s[n]]) ELSE g[n - 1]
    BY <1>2, <1>3 DEF Loop
<1>6. IsUsableString(s[n]) => e[s[n]] \in X
    BY <1>4 DEF IsUsableString, StrItem
<1>7. g[n] \in Seq(X)
  <2>1. CASE IsUsableString(s[n])
      BY <1>4, <1>5, <1>6, <2>1
  <2>2. CASE ~ IsUsableString(s[n])
      BY <1>4, <1>5, <2>2
  <2>3. QED
      BY <2>1, <2>2
<1>8. QED
    BY <1>2, <1>7

\* What the two loops append for a usable item.
StrVal == [x \in StrItem |-> x.v]
RootVal(id) == [x \in StrItem |-> [base |-> IF x.rel THEN id ELSE "absolute", v |-> x.v]]

\* Strings is the loop's result over all the items.
LEMMA StringsLoop ==
    ASSUME NEW items \in Seq(Item)
    PROVE  \E g : Loop(items, StrVal, g, Len(items)) /\ Strings(items) = g[Len(items)]
<1> DEFINE body(g) ==
        [i \in 0 .. Len(items) |->
            IF i = 0 THEN << >>
            ELSE IF IsUsableString(items[i]) THEN Append(g[i - 1], items[i].v)
                                             ELSE g[i - 1]]
           F == CHOOSE g : g = body(g)
<1>1. \A g : Loop(items, StrVal, g, Len(items)) <=> g = body(g)
  <2>1. \A i \in 1 .. Len(items) : IsUsableString(items[i]) => StrVal[items[i]] = items[i].v
      BY DEF StrVal, StrItem, IsUsableString
  <2>2. ASSUME NEW g
        PROVE  [i \in 0 .. Len(items) |->
                   IF i = 0 THEN << >>
                   ELSE IF IsUsableString(items[i]) THEN Append(g[i - 1], StrVal[items[i]])
                                                    ELSE g[i - 1]]
               = body(g)
      BY <2>1
  <2>3. QED
      BY <2>2 DEF Loop
<1>2. \E g : Loop(items, StrVal, g, Len(items))
    <2>1. Len(items) \in Nat
        OBVIOUS
    <2>2. QED
        BY <2>1, LoopExists
<1>3. F = body(F)
    BY <1>1, <1>2
<1>4. Strings(items) = F[Len(items)]
    BY DEF Strings
<1>5. QED
    BY <1>1, <1>3, <1>4

\* NormalizeRoots is the loop's result over all the items of the field.
LEMMA RootsLoop ==
    ASSUME NEW field, NEW id, field.items \in Seq(Item)
    PROVE  \E g : /\ Loop(field.items, RootVal(id), g, Len(field.items))
                  /\ NormalizeRoots(field, id) = g[Len(field.items)]
<1> DEFINE items == field.items
           body(g) ==
        [i \in 0 .. Len(items) |->
            IF i = 0 THEN << >>
            ELSE IF IsUsableString(items[i])
                 THEN Append(g[i - 1],
                             [base |-> IF items[i].rel THEN id ELSE "absolute",
                              v |-> items[i].v])
                 ELSE g[i - 1]]
           F == CHOOSE g : g = body(g)
<1>1. \A g : Loop(items, RootVal(id), g, Len(items)) <=> g = body(g)
  <2>1. \A i \in 1 .. Len(items) :
           IsUsableString(items[i]) =>
              RootVal(id)[items[i]] = [base |-> IF items[i].rel THEN id ELSE "absolute",
                                       v |-> items[i].v]
      BY DEF RootVal, StrItem, IsUsableString
  <2>2. ASSUME NEW g
        PROVE  [i \in 0 .. Len(items) |->
                   IF i = 0 THEN << >>
                   ELSE IF IsUsableString(items[i]) THEN Append(g[i - 1], RootVal(id)[items[i]])
                                                    ELSE g[i - 1]]
               = body(g)
      BY <2>1
  <2>3. QED
      BY <2>2 DEF Loop
<1>2. \E g : Loop(items, RootVal(id), g, Len(items))
    <2>1. Len(items) \in Nat
        OBVIOUS
    <2>2. QED
        BY <2>1, LoopExists
<1>3. F = body(F)
    BY <1>1, <1>2
<1>4. NormalizeRoots(field, id) = F[Len(items)]
    BY DEF NormalizeRoots
<1>5. QED
    BY <1>1, <1>3, <1>4

\* normalize_string_array's loop yields a list of values.
LEMMA StringsType ==
    ASSUME NEW items \in Seq(Item)
    PROVE  Strings(items) \in Seq(Vals)
<1>1. PICK g : Loop(items, StrVal, g, Len(items)) /\ Strings(items) = g[Len(items)]
    BY StringsLoop
<1>2. StrVal \in [StrItem -> Vals]
    BY DEF StrVal, StrItem, Item
<1>3. QED
    BY <1>1, <1>2, LoopType

\* The `roots` loop yields a list of resolved roots.
LEMMA RootsType ==
    ASSUME NEW field, NEW id \in FileIds, field.items \in Seq(Item)
    PROVE  NormalizeRoots(field, id) \in Seq(RootPath)
<1>1. PICK g : /\ Loop(field.items, RootVal(id), g, Len(field.items))
               /\ NormalizeRoots(field, id) = g[Len(field.items)]
    BY RootsLoop
<1>2. RootVal(id) \in [StrItem -> RootPath]
    BY DEF RootVal, StrItem, Item, RootPath
<1>3. QED
    BY <1>1, <1>2, LoopType

\* An element of a sequence is in the sequence's set.
LEMMA SeqElem ==
    ASSUME NEW S, NEW sq \in Seq(S), NEW i \in 1 .. Len(sq)
    PROVE  sq[i] \in S
OBVIOUS

\* A sequence of length n is a function on 1 .. n.
LEMMA SeqFun ==
    ASSUME NEW S, NEW sq \in Seq(S), NEW n, Len(sq) = n
    PROVE  sq \in [1 .. n -> S]
OBVIOUS

\* A field of a file is absent, not a list, or a list of items.
LEMMA FieldFacts ==
    ASSUME NEW fld \in Field
    PROVE  /\ fld.kind \in {"absent", "nonlist", "list"}
           /\ fld.kind = "list" => fld.items \in Seq(Item)
BY DEF Field

\* normalize_string_array returns strings whatever the file holds, given a
\* fallback of strings.
LEMMA NormalizeType ==
    ASSUME NEW fld \in Field, NEW fallback \in Seq(Vals)
    PROVE  NormalizeStringArray(fld, fallback) \in Seq(Vals)
<1>1. CASE fld.kind = "list"
    BY <1>1, FieldFacts, StringsType DEF NormalizeStringArray
<1>2. CASE fld.kind # "list"
    BY <1>2 DEF NormalizeStringArray
<1>3. QED
    BY <1>1, <1>2

\* The files chosen by load_skill_settings and the defaults are typed.
LEMMA InitTypeOK == Init => TypeOK
<1> SUFFICES ASSUME Init PROVE TypeOK
    OBVIOUS
<1>1. PICK explicitGiven \in BOOLEAN, c1, c2 \in FileContents :
          config_files = IF explicitGiven
                         THEN << [id |-> "explicit", content |-> c1] >>
                         ELSE << [id |-> "global", content |-> c1],
                                 [id |-> "project", content |-> c2] >>
    BY DEF Init
<1>2. c1 \in Content /\ c2 \in Content
    BY ConstantsAssumption
<1> DEFINE R == [id : FileIds, content : Content]
<1>3. config_files \in Seq(R)
  <2>1. [id |-> "explicit", content |-> c1] \in R /\ [id |-> "global", content |-> c1] \in R
        /\ [id |-> "project", content |-> c2] \in R
      BY <1>2 DEF FileIds
  <2>2. CASE explicitGiven
      BY <1>1, <2>1, <2>2
  <2>3. CASE ~explicitGiven
      BY <1>1, <2>1, <2>3
  <2>4. QED
      BY <2>2, <2>3
<1>4. QED
    BY <1>3, ConstantsAssumption DEF Init, TypeOK

\* One iteration of the loader's loop keeps every field typed: the loop
\* index stays within the list and every field a string list.
LEMMA LoadConfigFileTypeOK == TypeOK /\ LoadConfigFile => TypeOK'
<1> SUFFICES ASSUME TypeOK, LoadConfigFile PROVE TypeOK'
    OBVIOUS
<1> DEFINE f == config_files[fi]
           c == f.content
<1>1. fi \in 1 .. Len(config_files) /\ fi' = fi + 1 /\ config_files' = config_files
    BY DEF LoadConfigFile, TypeOK
<1>2. f.id \in FileIds /\ c \in Content
  <2>1. f \in [id : FileIds, content : Content]
      BY <1>1, SeqElem DEF TypeOK
  <2>2. QED
      BY <2>1
<1>3. /\ c.packs \in Field /\ c.roots \in Field /\ c.disabled \in Field
      /\ c.kind \in {"unusable", "ok"}
    BY <1>2 DEF Content
<1>4. config_files' \in Seq([id : FileIds, content : Content])
      /\ fi' \in 1 .. Len(config_files') + 1
    BY <1>1 DEF TypeOK
<1>5. CASE c.kind = "unusable"
    BY <1>4, <1>5 DEF LoadConfigFile, TypeOK
<1>6. CASE c.kind = "ok"
  <2>1. packs' \in Seq(Vals)
    <3>1. packs' = IF c.packs.kind = "absent" THEN packs
                   ELSE NormalizeStringArray(c.packs, packs)
        BY <1>5, <1>6 DEF LoadConfigFile
    <3>2. QED
        BY <1>3, <3>1, NormalizeType DEF TypeOK
  <2>2. disabled' \in Seq(Vals)
    <3>1. disabled' = IF c.disabled.kind = "absent" THEN disabled
                      ELSE NormalizeStringArray(c.disabled, disabled)
        BY <1>6 DEF LoadConfigFile
    <3>2. QED
        BY <1>3, <3>1, NormalizeType DEF TypeOK
  <2>3. configured_roots' \in Seq(RootPath)
    <3>1. configured_roots' =
              CASE c.roots.kind = "absent"  -> configured_roots
                [] c.roots.kind = "nonlist" -> << >>
                [] c.roots.kind = "list"    -> NormalizeRoots(c.roots, f.id)
        BY <1>6 DEF LoadConfigFile
    <3>2. c.roots.kind \in {"absent", "nonlist", "list"}
          /\ (c.roots.kind = "list" => c.roots.items \in Seq(Item))
        BY <1>3, FieldFacts
    <3>3. CASE c.roots.kind = "list"
        BY <1>2, <3>1, <3>2, <3>3, RootsType
    <3>4. CASE c.roots.kind # "list"
        BY <3>1, <3>2, <3>4 DEF TypeOK
    <3>5. QED
        BY <3>3, <3>4
  <2>4. QED
    BY <1>4, <2>1, <2>2, <2>3 DEF TypeOK
<1>7. QED
    BY <1>3, <1>5, <1>6

\* The loader's fields are string lists and its loop index stays within the
\* files at every step (the type invariant TypeOK of the settings run).
THEOREM TypeCorrect == Spec => []TypeOK
<1>1. Init => TypeOK
    BY InitTypeOK
<1>2. TypeOK /\ [Next]_vars => TypeOK'
    BY LoadConfigFileTypeOK DEF Next, vars, TypeOK
<1>3. QED
    BY <1>1, <1>2, PTL DEF Spec

(***************************************************************************)
(* The loop against the reference RefStrings.  KS(s, i) are the indices of *)
(* the usable items among the first i; an item's rank is the number of    *)
(* usable items up to it, and the loop puts each usable item at its rank.  *)
(***************************************************************************)
KS(s, i) == {m \in 1 .. i : s[m].kind = "string"}

\* The usable items among the first i are finitely many.
LEMMA KSFinite ==
    ASSUME NEW s, NEW i \in Nat
    PROVE  IsFiniteSet(KS(s, i)) /\ Cardinality(KS(s, i)) \in Nat
<1>1. IsFiniteSet(1 .. i)
    BY FS_Interval
<1>2. KS(s, i) \in SUBSET (1 .. i)
    BY DEF KS
<1>3. IsFiniteSet(KS(s, i))
    BY <1>1, <1>2, FS_Subset
<1>4. QED
    BY <1>3, FS_CardinalityType

\* One more item adds its index to KS exactly when it is usable.
LEMMA KSStep ==
    ASSUME NEW s, NEW i \in Nat \ {0}
    PROVE  /\ KS(s, i) = IF s[i].kind = "string" THEN KS(s, i - 1) \cup {i}
                         ELSE KS(s, i - 1)
           /\ Cardinality(KS(s, i)) = IF s[i].kind = "string"
                                      THEN Cardinality(KS(s, i - 1)) + 1
                                      ELSE Cardinality(KS(s, i - 1))
<1>1. KS(s, i) = IF s[i].kind = "string" THEN KS(s, i - 1) \cup {i} ELSE KS(s, i - 1)
    BY DEF KS
<1>2. i \notin KS(s, i - 1) /\ IsFiniteSet(KS(s, i - 1))
    BY KSFinite DEF KS
<1>3. QED
    BY <1>1, <1>2, FS_AddElement

\* Ranks grow with the prefix: KS(s, m) is part of KS(s, i) for m <= i.
LEMMA KSMono ==
    ASSUME NEW s, NEW i \in Nat, NEW m \in 0 .. i
    PROVE  KS(s, m) \subseteq KS(s, i) /\ Cardinality(KS(s, m)) <= Cardinality(KS(s, i))
<1>1. KS(s, m) \subseteq KS(s, i)
    BY DEF KS
<1>2. QED
    BY <1>1, KSFinite, FS_Subset

\* A usable item's rank is at least one.
LEMMA KSPos ==
    ASSUME NEW s, NEW i \in Nat, NEW m \in KS(s, i)
    PROVE  Cardinality(KS(s, m)) \in 1 .. Cardinality(KS(s, i))
<1>1. m \in Nat /\ m \in KS(s, m) /\ m <= i
    BY DEF KS
<1>2. Cardinality(KS(s, m)) # 0 /\ Cardinality(KS(s, m)) \in Nat
    BY <1>1, KSFinite, FS_EmptySet
<1>3. Cardinality(KS(s, m)) <= Cardinality(KS(s, i))
    BY <1>1, KSMono
<1>4. QED
    BY <1>2, <1>3, KSFinite

\* After i items the loop holds one value per usable item, each at its rank,
\* and every rank up to the length is taken.
RankQ(s, e, g, i) ==
    /\ Len(g[i]) = Cardinality(KS(s, i))
    /\ \A m \in KS(s, i) : g[i][Cardinality(KS(s, m))] = e[s[m]]
    /\ \A j \in 1 .. Cardinality(KS(s, i)) : \E m \in KS(s, i) : Cardinality(KS(s, m)) = j

\* Each prefix result of the loop satisfies RankQ.
LEMMA LoopRank ==
    ASSUME NEW X, NEW s \in Seq(Item), NEW e \in [StrItem -> X],
           NEW g, Loop(s, e, g, Len(s))
    PROVE  \A i \in 0 .. Len(s) : RankQ(s, e, g, i)
<1> DEFINE T == {n \in 0 .. Len(s) : ~ RankQ(s, e, g, n)}
<1> SUFFICES T = {}
    OBVIOUS
<1>1. SUFFICES ASSUME T # {} PROVE FALSE
    OBVIOUS
<1>0. T \in SUBSET Nat
    OBVIOUS
<1>2. PICK n \in T : \A j \in T : n <= j
    BY <1>0, <1>1, LeastNat
<1>3. n # 0
  <2>1. g[0] = << >> /\ KS(s, 0) = {}
      BY DEF Loop, KS
  <2>2. Cardinality(KS(s, 0)) = 0 /\ Len(g[0]) = 0
      BY <2>1, FS_EmptySet
  <2>3. RankQ(s, e, g, 0)
      BY <2>1, <2>2 DEF RankQ
  <2>4. QED
      BY <1>2, <2>3
<1> DEFINE p == n - 1
           C == Cardinality(KS(s, p))
<1>4. /\ n \in 1 .. Len(s) /\ p \in 0 .. Len(s) /\ RankQ(s, e, g, p)
      /\ g[p] \in Seq(X) /\ C \in Nat
    BY <1>2, <1>3, LoopType, KSFinite
<1>5. g[n] = IF IsUsableString(s[n]) THEN Append(g[p], e[s[n]]) ELSE g[p]
    BY <1>2, <1>3 DEF Loop
<1>6. CASE ~ IsUsableString(s[n])
  <2>1. g[n] = g[p] /\ KS(s, n) = KS(s, p)
      BY <1>4, <1>5, <1>6, KSStep DEF IsUsableString
  <2>2. RankQ(s, e, g, n)
      BY <1>4, <2>1 DEF RankQ
  <2>3. QED
      BY <1>2, <2>2
<1>7. CASE IsUsableString(s[n])
  <2>1. /\ g[n] = Append(g[p], e[s[n]])
        /\ KS(s, n) = KS(s, p) \cup {n}
        /\ Cardinality(KS(s, n)) = C + 1
      BY <1>4, <1>5, <1>7, KSStep DEF IsUsableString
  <2>2. Len(g[n]) = Cardinality(KS(s, n))
      BY <1>4, <2>1 DEF RankQ
  <2>3. ASSUME NEW m \in KS(s, n) PROVE g[n][Cardinality(KS(s, m))] = e[s[m]]
    <3>1. CASE m = n
      <4>1. Cardinality(KS(s, m)) = Len(g[p]) + 1
          BY <1>4, <2>1, <3>1 DEF RankQ
      <4>2. QED
          BY <1>4, <2>1, <3>1, <4>1
    <3>2. CASE m # n
      <4>1. m \in KS(s, p)
          BY <2>1, <3>2
      <4>2. Cardinality(KS(s, m)) \in 1 .. C
          BY <1>4, <4>1, KSPos
      <4>3. g[n][Cardinality(KS(s, m))] = g[p][Cardinality(KS(s, m))]
          BY <1>4, <2>1, <4>2 DEF RankQ
      <4>4. QED
          BY <1>4, <4>1, <4>3 DEF RankQ
    <3>3. QED
        BY <3>1, <3>2
  <2>4. ASSUME NEW j \in 1 .. Cardinality(KS(s, n))
        PROVE  \E m \in KS(s, n) : Cardinality(KS(s, m)) = j
    <3>1. CASE j = C + 1
        BY <2>1, <3>1
    <3>2. CASE j \in 1 .. C
        BY <1>4, <2>1, <3>2 DEF RankQ
    <3>3. QED
        BY <1>4, <2>1, <3>1, <3>2
  <2>5. QED
      BY <1>2, <2>2, <2>3, <2>4 DEF RankQ
<1>8. QED
    BY <1>6, <1>7

\* Among the usable items of s, the one of rank j.
RankAt(s, j) ==
    LET K == {i \in 1 .. Len(s) : s[i].kind = "string"}
    IN  CHOOSE i \in K : Cardinality({m \in K : m <= i}) = j

\* The loop's result has one entry per usable item, and its j-th entry is
\* what the item of rank j appends.
LoopResultOf(X, s, e, g) ==
    LET K == {i \in 1 .. Len(s) : s[i].kind = "string"}
    IN  /\ g[Len(s)] \in Seq(X)
        /\ Len(g[Len(s)]) = Cardinality(K)
        /\ \A j \in 1 .. Cardinality(K) :
              /\ RankAt(s, j) \in K
              /\ g[Len(s)][j] = e[s[RankAt(s, j)]]

\* RankQ after all the items, stated with RankAt.
LEMMA LoopResult ==
    ASSUME NEW X, NEW s \in Seq(Item), NEW e \in [StrItem -> X],
           NEW g, Loop(s, e, g, Len(s))
    PROVE  LoopResultOf(X, s, e, g)
<1> DEFINE L == Len(s)
           K == {i \in 1 .. L : s[i].kind = "string"}
<1>1. K = KS(s, L) /\ L \in 0 .. Len(s)
    BY DEF KS
<1>2. RankQ(s, e, g, L) /\ g[L] \in Seq(X)
    BY <1>1, LoopRank, LoopType
<1>3. \A i \in K : {m \in K : m <= i} = KS(s, i)
    BY DEF KS
<1>4. ASSUME NEW j \in 1 .. Cardinality(K)
      PROVE  RankAt(s, j) \in K /\ g[L][j] = e[s[RankAt(s, j)]]
  <2>1. \E i \in K : Cardinality({m \in K : m <= i}) = j
      BY <1>1, <1>2, <1>3 DEF RankQ
  <2>2. PICK w : w = RankAt(s, j)
      OBVIOUS
  <2>3. w \in K /\ Cardinality({m \in K : m <= w}) = j
      BY <2>1, <2>2 DEF RankAt
  <2>4. Cardinality(KS(s, w)) = j
      BY <1>3, <2>3
  <2>5. g[L][j] = e[s[w]]
      BY <1>1, <1>2, <2>3, <2>4 DEF RankQ
  <2>6. QED
      BY <2>2, <2>3, <2>5
<1>5. QED
    BY <1>1, <1>2, <1>4 DEF RankQ, LoopResultOf

\* normalize_string_array keeps the usable strings of a list in order.
LEMMA StringsRef ==
    ASSUME NEW items \in Seq(Item)
    PROVE  Strings(items) = RefStrings(items)
<1> DEFINE K == {i \in 1 .. Len(items) : items[i].kind = "string"}
<1>1. PICK g : Loop(items, StrVal, g, Len(items)) /\ Strings(items) = g[Len(items)]
    BY StringsLoop
<1>2. StrVal \in [StrItem -> Vals]
    BY DEF StrVal, StrItem, Item
<1>3. /\ g[Len(items)] \in Seq(Vals)
      /\ Len(g[Len(items)]) = Cardinality(K)
      /\ \A j \in 1 .. Cardinality(K) :
            /\ RankAt(items, j) \in K
            /\ g[Len(items)][j] = StrVal[items[RankAt(items, j)]]
  <2>1. LoopResultOf(Vals, items, StrVal, g)
      BY <1>1, <1>2, LoopResult
  <2>2. QED
      BY <2>1 DEF LoopResultOf
<1>4. RefStrings(items) = [j \in 1 .. Cardinality(K) |-> items[RankAt(items, j)].v]
    BY DEF RefStrings, RankAt
<1>5. \A j \in 1 .. Cardinality(K) : StrVal[items[RankAt(items, j)]] = items[RankAt(items, j)].v
    BY <1>3 DEF StrVal, StrItem
<1>6. DOMAIN g[Len(items)] = 1 .. Cardinality(K)
    BY <1>3
<1>7. g[Len(items)] = [j \in 1 .. Cardinality(K) |-> items[RankAt(items, j)].v]
  <2>1. g[Len(items)] \in [1 .. Cardinality(K) -> Vals]
      BY <1>3, SeqFun
  <2>2. \A j \in 1 .. Cardinality(K) : g[Len(items)][j] = items[RankAt(items, j)].v
      BY <1>3, <1>5
  <2>3. QED
      BY <2>1, <2>2, Zenon
<1>8. QED
    BY <1>1, <1>4, <1>7

\* The `roots` loop keeps the usable entries in order, each resolved
\* against the directory of the file that lists it when it is relative.
LEMMA RootsRef ==
    ASSUME NEW field, NEW id \in FileIds, field.items \in Seq(Item)
    PROVE  NormalizeRoots(field, id) = RefRoots(field, id)
<1> DEFINE items == field.items
           K == {i \in 1 .. Len(items) : items[i].kind = "string"}
           res(j) == [base |-> IF items[RankAt(items, j)].rel THEN id ELSE "absolute",
                      v |-> items[RankAt(items, j)].v]
<1>1. PICK g : /\ Loop(items, RootVal(id), g, Len(items))
               /\ NormalizeRoots(field, id) = g[Len(items)]
    BY RootsLoop
<1>2. RootVal(id) \in [StrItem -> RootPath]
    BY DEF RootVal, StrItem, Item, RootPath
<1>3. /\ g[Len(items)] \in Seq(RootPath)
      /\ Len(g[Len(items)]) = Cardinality(K)
      /\ \A j \in 1 .. Cardinality(K) :
            /\ RankAt(items, j) \in K
            /\ g[Len(items)][j] = RootVal(id)[items[RankAt(items, j)]]
  <2>1. LoopResultOf(RootPath, items, RootVal(id), g)
      BY <1>1, <1>2, LoopResult
  <2>2. QED
      BY <2>1 DEF LoopResultOf
<1>4. Cardinality(K) \in Nat
  <2>1. K = KS(items, Len(items)) /\ Len(items) \in Nat
      BY DEF KS
  <2>2. IsFiniteSet(KS(items, Len(items))) /\ Cardinality(KS(items, Len(items))) \in Nat
      BY <2>1, KSFinite
  <2>3. QED
      BY <2>1, <2>2
<1>5. RefStrings(items) = [j \in 1 .. Cardinality(K) |-> items[RankAt(items, j)].v]
    BY DEF RefStrings, RankAt
<1>6. Len(RefStrings(items)) = Cardinality(K)
    BY <1>4, <1>5
<1>7. RefRoots(field, id) = [j \in 1 .. Cardinality(K) |-> res(j)]
    BY <1>5, <1>6 DEF RefRoots, RankAt
<1>8. ASSUME NEW j \in 1 .. Cardinality(K) PROVE g[Len(items)][j] = res(j)
  <2>1. RankAt(items, j) \in K
      BY <1>3
  <2>2. items[RankAt(items, j)] \in StrItem
      BY <2>1 DEF StrItem
  <2>3. QED
      BY <1>3, <2>2 DEF RootVal
<1>9. g[Len(items)] \in [1 .. Cardinality(K) -> RootPath]
    BY <1>3, SeqFun
<1>10. QED
    BY <1>1, <1>7, <1>8, <1>9, Zenon

(***************************************************************************)
(* The loader's loop against LastFileReplacesFields.                       *)
(***************************************************************************)
\* A non-empty set of indices has a last element.
LEMMA LastOfIn ==
    ASSUME NEW n \in Nat, NEW S \in SUBSET (1 .. n), S # {}
    PROVE  LastOf(S) \in S /\ \A j \in S : j <= LastOf(S)
<1> DEFINE T == {b \in Nat : \A x \in S : x <= b}
<1>1. \E b \in S : \A j \in S : j <= b
  <2>1. T \in SUBSET Nat /\ T # {}
      BY DEF T
  <2>2. PICK b \in T : \A j \in T : b <= j
      BY <2>1, LeastNat
  <2>3. b \in S
    <3>1. SUFFICES ASSUME b \notin S PROVE FALSE
        OBVIOUS
    <3>2. b # 0
      <4>1. PICK x \in S : TRUE
          OBVIOUS
      <4>2. 1 <= x /\ x <= b
          BY <2>2, <4>1
      <4>3. QED
          BY <4>2, <2>2
    <3>3. b - 1 \in T
        BY <2>2, <3>1, <3>2
    <3>4. QED
        BY <2>2, <3>2, <3>3
  <2>4. QED
      BY <2>2, <2>3
<1>2. QED
    BY <1>1 DEF LastOf

\* Adding an index above all the others makes it the last.
LEMMA LastOfNew ==
    ASSUME NEW S \in SUBSET Nat, NEW k \in Nat, \A x \in S : x < k
    PROVE  LastOf(S \cup {k}) = k
<1>1. \A i \in S \cup {k} : (\A j \in S \cup {k} : j <= i) <=> i = k
    OBVIOUS
<1>2. QED
    BY <1>1 DEF LastOf

\* The files already processed whose `skills` has field f of the given kinds.
Done(f, kinds) ==
    {i \in 1 .. fi - 1 : /\ config_files[i].content.kind = "ok"
                         /\ config_files[i].content[f].kind \in kinds}

\* The value a list field (packs or disabled) must have after the files
\* processed so far: the strings of the last list, else the default.
ListFieldVal(f, dflt) ==
    IF Done(f, {"list"}) = {} THEN dflt
    ELSE Strings(config_files[LastOf(Done(f, {"list"}))].content[f].items)

RootsVal ==
    IF Done("roots", {"list", "nonlist"}) = {} THEN << >>
    ELSE LET i == LastOf(Done("roots", {"list", "nonlist"}))
         IN  IF config_files[i].content.roots.kind = "list"
             THEN NormalizeRoots(config_files[i].content.roots, config_files[i].id)
             ELSE << >>

\* The loop invariant of load_skill_settings: each field is what the files
\* processed so far give it.
FieldsInv ==
    /\ packs = ListFieldVal("packs", DefaultPacks)
    /\ disabled = ListFieldVal("disabled", << >>)
    /\ configured_roots = RootsVal

\* One iteration adds the current file to Done exactly when it sets the field.
LEMMA DoneStep ==
    ASSUME TypeOK, LoadConfigFile, NEW f, NEW kinds
    PROVE  /\ Done(f, kinds) \in SUBSET (1 .. fi - 1)
           /\ fi \in Nat
           /\ Done(f, kinds)' =
                IF /\ config_files[fi].content.kind = "ok"
                   /\ config_files[fi].content[f].kind \in kinds
                THEN Done(f, kinds) \cup {fi} ELSE Done(f, kinds)
<1>1. fi \in 1 .. Len(config_files) /\ fi' = fi + 1 /\ config_files' = config_files
    BY DEF LoadConfigFile, TypeOK
<1>2. QED
    BY <1>1 DEF Done

\* The file of the current iteration, its contents and its fields.
LEMMA CurrentFile ==
    ASSUME TypeOK, LoadConfigFile
    PROVE  /\ fi \in 1 .. Len(config_files) /\ fi' = fi + 1
           /\ config_files' = config_files
           /\ config_files[fi].id \in FileIds
           /\ config_files[fi].content \in Content
           /\ config_files[fi].content.packs \in Field
           /\ config_files[fi].content.roots \in Field
           /\ config_files[fi].content.disabled \in Field
<1>1. fi \in 1 .. Len(config_files) /\ fi' = fi + 1 /\ config_files' = config_files
    BY DEF LoadConfigFile, TypeOK
<1>2. config_files[fi] \in [id : FileIds, content : Content]
    BY <1>1, SeqElem DEF TypeOK
<1>3. QED
    BY <1>1, <1>2 DEF Content

\* One iteration keeps a list field (packs or disabled) equal to what the
\* files processed so far give it: a list replaces it, anything else keeps it.
LEMMA ListFieldStep ==
    ASSUME TypeOK, LoadConfigFile, NEW f \in {"packs", "disabled"}, NEW dflt,
           NEW x, NEW y, x = ListFieldVal(f, dflt),
           y = IF /\ config_files[fi].content.kind = "ok"
                  /\ config_files[fi].content[f].kind # "absent"
               THEN NormalizeStringArray(config_files[fi].content[f], x) ELSE x
    PROVE  y = ListFieldVal(f, dflt)'
<1> DEFINE c == config_files[fi].content
           D == Done(f, {"list"})
<1>1. /\ fi \in 1 .. Len(config_files) /\ config_files' = config_files
      /\ c[f] \in Field
    BY CurrentFile
<1>2. /\ D \in SUBSET (1 .. fi - 1) /\ fi \in Nat
      /\ D' = IF c.kind = "ok" /\ c[f].kind \in {"list"} THEN D \cup {fi} ELSE D
    BY DoneStep
<1>3. ListFieldVal(f, dflt)' =
          IF D' = {} THEN dflt ELSE Strings(config_files'[LastOf(D')].content[f].items)
    BY DEF ListFieldVal
<1>4. CASE c.kind = "ok" /\ c[f].kind = "list"
  <2>1. D' = D \cup {fi} /\ D' # {}
      BY <1>2, <1>4
  <2>2. LastOf(D') = fi
    <3>1. D \in SUBSET Nat /\ \A z \in D : z < fi
        BY <1>2
    <3>2. LastOf(D \cup {fi}) = fi
        BY <1>2, <3>1, LastOfNew
    <3>3. QED
        BY <2>1, <3>2
  <2>3. y = Strings(c[f].items)
      BY <1>4 DEF NormalizeStringArray
  <2>4. QED
      BY <1>1, <1>3, <2>1, <2>2, <2>3
<1>5. CASE ~(c.kind = "ok" /\ c[f].kind = "list")
  <2>1. D' = D
      BY <1>2, <1>5
  <2>2. y = x
      BY <1>5 DEF NormalizeStringArray
  <2>3. ListFieldVal(f, dflt)' = ListFieldVal(f, dflt)
      BY <1>1, <1>3, <2>1 DEF ListFieldVal
  <2>4. QED
      BY <2>2, <2>3
<1>6. QED
    BY <1>4, <1>5

\* One iteration keeps configured_roots equal to the roots of the last file
\* processed that has the field: a list is resolved against that file, a
\* non-list value empties it, an absent field keeps it.
LEMMA RootsStep ==
    ASSUME TypeOK, LoadConfigFile, configured_roots = RootsVal
    PROVE  configured_roots' = RootsVal'
<1> DEFINE f == config_files[fi]
           c == f.content
           D == Done("roots", {"list", "nonlist"})
<1>1. /\ fi \in 1 .. Len(config_files) /\ config_files' = config_files
      /\ c.roots \in Field /\ c.kind \in {"unusable", "ok"}
    BY CurrentFile DEF Content
<1>2. /\ D \in SUBSET (1 .. fi - 1) /\ fi \in Nat
      /\ D' = IF c.kind = "ok" /\ c.roots.kind \in {"list", "nonlist"}
              THEN D \cup {fi} ELSE D
    BY DoneStep
<1>3. RootsVal' =
          IF D' = {} THEN << >>
          ELSE IF config_files'[LastOf(D')].content.roots.kind = "list"
               THEN NormalizeRoots(config_files'[LastOf(D')].content.roots,
                                   config_files'[LastOf(D')].id)
               ELSE << >>
    BY DEF RootsVal
<1>4. c.roots.kind \in {"absent", "nonlist", "list"}
    BY <1>1, FieldFacts
<1>5. CASE c.kind = "ok" /\ c.roots.kind \in {"list", "nonlist"}
  <2>1. D' = D \cup {fi} /\ D' # {}
      BY <1>2, <1>5
  <2>2. LastOf(D') = fi
    <3>1. D \in SUBSET Nat /\ \A z \in D : z < fi
        BY <1>2
    <3>2. LastOf(D \cup {fi}) = fi
        BY <1>2, <3>1, LastOfNew
    <3>3. QED
        BY <2>1, <3>2
  <2>3. configured_roots' = IF c.roots.kind = "list" THEN NormalizeRoots(c.roots, f.id)
                            ELSE << >>
      BY <1>5 DEF LoadConfigFile
  <2>4. QED
      BY <1>1, <1>3, <2>1, <2>2, <2>3
<1>6. CASE ~(c.kind = "ok" /\ c.roots.kind \in {"list", "nonlist"})
  <2>1. D' = D
      BY <1>2, <1>6
  <2>2. configured_roots' = configured_roots
    <3>1. CASE c.kind = "unusable"
        BY <3>1 DEF LoadConfigFile
    <3>2. CASE c.kind = "ok"
      <4>1. c.roots.kind = "absent"
          BY <1>4, <1>6, <3>2
      <4>2. QED
          BY <3>2, <4>1 DEF LoadConfigFile
    <3>3. QED
        BY <1>1, <3>1, <3>2
  <2>3. RootsVal' = RootsVal
      BY <1>1, <1>3, <2>1 DEF RootsVal
  <2>4. QED
      BY <2>2, <2>3
<1>7. QED
    BY <1>5, <1>6

\* Before the first file, every field has its default.
LEMMA InitFieldsInv == Init => FieldsInv
<1> SUFFICES ASSUME Init PROVE FieldsInv
    OBVIOUS
<1>1. Done("packs", {"list"}) = {} /\ Done("disabled", {"list"}) = {}
      /\ Done("roots", {"list", "nonlist"}) = {}
    BY DEF Init, Done
<1>2. QED
    BY <1>1 DEF Init, FieldsInv, ListFieldVal, RootsVal

\* One iteration of the loader's loop preserves the loop invariant.
LEMMA LoadConfigFileFieldsInv ==
    ASSUME TypeOK, FieldsInv, LoadConfigFile
    PROVE  FieldsInv'
<1> DEFINE c == config_files[fi].content
<1>1. c.kind \in {"unusable", "ok"}
    BY CurrentFile DEF Content
<1>2. packs' = IF c.kind = "ok" /\ c.packs.kind # "absent"
               THEN NormalizeStringArray(c.packs, packs) ELSE packs
    BY <1>1 DEF LoadConfigFile
<1>3. disabled' = IF c.kind = "ok" /\ c.disabled.kind # "absent"
                  THEN NormalizeStringArray(c.disabled, disabled) ELSE disabled
    BY <1>1 DEF LoadConfigFile
<1>4. packs' = ListFieldVal("packs", DefaultPacks)'
    BY <1>2, ListFieldStep DEF FieldsInv
<1>5. disabled' = ListFieldVal("disabled", << >>)'
    BY <1>3, ListFieldStep DEF FieldsInv
<1>6. configured_roots' = RootsVal'
    BY RootsStep DEF FieldsInv
<1>7. QED
    BY <1>4, <1>5, <1>6 DEF FieldsInv

\* The loop invariant holds before every iteration of load_skill_settings.
THEOREM FieldsInvHolds == Spec => [](TypeOK /\ FieldsInv)
<1>1. Init => TypeOK /\ FieldsInv
    BY InitTypeOK, InitFieldsInv
<1>2. TypeOK /\ FieldsInv /\ [Next]_vars => TypeOK' /\ FieldsInv'
  <2> SUFFICES ASSUME TypeOK, FieldsInv, [Next]_vars PROVE TypeOK' /\ FieldsInv'
      OBVIOUS
  <2>1. CASE Next
      BY <2>1, LoadConfigFileTypeOK, LoadConfigFileFieldsInv DEF Next
  <2>2. CASE UNCHANGED vars
      BY <2>2 DEF vars, TypeOK, FieldsInv, ListFieldVal, RootsVal, Done
  <2>3. QED
      BY <2>1, <2>2
<1>3. QED
    BY <1>1, <1>2, PTL DEF Spec

\* A file read by the loader has typed contents.
LEMMA FileTyped ==
    ASSUME TypeOK, NEW i \in 1 .. Len(config_files)
    PROVE  /\ config_files[i].id \in FileIds
           /\ config_files[i].content.packs \in Field
           /\ config_files[i].content.roots \in Field
           /\ config_files[i].content.disabled \in Field
<1>1. config_files[i] \in [id : FileIds, content : Content]
    BY SeqElem DEF TypeOK
<1>2. QED
    BY <1>1 DEF Content

\* The last file that sets field f as a list, after the loop.
LEMMA LastListed ==
    ASSUME TypeOK, NEW f \in {"packs", "roots", "disabled"}, NEW kinds,
           SetBy(f, kinds) # {}
    PROVE  /\ LastOf(SetBy(f, kinds)) \in SetBy(f, kinds)
           /\ LastOf(SetBy(f, kinds)) \in 1 .. Len(config_files)
<1>1. Len(config_files) \in Nat /\ SetBy(f, kinds) \in SUBSET (1 .. Len(config_files))
    BY DEF TypeOK, SetBy
<1>2. QED
    BY <1>1, LastOfIn

\* A list field of a file read by the loader is a sequence of items.
LEMMA ListItems ==
    ASSUME TypeOK, NEW f \in {"packs", "roots", "disabled"},
           NEW i \in SetBy(f, {"list"})
    PROVE  config_files[i].content[f].items \in Seq(Item)
<1>1. i \in 1 .. Len(config_files) /\ config_files[i].content[f].kind = "list"
    BY DEF SetBy
<1>2. config_files[i].content[f] \in Field
    BY <1>1, FileTyped
<1>3. QED
    BY <1>1, <1>2, FieldFacts

\* After the loop the invariant is LastFileReplacesFields.
LEMMA FinalFields ==
    ASSUME TypeOK, FieldsInv
    PROVE  LastFileReplacesFields
<1> SUFFICES ASSUME Finished PROVE LastFileReplacesFields!2
    BY DEF LastFileReplacesFields
<1>1. \A f, kinds : Done(f, kinds) = SetBy(f, kinds)
  <2>1. fi - 1 = Len(config_files)
      BY DEF TypeOK, Finished
  <2>2. QED
      BY <2>1 DEF Done, SetBy
<1>2. ASSUME NEW f \in {"packs", "disabled"}, NEW dflt
      PROVE  ListFieldVal(f, dflt) =
               IF SetBy(f, {"list"}) = {} THEN dflt
               ELSE RefStrings(config_files[LastOf(SetBy(f, {"list"}))].content[f].items)
  <2>1. CASE SetBy(f, {"list"}) = {}
      BY <1>1, <2>1 DEF ListFieldVal
  <2>2. CASE SetBy(f, {"list"}) # {}
    <3> DEFINE i == LastOf(SetBy(f, {"list"}))
    <3>1. config_files[i].content[f].items \in Seq(Item)
        BY <2>2, LastListed, ListItems
    <3>2. Strings(config_files[i].content[f].items)
            = RefStrings(config_files[i].content[f].items)
        BY <3>1, StringsRef
    <3>3. QED
        BY <1>1, <2>2, <3>2 DEF ListFieldVal
  <2>3. QED
      BY <2>1, <2>2
<1>3. RootsVal =
        IF SetBy("roots", {"list", "nonlist"}) = {} THEN << >>
        ELSE LET i == LastOf(SetBy("roots", {"list", "nonlist"}))
             IN  IF config_files[i].content.roots.kind = "list"
                 THEN RefRoots(config_files[i].content.roots, config_files[i].id)
                 ELSE << >>
  <2>1. CASE SetBy("roots", {"list", "nonlist"}) = {}
      BY <1>1, <2>1 DEF RootsVal
  <2>2. CASE SetBy("roots", {"list", "nonlist"}) # {}
    <3> DEFINE i == LastOf(SetBy("roots", {"list", "nonlist"}))
    <3>1. i \in 1 .. Len(config_files) /\ i \in SetBy("roots", {"list", "nonlist"})
        BY <2>2, LastListed
    <3>2. config_files[i].id \in FileIds /\ config_files[i].content.roots \in Field
        BY <3>1, FileTyped
    <3>3. CASE config_files[i].content.roots.kind = "list"
      <4>1. config_files[i].content.roots.items \in Seq(Item)
          BY <3>2, <3>3, FieldFacts
      <4>2. NormalizeRoots(config_files[i].content.roots, config_files[i].id)
              = RefRoots(config_files[i].content.roots, config_files[i].id)
          BY <3>2, <4>1, RootsRef
      <4>3. QED
          BY <1>1, <2>2, <3>3, <4>2 DEF RootsVal
    <3>4. CASE config_files[i].content.roots.kind # "list"
        BY <1>1, <2>2, <3>4 DEF RootsVal
    <3>5. QED
        BY <3>3, <3>4
  <2>3. QED
      BY <2>1, <2>2
<1>4. QED
    BY <1>2, <1>3 DEF FieldsInv

\* Field-by-field replacement (LastFileReplacesFields of the settings run):
\* when load_skill_settings returns, packs and disabled are the usable
\* strings of the last file that lists them, configured_roots the resolved
\* roots of the last file that has the field, for every set of files.
THEOREM LastFileCorrect == Spec => []LastFileReplacesFields
<1>1. TypeOK /\ FieldsInv => LastFileReplacesFields
    BY FinalFields
<1>2. QED
    BY <1>1, FieldsInvHolds, PTL
=============================================================================
