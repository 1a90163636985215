------------------------- MODULE SkillRegistryProofs -------------------------
(***************************************************************************)
(* Proofs about SkillRegistry, for every N, every set of skill directories *)
(* and every admissible layout and root list.                              *)
(***************************************************************************)
EXTENDS SkillRegistry, TLAPS

(***************************************************************************)
(* Every entry the loader builds from a file on disk is a well-typed entry: *)
(* its name is the declared one or the directory name, both in 1..N.       *)
(***************************************************************************)
LEMMA EntryOfType ==
    ASSUME NEW l \in Loc, NEW c \in Content, NEW r \in RootRec,
           fs[l] = c
    PROVE  EntryOf(r, l) \in Entry
<1>1. EntryName(c, l) \in Names
    BY NAssumption DEF EntryName, DirName, Loc, Content, Names
<1>2. l.tier \in Tiers
    BY DEF Loc, Tiers
<1>3. QED
    BY <1>1, <1>2 DEF EntryOf, Entry

(***************************************************************************)
(* Type correctness of load_registry.                                      *)
(***************************************************************************)
THEOREM TypeCorrect == Spec => []TypeOK
<1>1. Init => TypeOK
    BY LayoutsAssumption, RootListsAssumption DEF Init, TypeOK
<1>2. TypeOK /\ [Next]_vars => TypeOK'
  <2> SUFFICES ASSUME TypeOK, [Next]_vars PROVE TypeOK'
      OBVIOUS
  <2>1. CASE LoadRoot
    <3>1. roots[ri] \in RootRec
        BY <2>1 DEF TypeOK, LoadRoot
    <3>2. \A l \in Loadable(roots[ri]) : EntryOf(roots[ri], l) \in Entry
        BY <3>1, EntryOfType DEF Loadable, TypeOK
    <3>3. Loadable(roots[ri]) \subseteq Loc
        BY DEF Loadable, TypeOK
    <3>4. QED
        BY <2>1, <3>2, <3>3 DEF LoadRoot, TypeOK
  <2>2. ASSUME NEW l \in DOMAIN tier_entries, MergeEntry(l) PROVE TypeOK'
    <3>1. tier_entries[l] \in Entry
        BY DEF TypeOK
    <3>2. tier_entries[l].name \in Names
        BY <3>1 DEF Entry
    <3>3. QED
        BY <2>2, <3>1, <3>2 DEF MergeEntry, TypeOK
  <2>3. CASE UNCHANGED vars
      BY <2>3 DEF vars, TypeOK
  <2>4. QED
      BY <2>1, <2>2, <2>3 DEF Next
<1>3. QED
    BY <1>1, <1>2, PTL DEF Spec

\* Every tier has an integer priority.
LEMMA TierPriorityType == \A t \in Tiers : TierPriority[t] \in 1 .. 3
    BY DEF TierPriority, Tiers

(***************************************************************************)
(* The merge rule of load_registry holds after every merged entry: the     *)
(* effective entry of each name is the last merged entry of the highest    *)
(* tier with that name.  RegistryCorrect is inductive together with TypeOK *)
(* (TypeOK gives the entries' tiers, hence integer priorities, and keeps   *)
(* NoEntry apart from the entries).                                        *)
(***************************************************************************)
THEOREM MergeRule == Spec => []RegistryCorrect
<1>1. Init => RegistryCorrect
    BY DEF Init, RegistryCorrect, NameResolved
<1>2. TypeOK /\ RegistryCorrect /\ [Next]_vars => RegistryCorrect'
  <2> SUFFICES ASSUME TypeOK, RegistryCorrect, [Next]_vars
               PROVE  RegistryCorrect'
      OBVIOUS
  <2>1. CASE LoadRoot
      BY <2>1 DEF LoadRoot, RegistryCorrect, NameResolved, LastOfHighestTier
  <2>2. CASE UNCHANGED vars
      BY <2>2 DEF vars, RegistryCorrect, NameResolved, LastOfHighestTier
  <2>3. ASSUME NEW l \in DOMAIN tier_entries, MergeEntry(l)
        PROVE  RegistryCorrect'
    <3> DEFINE e == tier_entries[l]
               TP(x) == TierPriority[x.tier]
    \* k is the position the merged entry takes; a constant, so that it is
    \* not primed with the state in LastOfHighestTier(k, n)'.
    <3>a. PICK k \in Nat : k = Len(all_entries) + 1
        BY DEF TypeOK
    <3>0. \A x \in Entry : TP(x) \in 1 .. 3
        BY TierPriorityType DEF Entry
    <3>1. e \in Entry /\ e.name \in Names /\ TP(e) \in 1 .. 3
        BY <3>0 DEF TypeOK, Entry
    <3>2. /\ all_entries' = Append(all_entries, e)
          /\ loaded' = IF loaded[e.name] = NoEntry \/ Replaces(e, loaded[e.name])
                       THEN [loaded EXCEPT ![e.name] = e]
                       ELSE loaded
        BY <2>3 DEF MergeEntry
    <3>3. /\ all_entries \in Seq(Entry)
          /\ k = Len(all_entries) + 1
          /\ Len(all_entries') = k
          /\ all_entries'[k] = e
          /\ \A j \in 1 .. k - 1 : all_entries'[j] = all_entries[j]
        BY <3>1, <3>2, <3>a DEF TypeOK
    <3>9. \A j \in 1 .. k : all_entries'[j] \in Entry /\ TP(all_entries'[j]) \in 1 .. 3
        BY <3>0, <3>1, <3>3
    <3> SUFFICES ASSUME NEW n \in Names PROVE NameResolved(n)'
        BY DEF RegistryCorrect
    <3>4. NameResolved(n)
        BY DEF RegistryCorrect
    <3>5. CASE n # e.name
      <4>1. loaded'[n] = loaded[n]
          BY <3>2, <3>5 DEF TypeOK
      <4>2. (\E j \in 1 .. k : all_entries'[j].name = n)
              <=> \E j \in 1 .. k - 1 : all_entries[j].name = n
          BY <3>3, <3>5
      <4>3. ASSUME NEW i \in 1 .. k - 1, LastOfHighestTier(i, n)
            PROVE  LastOfHighestTier(i, n)'
          BY <4>3, <3>3, <3>5 DEF LastOfHighestTier
      <4>4. QED
          BY <3>4, <4>1, <4>2, <4>3, <3>3, NoEntryAssumption DEF NameResolved
    <3>6. CASE n = e.name /\ loaded[n] = NoEntry
      <4>1. \A j \in 1 .. k - 1 : all_entries[j].name # n
          BY <3>3, <3>4, <3>6, NoEntryAssumption DEF NameResolved
      <4>2. loaded'[n] = e
          BY <3>2, <3>6 DEF TypeOK
      <4>3. LastOfHighestTier(k, n)'
        <5>1. ASSUME NEW j \in 1 .. k, all_entries'[j].name = n
              PROVE  j = k
            BY <5>1, <4>1, <3>3
        <5>2. QED
            BY <5>1, <3>3, <3>6, <3>9 DEF LastOfHighestTier
      <4>4. QED
          BY <4>2, <4>3, <3>3 DEF NameResolved, LastOfHighestTier
    <3>7. CASE n = e.name /\ loaded[n] # NoEntry
      <4>1. PICK i \in 1 .. k - 1 : all_entries[i] = loaded[n] /\ LastOfHighestTier(i, n)
          BY <3>3, <3>4, <3>7 DEF NameResolved
      <4>2. /\ all_entries'[i] = loaded[n]
            /\ loaded[n].name = n
            /\ TP(loaded[n]) \in 1 .. 3
          BY <4>1, <3>3, <3>9 DEF LastOfHighestTier
      \* Every merged entry called n ranks at most as high as entry i.
      <4>3. \A j \in 1 .. k - 1 :
               all_entries[j].name = n =>
                  \/ TP(all_entries[j]) < TP(loaded[n])
                  \/ TP(all_entries[j]) = TP(loaded[n]) /\ j <= i
          BY <4>1, <3>3 DEF LastOfHighestTier
      <4>4. CASE Replaces(e, loaded[n])
        <5>1. loaded'[n] = e
            BY <3>2, <3>7, <4>4 DEF TypeOK
        <5>2. TP(e) >= TP(loaded[n])
            BY <4>4 DEF Replaces
        <5>3. LastOfHighestTier(k, n)'
          <6>1. ASSUME NEW j \in 1 .. k, all_entries'[j].name = n
                PROVE  \/ TP(all_entries'[j]) < TP(all_entries'[k])
                       \/ TP(all_entries'[j]) = TP(all_entries'[k]) /\ j <= k
            <7>1. CASE j = k
                BY <7>1, <3>9
            <7>2. CASE j < k
                BY <7>2, <6>1, <5>2, <4>2, <4>3, <3>3, <3>9
            <7>3. QED
                BY <7>1, <7>2
          <6>2. QED
              BY <6>1, <3>3, <3>7 DEF LastOfHighestTier
        <5>4. QED
            BY <5>1, <5>3, <3>3 DEF NameResolved, LastOfHighestTier
      <4>5. CASE ~Replaces(e, loaded[n])
        <5>1. loaded'[n] = loaded[n]
            BY <3>2, <3>7, <4>5
        <5>2. TP(e) < TP(loaded[n])
            BY <4>5, <4>2, <3>1 DEF Replaces
        <5>3. LastOfHighestTier(i, n)'
          <6>1. ASSUME NEW j \in 1 .. k, all_entries'[j].name = n
                PROVE  \/ TP(all_entries'[j]) < TP(all_entries'[i])
                       \/ TP(all_entries'[j]) = TP(all_entries'[i]) /\ j <= i
            <7>1. CASE j = k
                BY <7>1, <5>2, <4>2, <3>3
            <7>2. CASE j < k
                BY <7>2, <6>1, <4>2, <4>3, <3>3
            <7>3. QED
                BY <7>1, <7>2
          <6>2. QED
              BY <6>1, <4>2, <3>3 DEF LastOfHighestTier
        <5>4. QED
            BY <5>1, <5>3, <4>2, <3>3 DEF NameResolved, LastOfHighestTier
      <4>6. QED
          BY <4>4, <4>5
    <3>8. QED
        BY <3>5, <3>6, <3>7
  <2>4. QED
      BY <2>1, <2>2, <2>3 DEF Next
<1>3. QED
    BY <1>1, <1>2, TypeCorrect, PTL DEF Spec
=============================================================================
