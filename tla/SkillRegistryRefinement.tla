----------------------- MODULE SkillRegistryRefinement -----------------------
(***************************************************************************)
(* load_registry implements RegistrySpec.  The abstract step is LoadRoot:  *)
(* from that step on, the root's entries are seen as merged.  Each         *)
(* MergeEntry is a stutter of the abstract specification, because the     *)
(* refinement mapping already shows the entries still in tier_entries as   *)
(* merged into loaded.                                                     *)
(***************************************************************************)
EXTENDS SkillRegistry

\* The roots taken: LoadRoot advances ri as it loads a root's files.
DoneBar == ri - 1

\* The entries of tier_entries called n.
PendingOf(n) == {l \in DOMAIN tier_entries : tier_entries[l].name = n}

\* loaded[n] once the rest of tier_entries is merged: the merge loop keeps
\* the last entry of the highest tier, and every pending entry comes after
\* the one already in loaded.
LoadedBar ==
    [n \in Names |->
        IF PendingOf(n) = {} THEN loaded[n]
        ELSE LET P == PendingOf(n)
                 top == CHOOSE l \in P :
                          \A m \in P :
                             \/ TierPriority[tier_entries[m].tier] < TierPriority[tier_entries[l].tier]
                             \/ /\ tier_entries[m].tier = tier_entries[l].tier
                                /\ Key(m) <= Key(l)
             IN  IF \/ loaded[n] = NoEntry
                    \/ TierPriority[tier_entries[top].tier] >= TierPriority[loaded[n].tier]
                 THEN tier_entries[top]
                 ELSE loaded[n]]

Abs == INSTANCE RegistrySpec WITH done <- DoneBar, loaded <- LoadedBar

(* load_registry refines the root-at-a-time registry of spec section 4.4:  *)
(* every state of the two nested loops, mapped through LoadedBar, is a     *)
(* state of RegistrySpec, and every step of the loops is a TakeRoot step   *)
(* or leaves the mapped registry unchanged.  This covers all intermediate *)
(* states, not only the state in which load_registry returns.              *)
ImplementsRegistrySpec == Abs!AbsSpec
=============================================================================
