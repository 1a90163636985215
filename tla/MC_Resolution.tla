--------------------------- MODULE MC_Resolution ---------------------------
(***************************************************************************)
(* A two-directory tree  r <- a, an ancestor walk of 2 levels, tier        *)
(* directories anywhere at depth 0 or 1, at most one configured root, one *)
(* skill name, and up to two SKILL.md files below the tier directories: a *)
(* base skill or a skill of pack 1.  The same skill directory is then     *)
(* often reached by two walks, or by a walk and a configured root.        *)
(***************************************************************************)
EXTENDS Resolution

CONSTANTS r, a

MCDirs == {r, a}
MCParent == [d \in MCDirs |-> r]
Shallow == {p \in Path : p.depth <= 1}

MCConfigLists == {<< >>} \cup {<<p>> : p \in Shallow}
MCTieredSets == SUBSET Shallow

MCLocs == {[sd |-> p, tier |-> "base", pack |-> 0, dir |-> 1] : p \in Shallow}
          \cup {[sd |-> p, tier |-> "pack", pack |-> 1, dir |-> 1] : p \in Shallow}
MCLayouts == {[l \in L |-> [kind |-> "skill", decl |-> 0]] :
                 L \in {L \in SUBSET MCLocs : \E x, y \in MCLocs : L \subseteq {x, y}}}
=============================================================================
