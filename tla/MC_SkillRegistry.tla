-------------------------- MODULE MC_SkillRegistry --------------------------
(***************************************************************************)
(* A small instance of SkillRegistry: two skill directories, names 1..2,   *)
(* up to three SKILL.md files placed anywhere under the two roots, each    *)
(* unreadable, undeclared (directory name) or declaring name 1.  Two       *)
(* files then often share a name across tiers, packs and roots.            *)
(***************************************************************************)
EXTENDS SkillRegistryRefinement, TLC

CONSTANTS s1, s2

MCSkillDirs == {s1, s2}

MCContent == {[kind |-> "unreadable", decl |-> 0],
              [kind |-> "skill", decl |-> 0],
              [kind |-> "skill", decl |-> 1]}

\* Every tree with one to three SKILL.md files, and the empty tree.
MCLayouts ==
    {[l \in {} |-> [kind |-> "skill", decl |-> 0]]}
    \cup UNION {[{a, b, c} -> MCContent] : a, b, c \in Loc}

\* Two roots: every pair of a pack-filtered and an unfiltered provenance.
MCRootLists ==
    {<<[skill_dir |-> s1, source |-> x], [skill_dir |-> s2, source |-> y]>> :
        x, y \in {"global_root", "config_root"}}

Symmetry == Permutations({s1, s2})
=============================================================================
