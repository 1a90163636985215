-------------------------- MODULE MC_RootDiscovery --------------------------
(***************************************************************************)
(* A small directory tree  r <- a <- b  (r the filesystem root), an        *)
(* ancestor walk capped at 2 levels so that the cap cuts the walk from b,  *)
(* tier directories anywhere at depth 0 or 1, and up to two configured     *)
(* roots.  Both walks, the global and the project root and the configured  *)
(* roots then often reach one skill directory twice, with equal or with    *)
(* different provenances.                                                  *)
(***************************************************************************)
EXTENDS RootDiscovery

CONSTANTS r, a, b

MCDirs == {r, a, b}
Shallow == {p \in Path : p.depth <= 1}

MCParent == [d \in MCDirs |-> IF d = b THEN a ELSE r]

MCConfigLists == {<< >>} \cup {<<p>> : p \in Shallow} \cup {<<p, q>> : p, q \in Shallow}

MCTieredSets == SUBSET Shallow
=============================================================================
