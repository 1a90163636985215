--------------------------- MODULE RootDiscovery ---------------------------
(***************************************************************************)
(* Root Discovery of fork_skill.py: discover_skill_roots builds the list   *)
(* of candidate root directories (the bounded ancestor walks from the      *)
(* script's and from the interpreter's directory, root-to-leaf, then the   *)
(* global root, the project root and the configured roots) and feeds them  *)
(* one by one to append_discovered_root, which resolves each to a skill    *)
(* directory and deduplicates by it, upgrading the provenance of an        *)
(* existing root in place.                                                 *)
(*                                                                         *)
(* Data abstraction.  A canonical directory is a model value of Dirs with  *)
(* its parent given by Parent (the filesystem root is its own parent).  A  *)
(* path is [dir, depth]: depth k appends k times the component "skills".  *)
(* The filesystem is the set `tiered` of paths that contain at least one   *)
(* of base/, packs/, project/.                                             *)
(***************************************************************************)
EXTENDS Naturals, Sequences

CONSTANTS
    Dirs,              \* canonical directories
    Parent,            \* Path.parent on them
    MaxAncestorDepth,  \* MAX_ANCESTOR_DEPTH
    ConfigLists,       \* the configured root lists load_skill_settings may return
    TieredSets         \* the sets of paths that may hold tier directories

ASSUME ParentAssumption == Parent \in [Dirs -> Dirs]
ASSUME DepthAssumption == MaxAncestorDepth \in Nat \ {0}

Path == [dir : Dirs, depth : 0 .. 2]

ASSUME ConfigListsAssumption == ConfigLists \subseteq Seq(Path)
ASSUME TieredSetsAssumption == TieredSets \subseteq SUBSET Path

Sources == {"module_ancestor", "exec_ancestor", "global_root",
            "project_root", "config_root"}

SourcePriority == [s \in Sources |-> CASE s = "module_ancestor" -> 1
                                       [] s = "exec_ancestor"   -> 2
                                       [] s = "global_root"     -> 3
                                       [] s = "project_root"    -> 4
                                       [] s = "config_root"     -> 5]

Candidate == [root_dir : Path, source : Sources]
Root == [root_dir : Path, skill_dir : Path, source : Sources]

VARIABLES
    tiered,             \* paths holding a tier directory (read only)
    cands,              \* the calls discover_skill_roots makes, in order
    ci,                 \* index of the next call
    roots,              \* the list `roots`
    index_by_skill_dir  \* the dict `index_by_skill_dir`

vars == <<tiered, cands, ci, roots, index_by_skill_dir>>

(***************************************************************************)
(* Helpers.                                                                *)
(***************************************************************************)
Skills(p) == [dir |-> p.dir, depth |-> p.depth + 1]

\* resolve_skill_directory: the root itself if it holds a tier directory,
\* else root/skills if that does, else None (the empty set here).
ResolveSkillDirectory(p) ==
    IF p \in tiered THEN {p}
    ELSE IF p.depth < 2 /\ Skills(p) \in tiered THEN {Skills(p)}
    ELSE {}

\* The k-th ancestor of d.
Up(d, k) == LET up[i \in 0 .. k] == IF i = 0 THEN d ELSE Parent[up[i - 1]]
            IN  up[k]

\* collect_bounded_ancestors: d and its ancestors, MAX_ANCESTOR_DEPTH of
\* them at most, stopping after the filesystem root.
AncestorCount(d) ==
    LET stops == {k \in 0 .. MaxAncestorDepth - 1 : Parent[Up(d, k)] = Up(d, k)}
    IN  IF stops = {} THEN MaxAncestorDepth
        ELSE (CHOOSE k \in stops : \A j \in stops : k <= j) + 1

\* reversed(collect_bounded_ancestors(d)), tagged with a provenance.
AncestorCandidates(d, source) ==
    [i \in 1 .. AncestorCount(d) |->
        [root_dir |-> [dir |-> Up(d, AncestorCount(d) - i), depth |-> 0],
         source |-> source]]

\* The sequence of append_discovered_root calls of discover_skill_roots.
DiscoverCandidates(moduleDir, execDir, globalRoot, projectRoot, configured) ==
    AncestorCandidates(moduleDir, "module_ancestor")
    \o AncestorCandidates(execDir, "exec_ancestor")
    \o << [root_dir |-> globalRoot, source |-> "global_root"],
          [root_dir |-> projectRoot, source |-> "project_root"] >>
    \o [i \in 1 .. Len(configured) |->
           [root_dir |-> configured[i], source |-> "config_root"]]

\* Mutant: a duplicate of equal priority also replaces the stored root.
UpgradesOnEqual(c, existing) == SourcePriority[c.source] >= SourcePriority[existing.source]

\* The comparison that lets a duplicate replace the stored provenance.
Upgrades(c, existing) == SourcePriority[c.source] > SourcePriority[existing.source]

\* Mutant: the replacement rebuilt from the new root_dir alone.
UpgradedRootNewSkillDir(existing, c) ==
    [root_dir |-> c.root_dir, skill_dir |-> c.root_dir, source |-> c.source]

\* The replacement record: the new root_dir and source, the old skill_dir.
UpgradedRoot(existing, c) ==
    [root_dir |-> c.root_dir, skill_dir |-> existing.skill_dir, source |-> c.source]

\* Mutant: the index taken after the append.
NewIndexAfterAppend(rs) == Len(rs) + 2

\* index_by_skill_dir[key] = len(roots), taken before the append.
NewIndex(rs) == Len(rs) + 1

(***************************************************************************)
(* The specification.                                                      *)
(***************************************************************************)
Init ==
    /\ tiered \in TieredSets
    /\ \E moduleDir, execDir, globalDir, projectDir \in Dirs,
          configured \in ConfigLists :
          cands = DiscoverCandidates(moduleDir, execDir,
                                     [dir |-> globalDir, depth |-> 0],
                                     [dir |-> projectDir, depth |-> 0],
                                     configured)
    /\ ci = 1
    /\ roots = << >>
    /\ index_by_skill_dir = [k \in {} |-> 0]

\* One call append_discovered_root(roots, index_by_skill_dir, root_dir, source).
AppendDiscoveredRoot ==
    /\ ci <= Len(cands)
    /\ ci' = ci + 1
    /\ UNCHANGED <<tiered, cands>>
    /\ LET c == cands[ci] IN
       \/ \* no skill directory: return
          /\ ResolveSkillDirectory(c.root_dir) = {}
          /\ UNCHANGED <<roots, index_by_skill_dir>>
       \/ \E key \in ResolveSkillDirectory(c.root_dir) :
          \/ \* already registered: upgrade the provenance, keep skill_dir
             /\ key \in DOMAIN index_by_skill_dir
             /\ LET i == index_by_skill_dir[key] IN
                IF Upgrades(c, roots[i])
                THEN roots' = [roots EXCEPT ![i] = UpgradedRoot(roots[i], c)]
                ELSE UNCHANGED roots
             /\ UNCHANGED index_by_skill_dir
          \/ \* new skill directory: register it at the end
             /\ key \notin DOMAIN index_by_skill_dir
             /\ index_by_skill_dir' =
                   [k \in DOMAIN index_by_skill_dir \cup {key} |->
                       IF k = key THEN NewIndex(roots) ELSE index_by_skill_dir[k]]
             /\ roots' = Append(roots, [root_dir |-> c.root_dir, skill_dir |-> key,
                                        source |-> c.source])

Next == AppendDiscoveredRoot

Spec == Init /\ [][Next]_vars

\* discover_skill_roots has returned.
Finished == ci > Len(cands)

(***************************************************************************)
(* Properties.                                                             *)
(***************************************************************************)
TypeOK ==
    /\ tiered \subseteq Path
    /\ cands \in Seq(Candidate)
    /\ ci \in 1 .. Len(cands) + 1
    /\ roots \in Seq(Root)
    /\ DOMAIN index_by_skill_dir \subseteq Path
    /\ index_by_skill_dir \in [DOMAIN index_by_skill_dir -> 1 .. Len(roots)]

\* Indices of the calls made so far whose root resolves to skill dir k.
CallsFor(k) == {j \in 1 .. ci - 1 : k \in ResolveSkillDirectory(cands[j].root_dir)}

FirstCall(S) == CHOOSE j \in S : \A m \in S : j <= m

(* Deduplication of append_discovered_root: the roots list holds each      *)
(* skill directory reached so far exactly once, in the order in which each *)
(* was first reached, and index_by_skill_dir maps every one of them to its *)
(* position; a later, higher-priority duplicate never moves a root.        *)
RootsInFirstRegistrationOrder ==
    /\ {roots[i].skill_dir : i \in 1 .. Len(roots)} =
          {k \in Path : CallsFor(k) # {}}
    /\ \A i, j \in 1 .. Len(roots) :
          i < j => FirstCall(CallsFor(roots[i].skill_dir))
                     < FirstCall(CallsFor(roots[j].skill_dir))
    /\ DOMAIN index_by_skill_dir = {roots[i].skill_dir : i \in 1 .. Len(roots)}
    /\ \A k \in DOMAIN index_by_skill_dir : roots[index_by_skill_dir[k]].skill_dir = k

(* Provenance upgrade of append_discovered_root (the strict `>`): every    *)
(* root carries the highest-priority provenance among the calls that       *)
(* reached its skill directory, and the root_dir of the first of those     *)
(* calls that had that provenance.                                         *)
ProvenanceIsHighestFirst ==
    \A i \in 1 .. Len(roots) :
        LET calls == CallsFor(roots[i].skill_dir)
            best  == {j \in calls : \A m \in calls :
                         SourcePriority[cands[m].source] <= SourcePriority[cands[j].source]}
        IN  /\ roots[i].source = cands[FirstCall(best)].source
            /\ roots[i].root_dir = cands[FirstCall(best)].root_dir
=============================================================================
