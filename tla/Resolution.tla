----------------------------- MODULE Resolution -----------------------------
(***************************************************************************)
(* The resolution pipeline of main (lines 474-475, and again 577-578):     *)
(* discover_skill_roots builds the root list, and load_registry merges the *)
(* skill files below those roots.  RootDiscovery and SkillRegistry are     *)
(* instantiated over one file tree: a registry skill directory is a path   *)
(* of RootDiscovery, and a SKILL.md can only lie below a path that holds a *)
(* tier directory.  The module extends RootDiscovery, whose `roots` is    *)
(* the discovered list; the registry's argument is `rroots`.               *)
(***************************************************************************)
EXTENDS RootDiscovery

CONSTANTS N, Layouts, NoEntry  \* SkillRegistry

VARIABLES
    fs, rroots, active, ri, tier_entries, loaded, all_entries, \* registry
    phase                                                      \* which call runs

discvars == <<tiered, cands, ci, roots, index_by_skill_dir>>
regvars == <<fs, rroots, active, ri, tier_entries, loaded, all_entries>>
resvars == <<discvars, regvars, phase>>

G == INSTANCE SkillRegistry WITH SkillDirs <- Path, RootLists <- {}, roots <- rroots

\* The SkillRoot list main passes from discover_skill_roots to load_registry.
RegistryRoots(rs) ==
    [i \in 1 .. Len(rs) |-> [skill_dir |-> rs[i].skill_dir, source |-> rs[i].source]]

ResInit ==
    /\ Init
    /\ fs \in {f \in Layouts : \A l \in DOMAIN f : l.sd \in tiered}
    /\ active \in SUBSET G!Names
    /\ rroots = << >>
    /\ ri = 1
    /\ tier_entries = [l \in {} |-> NoEntry]
    /\ loaded = [n \in G!Names |-> NoEntry]
    /\ all_entries = << >>
    /\ phase = "discover"

\* One append_discovered_root call of discover_skill_roots.
Discover ==
    /\ phase = "discover"
    /\ Next
    /\ UNCHANGED <<regvars, phase>>

\* discover_skill_roots returns its list and load_registry is called on it.
CallLoadRegistry ==
    /\ phase = "discover"
    /\ Finished
    /\ phase' = "load"
    /\ rroots' = RegistryRoots(roots)
    /\ UNCHANGED <<discvars, fs, active, ri, tier_entries, loaded, all_entries>>

\* One step of load_registry.
Build ==
    /\ phase = "load"
    /\ G!Next
    /\ UNCHANGED <<discvars, phase>>

ResNext == Discover \/ CallLoadRegistry \/ Build

ResSpec == ResInit /\ [][ResNext]_resvars

Resolved == phase = "load" /\ G!Finished

(***************************************************************************)
(* Properties.                                                             *)
(***************************************************************************)
\* The highest provenance among the discovery calls that reach skill dir k.
BestSource(k) ==
    CHOOSE s \in {cands[j].source : j \in CallsFor(k)} :
        \A j \in CallsFor(k) : SourcePriority[cands[j].source] <= SourcePriority[s]

\* The SKILL.md files the pipeline must load: readable, below a skill
\* directory some discovery call reaches, and in an active pack unless the
\* best provenance reaching that directory includes every pack.
ExpectedFiles ==
    {l \in DOMAIN fs :
        /\ fs[l].kind = "skill"
        /\ CallsFor(l.sd) # {}
        /\ l.tier = "pack" =>
              l.pack \in active \/ BestSource(l.sd) \in {"project_root", "config_root"}}

(* Discovery and registry together (spec section 4.2: no double counting   *)
(* of a directory reached by two walks; section 4.4: pack filtering by the *)
(* root's provenance): when resolution is done, the registry has loaded    *)
(* every file below every reached skill directory exactly once, and the    *)
(* packs of a directory were filtered by the highest provenance that       *)
(* reached it, whatever order and duplicates the candidate list had.      *)
EachFileLoadedOnce ==
    Resolved =>
      /\ {all_entries[i].loc : i \in 1 .. Len(all_entries)} = ExpectedFiles
      /\ \A i, j \in 1 .. Len(all_entries) :
            all_entries[i].loc = all_entries[j].loc => i = j

(* Spec section 2 (the Registry Builder applies "tier precedence and       *)
(* provenance/iteration-order tie-breaks") and scenario E: among entries   *)
(* of a name with the winning tier, the effective one comes from a root    *)
(* whose provenance is at least that of every other.  The code breaks ties *)
(* by root position only, and an upgraded root keeps its early position.   *)
ProvenanceBreaksTies ==
    Resolved =>
      \A i \in 1 .. Len(all_entries) :
         LET e == all_entries[i] IN
         e.tier = loaded[e.name].tier =>
            SourcePriority[e.root.source] <= SourcePriority[loaded[e.name].root.source]
=============================================================================
