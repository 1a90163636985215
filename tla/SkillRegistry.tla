--------------------------- MODULE SkillRegistry ---------------------------
(***************************************************************************)
(* The Registry Builder of fork_skill.py: load_registry over the ordered   *)
(* list of discovered roots, with load_tier_entries for each tier          *)
(* directory.  For every root the code first builds the list              *)
(* tier_entries (base, then the packs in sorted order, then project; each *)
(* tier directory's SKILL.md files sorted by path) and then merges that    *)
(* list entry by entry into the name -> effective entry map `loaded`.      *)
(*                                                                         *)
(* Data abstraction.  Directory names, pack names and skill names are the  *)
(* numbers 1..N (sorted() on paths becomes < on numbers); a resolved skill *)
(* directory is a model value of SkillDirs.  A SKILL.md file is a location *)
(* [sd, tier, pack, dir]: dir = 0 is a SKILL.md lying directly in a pack   *)
(* directory (the layout a pack-tier fork creates).  The sorted list       *)
(* tier_entries is kept as a function from locations to entries; the merge *)
(* loop takes its entries in the order Key gives the locations.            *)
(***************************************************************************)
EXTENDS Naturals, Sequences

CONSTANTS
    N,          \* directory / pack / skill names are 1..N
    SkillDirs,  \* resolved skill directories of discovered roots
    Layouts,    \* the on-disk trees the loader may find
    RootLists,  \* the root lists discover_skill_roots may return
    NoEntry     \* `loaded.get(name)` returning None

ASSUME NAssumption == N \in Nat \ {0}

Names == 1 .. N

\* TIER_PRIORITY, TIER_DIRS and SOURCE_PRIORITIES of the source.
Tiers == {"base", "pack", "project"}
TierPriority == [t \in Tiers |-> CASE t = "base" -> 1
                                   [] t = "pack" -> 2
                                   [] t = "project" -> 3]
Sources == {"module_ancestor", "exec_ancestor", "global_root",
            "project_root", "config_root"}

\* A SKILL.md file below a root's skill directory.
Loc == [sd : SkillDirs, tier : {"base"}, pack : {0}, dir : Names]
       \cup [sd : SkillDirs, tier : {"pack"}, pack : Names, dir : 0 .. N]
       \cup [sd : SkillDirs, tier : {"project"}, pack : {0}, dir : Names]

\* What reading and parsing a SKILL.md yields: unreadable (read_text
\* raised), or readable with a declared name (decl = 0: no usable header
\* name, including a header that fails to parse).
Content == [kind : {"unreadable"}, decl : {0}] \cup [kind : {"skill"}, decl : 0 .. N]

RootRec == [skill_dir : SkillDirs, source : Sources]

Entry == [name : Names, tier : Tiers, loc : Loc, root : RootRec]

ASSUME LayoutsAssumption ==
    \A fs \in Layouts : DOMAIN fs \subseteq Loc /\ fs \in [DOMAIN fs -> Content]

ASSUME RootListsAssumption ==
    /\ RootLists \subseteq Seq(RootRec)
    /\ \A rl \in RootLists : \A i, j \in 1 .. Len(rl) :
          rl[i].skill_dir = rl[j].skill_dir => i = j

ASSUME NoEntryAssumption == NoEntry \notin Entry

VARIABLES
    fs,            \* the skill files on disk (read only here)
    roots,         \* the argument `roots`
    active,        \* set(active_packs)
    ri,            \* index of the next root of the outer loop
    tier_entries,  \* the current root's tier_entries not merged yet
    loaded,        \* name -> effective entry
    all_entries    \* every entry merged so far, in merge order

vars == <<fs, roots, active, ri, tier_entries, loaded, all_entries>>

(***************************************************************************)
(* Helpers of load_tier_entries / load_registry.                           *)
(***************************************************************************)

\* Mutant: the packs directory listed without sorted() (here: reversed).
KeyUnsortedPacks(l) ==
    CASE l.tier = "base"    -> l.dir
      [] l.tier = "pack"    -> N + (N - l.pack) * (N + 1) + l.dir + 1
      [] l.tier = "project" -> N + N * (N + 1) + l.dir

\* Position of a file in the order the loader lists a root's files:
\* base sorted, then each pack sorted (its own SKILL.md first), then project.
Key(l) == CASE l.tier = "base"    -> l.dir
            [] l.tier = "pack"    -> N + (l.pack - 1) * (N + 1) + l.dir + 1
            [] l.tier = "project" -> N + N * (N + 1) + l.dir

\* skill_md.parent.name
DirName(l) == IF l.dir = 0 THEN l.pack ELSE l.dir

\* Mutant: the header's name taken without the directory-name fallback.
EntryNameNoFallback(c, l) == c.decl

\* The header's name if it is a non-empty string, else the directory name.
EntryName(c, l) == IF c.decl # 0 THEN c.decl ELSE DirName(l)

IncludeAllPacks(r) == r.source \in {"project_root", "config_root"}

\* The files of root r that end up in tier_entries: readable ones, and in
\* the pack tier only those of active packs unless the root includes all.
Loadable(r) ==
    {l \in DOMAIN fs :
        /\ l.sd = r.skill_dir
        /\ fs[l].kind = "skill"
        /\ l.tier = "pack" => (IncludeAllPacks(r) \/ l.pack \in active)}

EntryOf(r, l) == [name |-> EntryName(fs[l], l), tier |-> l.tier,
                  loc |-> l, root |-> r]

\* Mutant: a later entry of equal tier does not override.
ReplacesStrict(entry, existing) ==
    TierPriority[entry.tier] > TierPriority[existing.tier]

\* The comparison that decides whether `entry` replaces `existing`.
Replaces(entry, existing) ==
    TierPriority[entry.tier] >= TierPriority[existing.tier]

(***************************************************************************)
(* The specification.                                                      *)
(***************************************************************************)
Init ==
    /\ fs \in Layouts
    /\ roots \in RootLists
    /\ active \in SUBSET Names
    /\ ri = 1
    /\ tier_entries = [l \in {} |-> NoEntry]
    /\ loaded = [n \in Names |-> NoEntry]
    /\ all_entries = << >>

\* One iteration of `for root in roots` up to the inner merge loop:
\* load base, the included packs and project into tier_entries.
LoadRoot ==
    /\ ri <= Len(roots)
    /\ DOMAIN tier_entries = {}
    /\ tier_entries' = [l \in Loadable(roots[ri]) |-> EntryOf(roots[ri], l)]
    /\ ri' = ri + 1
    /\ UNCHANGED <<fs, roots, active, loaded, all_entries>>

\* One iteration of `for entry in tier_entries`: record the entry and
\* install it if the name is new or its tier is at least the existing one.
MergeEntry(l) ==
    /\ l \in DOMAIN tier_entries
    /\ \A m \in DOMAIN tier_entries : Key(l) <= Key(m)
    /\ LET entry == tier_entries[l]
           existing == loaded[entry.name]
       IN  /\ all_entries' = Append(all_entries, entry)
           /\ loaded' = IF existing = NoEntry \/ Replaces(entry, existing)
                        THEN [loaded EXCEPT ![entry.name] = entry]
                        ELSE loaded
    /\ tier_entries' = [m \in DOMAIN tier_entries \ {l} |-> tier_entries[m]]
    /\ UNCHANGED <<fs, roots, active, ri>>

Next ==
    \/ LoadRoot
    \/ \E l \in DOMAIN tier_entries : MergeEntry(l)

Spec == Init /\ [][Next]_vars

\* load_registry has returned.
Finished == ri > Len(roots) /\ DOMAIN tier_entries = {}

(***************************************************************************)
(* Properties.                                                             *)
(***************************************************************************)
TypeOK ==
    /\ DOMAIN fs \subseteq Loc
    /\ fs \in [DOMAIN fs -> Content]
    /\ roots \in Seq(RootRec)
    /\ active \subseteq Names
    /\ ri \in 1 .. Len(roots) + 1
    /\ DOMAIN tier_entries \subseteq Loc
    /\ tier_entries \in [DOMAIN tier_entries -> Entry]
    /\ loaded \in [Names -> Entry \cup {NoEntry}]
    /\ all_entries \in Seq(Entry)

\* Entry i of all_entries is the last one of the highest tier among the
\* merged entries called n.
LastOfHighestTier(i, n) ==
    /\ all_entries[i].name = n
    /\ \A j \in 1 .. Len(all_entries) :
          all_entries[j].name = n =>
             \/ TierPriority[all_entries[j].tier] < TierPriority[all_entries[i].tier]
             \/ /\ TierPriority[all_entries[j].tier] = TierPriority[all_entries[i].tier]
                /\ j <= i

\* loaded[n] is the last merged entry of the highest tier called n, if any.
NameResolved(n) ==
    IF \E j \in 1 .. Len(all_entries) : all_entries[j].name = n
    THEN \E i \in 1 .. Len(all_entries) :
            /\ all_entries[i] = loaded[n]
            /\ LastOfHighestTier(i, n)
    ELSE loaded[n] = NoEntry

(* The merge rule of load_registry (the `>=` tier comparison of the inner  *)
(* loop): after any number of merged entries, the effective entry of a     *)
(* name is the entry of the highest tier merged so far, and among entries  *)
(* of that tier the one merged last; a name no merged entry has is absent. *)
RegistryCorrect == \A n \in Names : NameResolved(n)

\* The precedence of spec section 4.4, stated over the files and roots
\* alone: a candidate <<i, l>> is file l loaded from the i-th root.
Candidates(n) ==
    {c \in (1 .. Len(roots)) \X Loc :
        /\ c[2] \in Loadable(roots[c[1]])
        /\ EntryName(fs[c[2]], c[2]) = n}

\* c is processed after d in the fixed root-then-tier order: a later root;
\* in the same root a later tier, a later pack, a later path.
ProcessedAfter(c, d) ==
    \/ c[1] > d[1]
    \/ /\ c[1] = d[1]
       /\ \/ TierPriority[c[2].tier] > TierPriority[d[2].tier]
          \/ /\ c[2].tier = d[2].tier
             /\ \/ c[2].pack > d[2].pack
                \/ c[2].pack = d[2].pack /\ c[2].dir > d[2].dir

Outranks(c, d) ==
    \/ TierPriority[c[2].tier] > TierPriority[d[2].tier]
    \/ TierPriority[c[2].tier] = TierPriority[d[2].tier] /\ ProcessedAfter(c, d)

SpecEffective(n) ==
    IF Candidates(n) = {} THEN NoEntry
    ELSE LET c == CHOOSE c \in Candidates(n) :
                    \A d \in Candidates(n) : d = c \/ Outranks(c, d)
         IN  EntryOf(roots[c[1]], c[2])

(* Spec sections 4.4 and 8: when load_registry returns, the effective      *)
(* entry of every name is the one of strictly highest tier, and among      *)
(* equal tiers the one processed last in root order, then base -> packs    *)
(* (sorted) -> project order, then path order; inactive packs of filtered  *)
(* roots and unreadable files contribute nothing.                          *)
EffectiveIsHighestTierLastProcessed ==
    Finished => \A n \in Names : loaded[n] = SpecEffective(n)

=============================================================================
