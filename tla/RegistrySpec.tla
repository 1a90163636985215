---------------------------- MODULE RegistrySpec ----------------------------
(***************************************************************************)
(* What load_registry promises (spec section 4.4), without its loops: the  *)
(* roots are taken one at a time, and once k roots have been taken the     *)
(* effective entry of a name is the one of highest tier among the files    *)
(* those k roots contribute, and among equal tiers the one processed last *)
(* in root, tier, pack and path order.  Which files a root contributes and *)
(* what each is called are those of SkillRegistry (Candidates, Outranks).  *)
(***************************************************************************)
EXTENDS Naturals, Sequences

CONSTANTS N, SkillDirs, Layouts, RootLists, NoEntry

VARIABLES
    fs,      \* the skill files on disk
    roots,   \* the discovered roots
    active,  \* the active packs
    done,    \* how many roots have been taken
    loaded   \* name -> effective entry over the first `done` roots

absvars == <<fs, roots, active, done, loaded>>

\* The precedence and the file-to-entry mapping; the loop state of the
\* registry builder is irrelevant to them.
R == INSTANCE SkillRegistry
        WITH ri <- 1, tier_entries <- [l \in {} |-> NoEntry], all_entries <- << >>

\* The effective entry of name n over the first k roots.
EffectiveUpTo(k, n) ==
    LET C == {c \in R!Candidates(n) : c[1] <= k} IN
    IF C = {} THEN NoEntry
    ELSE LET c == CHOOSE c \in C : \A d \in C : d = c \/ R!Outranks(c, d)
         IN  R!EntryOf(roots[c[1]], c[2])

\* Any well-formed tree of skill files.
AbsInit ==
    /\ DOMAIN fs \subseteq R!Loc /\ fs \in [DOMAIN fs -> R!Content]
    /\ roots \in RootLists
    /\ active \in SUBSET R!Names
    /\ done = 0
    /\ loaded = [n \in R!Names |-> NoEntry]

\* The next root's files become visible all at once.
TakeRoot ==
    /\ done < Len(roots)
    /\ done' = done + 1
    /\ loaded' = [n \in R!Names |-> EffectiveUpTo(done + 1, n)]
    /\ UNCHANGED <<fs, roots, active>>

AbsSpec == AbsInit /\ [][TakeRoot]_absvars
=============================================================================
