--------------------------- MODULE MC_SkillSettings ---------------------------
(***************************************************************************)
(* A small instance of SkillSettings: two pack names, and for each field a *)
(* handful of values that reach every branch of the loop body: absent,     *)
(* not a list, and lists mixing unusable items, relative and absolute      *)
(* paths.                                                                  *)
(***************************************************************************)
EXTENDS SkillSettings

CONSTANTS v1, v2

MCVals == {v1, v2}

MCDefaultPacks == << v1 >>

Str(v, rel) == [kind |-> "string", v |-> v, rel |-> rel]
Junk(k) == [kind |-> k, v |-> NoVal, rel |-> FALSE]

Absent == [kind |-> "absent", items |-> << >>]
NonList == [kind |-> "nonlist", items |-> << >>]
List(s) == [kind |-> "list", items |-> s]

PacksFields == {Absent, NonList, List(<< Str(v2, FALSE) >>),
                List(<< Junk("blank"), Str(v1, FALSE) >>)}
RootsFields == {Absent, NonList, List(<< Str(v1, TRUE) >>),
                List(<< Junk("nonstring"), Str(v2, FALSE) >>)}
DisabledFields == {Absent, NonList, List(<< Str(v1, FALSE) >>)}

MCFileContents ==
    {[kind |-> "unusable", packs |-> Absent, roots |-> Absent, disabled |-> Absent]}
    \cup [kind : {"ok"}, packs : PacksFields, roots : RootsFields,
          disabled : DisabledFields]
=============================================================================
