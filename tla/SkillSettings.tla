--------------------------- MODULE SkillSettings ---------------------------
(***************************************************************************)
(* The Settings Loader of fork_skill.py: load_skill_settings reads the     *)
(* explicit config file, or the global and then the project brewva.json,   *)
(* and lets each usable file replace the fields skills.packs, skills.roots *)
(* and skills.disabled that it contains.                                   *)
(*                                                                         *)
(* Data abstraction.  A file is `unusable` when read_json_file returns     *)
(* None or {} or when its `skills` is not an object: the loop continues in *)
(* all these cases.  A field is absent, present but not a list, or a list  *)
(* of items; an item is not a string, a blank string, or a string whose    *)
(* trimmed text is a model value of Vals.  A configured root item also     *)
(* says whether its path is relative, in which case it resolves against    *)
(* the directory of the file that lists it.                                *)
(***************************************************************************)
EXTENDS Naturals, Sequences, FiniteSets

CONSTANTS
    Vals,          \* trimmed, non-empty strings
    NoVal,         \* the text of an item that is not a usable string
    DefaultPacks,  \* DEFAULT_PACKS
    FileContents   \* the contents a config file may have

Item == [kind : {"nonstring", "blank"}, v : {NoVal}, rel : BOOLEAN]
        \cup [kind : {"string"}, v : Vals, rel : BOOLEAN]

Field == [kind : {"absent", "nonlist"}, items : {<< >>}]
         \cup [kind : {"list"}, items : Seq(Item)]

Content == [kind : {"unusable", "ok"}, packs : Field, roots : Field, disabled : Field]

FileIds == {"explicit", "global", "project"}

\* A configured root after resolve_maybe_absolute(entry, cfg_path.parent).
RootPath == [base : FileIds \cup {"absolute"}, v : Vals]

ASSUME ConstantsAssumption ==
    /\ NoVal \notin Vals
    /\ DefaultPacks \in Seq(Vals)
    /\ FileContents \subseteq Content

VARIABLES
    config_files,      \* the files read, in order: [id, content]
    fi,                \* index of the next file of the loop
    packs,             \* packs
    configured_roots,  \* configured_roots
    disabled           \* disabled

vars == <<config_files, fi, packs, configured_roots, disabled>>

(***************************************************************************)
(* Helpers.                                                                *)
(***************************************************************************)
IsUsableString(item) == item.kind = "string"

\* Mutant: the blank-string check `if trimmed:` dropped.
IsStringKeepBlank(item) == item.kind # "nonstring"

StringsKeepBlank(items) ==
    LET norm[i \in 0 .. Len(items)] ==
          IF i = 0 THEN << >>
          ELSE IF IsStringKeepBlank(items[i]) THEN Append(norm[i - 1], items[i].v)
                                              ELSE norm[i - 1]
    IN  norm[Len(items)]

\* The loop of normalize_string_array: norm[i] is `normalized` after the
\* first i items, each usable string appended trimmed, the rest skipped.
Strings(items) ==
    LET norm[i \in 0 .. Len(items)] ==
          IF i = 0 THEN << >>
          ELSE IF IsUsableString(items[i]) THEN Append(norm[i - 1], items[i].v)
                                           ELSE norm[i - 1]
    IN  norm[Len(items)]

\* Mutant: a non-list value yields [] instead of list(fallback).
NormalizeStringArrayEmptyFallback(field, fallback) ==
    IF field.kind # "list" THEN << >> ELSE Strings(field.items)

\* normalize_string_array(value, fallback)
NormalizeStringArray(field, fallback) ==
    IF field.kind # "list" THEN fallback ELSE Strings(field.items)

\* The `roots` branch: the same loop, each usable entry resolved against
\* the file's directory.
NormalizeRoots(field, id) ==
    LET items == field.items
        norm[i \in 0 .. Len(items)] ==
          IF i = 0 THEN << >>
          ELSE IF IsUsableString(items[i])
               THEN Append(norm[i - 1],
                           [base |-> IF items[i].rel THEN id ELSE "absolute",
                            v |-> items[i].v])
               ELSE norm[i - 1]
    IN  norm[Len(items)]

(***************************************************************************)
(* The specification.                                                      *)
(***************************************************************************)
Init ==
    /\ \E explicitGiven \in BOOLEAN, c1, c2 \in FileContents :
          config_files = IF explicitGiven
                         THEN << [id |-> "explicit", content |-> c1] >>
                         ELSE << [id |-> "global", content |-> c1],
                                 [id |-> "project", content |-> c2] >>
    /\ fi = 1
    /\ packs = DefaultPacks
    /\ configured_roots = << >>
    /\ disabled = << >>

\* One iteration of `for cfg_path in config_files`.
LoadConfigFile ==
    /\ fi <= Len(config_files)
    /\ fi' = fi + 1
    /\ UNCHANGED config_files
    /\ LET f == config_files[fi]
           c == f.content
       IN  \/ /\ c.kind = "unusable"
              /\ UNCHANGED <<packs, configured_roots, disabled>>
           \/ /\ c.kind = "ok"
              /\ packs' = IF c.packs.kind = "absent" THEN packs
                          ELSE NormalizeStringArray(c.packs, packs)
              /\ configured_roots' =
                    CASE c.roots.kind = "absent"  -> configured_roots
                      [] c.roots.kind = "nonlist" -> << >>
                      [] c.roots.kind = "list"    -> NormalizeRoots(c.roots, f.id)
              /\ disabled' = IF c.disabled.kind = "absent" THEN disabled
                             ELSE NormalizeStringArray(c.disabled, disabled)

Next == LoadConfigFile

Spec == Init /\ [][Next]_vars

\* load_skill_settings has returned.
Finished == fi > Len(config_files)

(***************************************************************************)
(* Properties.                                                             *)
(***************************************************************************)
TypeOK ==
    /\ config_files \in Seq([id : FileIds, content : Content])
    /\ fi \in 1 .. Len(config_files) + 1
    /\ packs \in Seq(Vals)
    /\ configured_roots \in Seq(RootPath)
    /\ disabled \in Seq(Vals)

\* Indices of the files read whose `skills` sets field f in the given kinds.
SetBy(f, kinds) ==
    {i \in 1 .. Len(config_files) :
        /\ config_files[i].content.kind = "ok"
        /\ config_files[i].content[f].kind \in kinds}

LastOf(S) == CHOOSE i \in S : \A j \in S : j <= i

\* Reference for the strings kept from a list, written without the loop:
\* the j-th result is the item that has exactly j usable items up to it.
RefStrings(items) ==
    LET K == {i \in 1 .. Len(items) : items[i].kind = "string"}
        rank(i) == Cardinality({m \in K : m <= i})
    IN  [j \in 1 .. Cardinality(K) |-> items[CHOOSE i \in K : rank(i) = j].v]

RefRoots(field, id) ==
    LET s == RefStrings(field.items)
        K == {i \in 1 .. Len(field.items) : field.items[i].kind = "string"}
        at(j) == CHOOSE i \in K : Cardinality({m \in K : m <= i}) = j
    IN  [j \in 1 .. Len(s) |->
            [base |-> IF field.items[at(j)].rel THEN id ELSE "absolute", v |-> s[j]]]

(* Field-by-field replacement as load_skill_settings implements it: when   *)
(* the loader returns, packs and disabled are the usable strings of the    *)
(* last file that gave them as a list (a present non-list value leaves the *)
(* earlier value), else their defaults; configured_roots are the roots of  *)
(* the last file that has the field at all, each relative one resolved     *)
(* against that file's own directory, and empty if that value is not a     *)
(* list.  No list is ever merged with another.                             *)
LastFileReplacesFields ==
    Finished =>
      /\ packs = IF SetBy("packs", {"list"}) = {} THEN DefaultPacks
                 ELSE RefStrings(config_files[LastOf(SetBy("packs", {"list"}))].content.packs.items)
      /\ disabled = IF SetBy("disabled", {"list"}) = {} THEN << >>
                    ELSE RefStrings(config_files[LastOf(SetBy("disabled", {"list"}))].content.disabled.items)
      /\ configured_roots =
            IF SetBy("roots", {"list", "nonlist"}) = {} THEN << >>
            ELSE LET i == LastOf(SetBy("roots", {"list", "nonlist"}))
                 IN  IF config_files[i].content.roots.kind = "list"
                     THEN RefRoots(config_files[i].content.roots, config_files[i].id)
                     ELSE << >>

(* Spec sections 3 and 6: a field present in the project file replaces the *)
(* same field of the global file, so the result of packs and disabled      *)
(* depends on the project file alone whenever it has the field.  The code  *)
(* gives normalize_string_array the global value as fallback, so a present *)
(* non-list value keeps the global list.                                   *)
ProjectFieldReplacesGlobal ==
    LET pc == config_files[2].content IN
    (Finished /\ Len(config_files) = 2 /\ pc.kind = "ok") =>
      /\ pc.packs.kind # "absent" => packs = NormalizeStringArray(pc.packs, DefaultPacks)
      /\ pc.disabled.kind # "absent" => disabled = NormalizeStringArray(pc.disabled, << >>)
=============================================================================
