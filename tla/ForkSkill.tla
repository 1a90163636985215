----------------------------- MODULE ForkSkill -----------------------------
(***************************************************************************)
(* The Fork Engine of fork_skill.py: `main` from the source lookup to its  *)
(* exit code.  Each invocation of the script is a process of Procs; they   *)
(* share the directories on disk.  One step is one statement of `main`     *)
(* that touches the disk (or decides the exit code); a copy or a removal   *)
(* may fail part-way, and a process may be killed between any two steps.   *)
(*                                                                         *)
(* Data abstraction.  A directory is Absent or a record: `from` says whose *)
(* files it holds (the source skill, an older skill, or nothing), `full`   *)
(* whether the tree is complete (a copy that failed part-way is not, and   *)
(* SKILL.md is there only in a complete tree), `meta` whether SKILL.md     *)
(* carries metadata.fork, `fm` whether it has a front matter at all, and   *)
(* `writer` the invocation whose copytree created it (none for older       *)
(* ones).  The skill being forked lives in SrcDir; a destination is SrcDir *)
(* itself (a forced self-overwrite) or DstDir; each process has its own    *)
(* mkdtemp staging directory StageOf[p].  Which entry the refreshed        *)
(* registry makes effective is chosen among the outcomes load_registry can *)
(* give.                                                                   *)
(***************************************************************************)
EXTENDS Naturals

CONSTANTS
    Procs,       \* concurrent invocations of fork_skill.py
    SrcDir,      \* source_entry.base_dir
    DstDir,      \* a destination other than the source
    StageOf,     \* the staging directory tempfile.mkdtemp gives each process
    ArgChoices,  \* the command lines (and lookup outcomes) considered
    Absent       \* a directory that does not exist

Dir == [from : {"src", "old", "none"}, full : BOOLEAN, meta : BOOLEAN, fm : BOOLEAN,
        writer : SUBSET Procs]

Locs == {SrcDir, DstDir} \cup {StageOf[p] : p \in Procs}

\* found: the lookup of lines 497-511 succeeds; self: the destination
\* resolves to the source directory.
Args == [found : BOOLEAN, force : BOOLEAN, dryRun : BOOLEAN, noMeta : BOOLEAN,
         allowInactive : BOOLEAN, self : BOOLEAN, disabled : BOOLEAN]

PCs == {"lookup", "check", "stage", "rm", "copy", "finally", "md", "meta",
        "validate", "refresh", "done", "raised", "killed"}

ASSUME ConstantsAssumption ==
    /\ SrcDir # DstDir
    /\ StageOf \in [Procs -> Locs \ {SrcDir, DstDir}]
    /\ \A p, q \in Procs : p # q => StageOf[p] # StageOf[q]
    /\ ArgChoices \subseteq Args
    /\ Absent \notin Dir

VARIABLES
    fs,      \* the directories: Locs -> Dir \cup {Absent}
    args,    \* each process's command line
    pc,      \* each process's position in main
    staged,  \* staged_temp_dir is set
    failed,  \* the try block raised: the except branch will return 1
    rc       \* the exit code main returns

vars == <<fs, args, pc, staged, failed, rc>>

Dst(p) == IF args[p].self THEN SrcDir ELSE DstDir

(***************************************************************************)
(* Helpers.                                                                *)
(***************************************************************************)
\* What shutil.copytree leaves when it stops part-way.
PartCopy(x) == [x EXCEPT !.full = FALSE]

\* The empty directory mkdtemp creates.
EmptyDir == [from |-> "none", full |-> FALSE, meta |-> FALSE, fm |-> FALSE, writer |-> {}]

\* The tree copytree(x, ...) creates for invocation p.
CopyBy(x, p) == [x EXCEPT !.writer = {p}]

\* Mutant: the `not` of `if not args.no_metadata` dropped.
InjectsMetadataInverted(a) == a.noMeta

InjectsMetadata(a) == ~a.noMeta

\* Mutant: rmtree guarded by the existence test alone.
RemovesDestinationAnyForce(p) == fs[Dst(p)] # Absent

\* `if destination_skill_dir.exists() and args.force`
RemovesDestination(p) == fs[Dst(p)] # Absent /\ args[p].force

\* The directory the copy reads: the staged copy, or the source.
CopySource(p) == IF staged[p] THEN StageOf[p] ELSE SrcDir

\* What a process does when its step is done: go to `next`, or return code.
Goto(p, next) == pc' = [pc EXCEPT ![p] = next]
Return(p, code) == /\ pc' = [pc EXCEPT ![p] = "done"]
                   /\ rc' = [rc EXCEPT ![p] = code]

\* The disks the finally branch may leave: `if staged_temp_dir and
\* staged_temp_dir.exists()`, rmtree(..., ignore_errors=True), which may
\* remove the tree, stop part-way or fail at once, and raises nothing.
CleanStage(p) ==
    IF staged[p] /\ fs[StageOf[p]] # Absent
    THEN {[fs EXCEPT ![StageOf[p]] = Absent],
          [fs EXCEPT ![StageOf[p]] = PartCopy(fs[StageOf[p]])],
          fs}
    ELSE {fs}

\* Mutant: the not-active exit given a code main never returns.
ExitCodeNotActive(active, a) == IF active \/ a.allowInactive THEN 0 ELSE 3

\* `active`, then `if not args.allow_inactive: return 2`, else return 0.
ExitCode(active, a) == IF active \/ a.allowInactive THEN 0 ELSE 2

\* The except branch: report and return 1.
ExceptBranch(p) == Return(p, 1)

(***************************************************************************)
(* The specification.                                                      *)
(***************************************************************************)
Init ==
    /\ \E srcFm \in BOOLEAN, srcMeta \in BOOLEAN, dst \in {Absent, [from |-> "old", full |-> TRUE, meta |-> FALSE, fm |-> TRUE, writer |-> {}]} :
          fs = [l \in Locs |-> CASE l = SrcDir -> [from |-> "src", full |-> TRUE, meta |-> srcMeta, fm |-> srcFm, writer |-> {}]
                                 [] l = DstDir -> dst
                                 [] OTHER      -> Absent]
    /\ args \in [Procs -> ArgChoices]
    /\ pc = [p \in Procs |-> "lookup"]
    /\ staged = [p \in Procs |-> FALSE]
    /\ failed = [p \in Procs |-> FALSE]
    /\ rc = [p \in Procs |-> 0]

\* Lines 497-511: resolve_explicit_source or the registry lookup.
Lookup(p) ==
    /\ pc[p] = "lookup"
    /\ IF args[p].found THEN Goto(p, "check") /\ UNCHANGED rc
                        ELSE Return(p, 1)
    /\ UNCHANGED <<fs, args, staged, failed>>

\* Mutant: the self-overwrite guard of line 539 dropped, no staging.
CheckNoStaging(p) ==
    /\ pc[p] = "check"
    /\ CASE fs[Dst(p)] # Absent /\ ~args[p].force -> Return(p, 1)
         [] args[p].dryRun                          -> Return(p, 0)
         [] OTHER                                   -> Goto(p, "rm") /\ UNCHANGED rc
    /\ UNCHANGED <<fs, args, staged, failed>>

\* Lines 528-539: the destination-exists check, --dry-run, and the
\* self-overwrite guard that decides whether to stage.
Check(p) ==
    /\ pc[p] = "check"
    /\ CASE fs[Dst(p)] # Absent /\ ~args[p].force -> Return(p, 1)
         [] args[p].dryRun                          -> Return(p, 0)
         [] args[p].force /\ args[p].self           -> Goto(p, "stage") /\ UNCHANGED rc
         [] OTHER                                   -> Goto(p, "rm") /\ UNCHANGED rc
    /\ UNCHANGED <<fs, args, staged, failed>>

\* Lines 537-543: mkdtemp and copytree into the staging directory, outside
\* the try block; a failure escapes main and leaves the staging directory.
Stage(p) ==
    /\ pc[p] = "stage"
    /\ staged' = [staged EXCEPT ![p] = TRUE]
    /\ \/ /\ fs[SrcDir] # Absent
          /\ fs' = [fs EXCEPT ![StageOf[p]] = CopyBy(fs[SrcDir], p)]
          /\ Goto(p, "rm") /\ UNCHANGED rc
       \/ /\ fs' = [fs EXCEPT ![StageOf[p]] =
                       IF fs[SrcDir] = Absent THEN EmptyDir ELSE PartCopy(CopyBy(fs[SrcDir], p))]
          /\ pc' = [pc EXCEPT ![p] = "raised"]
          /\ UNCHANGED rc
    /\ UNCHANGED <<args, failed>>

\* Lines 545-547: the forced removal of the destination; it may fail
\* part-way, or the process may be killed in the middle of it.
Rm(p) ==
    /\ pc[p] = "rm"
    /\ IF RemovesDestination(p)
       THEN \/ fs' = [fs EXCEPT ![Dst(p)] = Absent] /\ Goto(p, "copy")
               /\ UNCHANGED failed
            \/ fs' = [fs EXCEPT ![Dst(p)] = PartCopy(fs[Dst(p)])] /\ Goto(p, "finally")
               /\ failed' = [failed EXCEPT ![p] = TRUE]
            \/ fs' = [fs EXCEPT ![Dst(p)] = PartCopy(fs[Dst(p)])] /\ Goto(p, "killed")
               /\ UNCHANGED failed
       ELSE Goto(p, "copy") /\ UNCHANGED <<fs, failed>>
    /\ UNCHANGED <<args, staged, rc>>

\* Lines 549-550: copytree, which raises before writing when the source is
\* missing or the destination exists, may fail part-way, and leaves a
\* partial tree when the process is killed in the middle of it.
Copy(p) ==
    /\ pc[p] = "copy"
    /\ LET from == fs[CopySource(p)] IN
       \/ /\ from # Absent /\ fs[Dst(p)] = Absent
          /\ fs' = [fs EXCEPT ![Dst(p)] = CopyBy(from, p)]
          /\ Goto(p, "finally") /\ UNCHANGED failed
       \/ /\ from # Absent /\ fs[Dst(p)] = Absent
          /\ fs' = [fs EXCEPT ![Dst(p)] = PartCopy(CopyBy(from, p))]
          /\ Goto(p, "finally") /\ failed' = [failed EXCEPT ![p] = TRUE]
       \/ /\ from # Absent /\ fs[Dst(p)] = Absent
          /\ fs' = [fs EXCEPT ![Dst(p)] = PartCopy(CopyBy(from, p))]
          /\ Goto(p, "killed") /\ UNCHANGED failed
       \/ /\ from = Absent \/ fs[Dst(p)] # Absent
          /\ Goto(p, "finally") /\ failed' = [failed EXCEPT ![p] = TRUE]
          /\ UNCHANGED fs
    /\ UNCHANGED <<args, staged, rc>>

\* Lines 551-556: the except branch returns 1 after the finally branch's
\* best-effort removal of the staging directory.
Finally(p) ==
    /\ pc[p] = "finally"
    /\ fs' \in CleanStage(p)
    /\ IF failed[p] THEN ExceptBranch(p) ELSE Goto(p, "md") /\ UNCHANGED rc
    /\ UNCHANGED <<args, staged, failed>>

\* Lines 558-561: the destination SKILL.md must exist.
MdCheck(p) ==
    /\ pc[p] = "md"
    /\ IF fs[Dst(p)] # Absent /\ fs[Dst(p)].full
       THEN Goto(p, "meta") /\ UNCHANGED rc
       ELSE Return(p, 1)
    /\ UNCHANGED <<fs, args, staged, failed>>

\* Lines 563-568 with inject_fork_metadata (371-395): it raises when the
\* file is gone or has no front matter.
Meta(p) ==
    /\ pc[p] = "meta"
    /\ CASE ~InjectsMetadata(args[p]) ->
              Goto(p, "validate") /\ UNCHANGED <<fs, rc>>
         [] InjectsMetadata(args[p]) /\ fs[Dst(p)] # Absent /\ fs[Dst(p)].full
              /\ fs[Dst(p)].fm ->
              /\ fs' = [fs EXCEPT ![Dst(p)].meta = TRUE]
              /\ Goto(p, "validate") /\ UNCHANGED rc
         [] OTHER -> Return(p, 1) /\ UNCHANGED fs
    /\ UNCHANGED <<args, staged, failed>>

\* Lines 570-575 with run_validation: the validator's verdict.
Validate(p) ==
    /\ pc[p] = "validate"
    /\ \/ Goto(p, "refresh") /\ UNCHANGED rc
       \/ Return(p, 1)
    /\ UNCHANGED <<fs, args, staged, failed>>

\* Lines 577-616: re-resolution, the disabled names dropped, the active
\* check and --allow-inactive.  The fork can only be effective if its
\* SKILL.md is there and its name is not disabled.
Refresh(p) ==
    /\ pc[p] = "refresh"
    /\ \E effective \in {"other", "none"} \cup
                       (IF fs[Dst(p)] # Absent /\ fs[Dst(p)].full /\ ~args[p].disabled
                        THEN {"dst"} ELSE {}) :
          Return(p, ExitCode(effective = "dst", args[p]))
    /\ UNCHANGED <<fs, args, staged, failed>>

\* The process is killed between two statements.
Kill(p) ==
    /\ pc[p] \notin {"done", "raised", "killed"}
    /\ pc' = [pc EXCEPT ![p] = "killed"]
    /\ UNCHANGED <<fs, args, staged, failed, rc>>

Step(p) ==
    \/ Lookup(p) \/ Check(p) \/ Stage(p) \/ Rm(p) \/ Copy(p) \/ Finally(p)
    \/ MdCheck(p) \/ Meta(p) \/ Validate(p) \/ Refresh(p)

Next == \E p \in Procs : Step(p) \/ Kill(p)

Spec == Init /\ [][Next]_vars

(***************************************************************************)
(* Properties.                                                             *)
(***************************************************************************)
TypeOK ==
    /\ fs \in [Locs -> Dir \cup {Absent}]
    /\ args \in [Procs -> Args]
    /\ pc \in [Procs -> PCs]
    /\ staged \in [Procs -> BOOLEAN]
    /\ failed \in [Procs -> BOOLEAN]
    /\ rc \in [Procs -> {0, 1, 2}]

\* A complete fork of the source, with metadata.fork unless --no-metadata.
Installed(p) ==
    /\ fs[Dst(p)] # Absent
    /\ fs[Dst(p)].from = "src" /\ fs[Dst(p)].full
    /\ ~args[p].noMeta => fs[Dst(p)].meta

(* Exit code 0 after a write (spec section 6): when one invocation returns *)
(* 0 without --dry-run, the destination holds a complete copy of the       *)
(* source skill with its fork metadata, whatever the forced removal,       *)
(* staging, copy and injection steps before it did.                        *)
SuccessMeansInstalled ==
    \A p \in Procs :
        (pc[p] = "done" /\ rc[p] = 0 /\ ~args[p].dryRun) => Installed(p)

(* Without --force an existing destination is never replaced (spec        *)
(* section 8, scenario C), also when another invocation creates the        *)
(* destination after this one's exists() check (copytree then refuses it): *)
(* a step of an invocation without --force leaves a destination it did not *)
(* create in place and whole.  The one change such a step can still make   *)
(* to it is inject_fork_metadata's rewrite of SKILL.md, when a forced      *)
(* invocation replaced the destination between this one's copy and its     *)
(* injection.                                                              *)
NoForceNeverReplacesExisting ==
    [][\A p \in Procs :
          (~args[p].force /\ pc'[p] # pc[p] /\ fs[Dst(p)] # Absent
                          /\ p \notin fs[Dst(p)].writer)
              => /\ fs'[Dst(p)] # Absent
                 /\ [fs'[Dst(p)] EXCEPT !.meta = fs[Dst(p)].meta] = fs[Dst(p)]]_vars

(* The staging guard of a forced self-overwrite (lines 537-543, spec      *)
(* section 4.6 step 2) against termination (section 5): when such an       *)
(* invocation is killed, between two statements or in the middle of the    *)
(* rmtree or copytree of lines 547-550, a complete copy of the skill is    *)
(* left on disk, in its own directory or in the staging directory the kill *)
(* leaves behind.                                                          *)
SelfOverwriteRecoverableOnKill ==
    \A p \in Procs :
        (args[p].self /\ args[p].force /\ pc[p] = "killed")
            => \E l \in {SrcDir, StageOf[p]} :
                  fs[l] # Absent /\ fs[l].from = "src" /\ fs[l].full

(* Spec section 4.6, step 4: the staging directory of a self-overwrite is  *)
(* always removed, even on failure; section 5 excepts only external        *)
(* termination.  The staging copytree (line 542) runs before the try      *)
(* block, so its failure escapes main past the finally branch.             *)
StagingRemovedOnExit ==
    \A p \in Procs :
        pc[p] \in {"done", "raised"} => fs[StageOf[p]] = Absent

=============================================================================
