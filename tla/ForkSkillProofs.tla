--------------------------- MODULE ForkSkillProofs ---------------------------
(***************************************************************************)
(* Proofs about ForkSkill for any number of concurrent invocations and any *)
(* set of command lines: type correctness, and that an invocation without  *)
(* --force never removes or replaces a directory it did not create; and    *)
(* for one invocation, that exit 0 means an installed fork and that a      *)
(* killed self-overwrite leaves a complete copy of the skill.               *)
(***************************************************************************)
EXTENDS ForkSkill, TLAPS

(***************************************************************************)
(* Where the directories are: each process's destination and copy source  *)
(* are directories of Locs, and its staging directory is its own.          *)
(***************************************************************************)
LEMMA LocsFacts ==
    \A p \in Procs :
        /\ Dst(p) \in Locs /\ CopySource(p) \in Locs /\ StageOf[p] \in Locs
        /\ Dst(p) # StageOf[p]
        /\ \A q \in Procs : q # p => /\ StageOf[q] # StageOf[p]
                                     /\ Dst(q) # StageOf[p]
    BY ConstantsAssumption DEF Dst, CopySource, Locs

(***************************************************************************)
(* The trees copytree and inject_fork_metadata leave are directories.      *)
(***************************************************************************)
LEMMA DirFacts ==
    /\ EmptyDir \in Dir
    /\ \A x \in Dir, p \in Procs :
          /\ PartCopy(x) \in Dir /\ CopyBy(x, p) \in Dir
          /\ PartCopy(CopyBy(x, p)) \in Dir
          /\ [x EXCEPT !.meta = TRUE] \in Dir
    BY DEF Dir, PartCopy, CopyBy, EmptyDir

(***************************************************************************)
(* Type correctness of main's steps.                                       *)
(***************************************************************************)
THEOREM TypeCorrect == Spec => []TypeOK
<1>1. Init => TypeOK
  <2> SUFFICES ASSUME Init PROVE TypeOK
      OBVIOUS
  <2>1. PICK srcFm \in BOOLEAN, srcMeta \in BOOLEAN,
             dst \in {Absent, [from |-> "old", full |-> TRUE, meta |-> FALSE, fm |-> TRUE, writer |-> {}]} :
          fs = [l \in Locs |-> CASE l = SrcDir -> [from |-> "src", full |-> TRUE, meta |-> srcMeta, fm |-> srcFm, writer |-> {}]
                                 [] l = DstDir -> dst
                                 [] OTHER      -> Absent]
      BY DEF Init
  <2>0. {} \in SUBSET Procs
      OBVIOUS
  <2>2. [from |-> "src", full |-> TRUE, meta |-> srcMeta, fm |-> srcFm, writer |-> {}] \in Dir
      BY <2>0 DEF Dir
  <2>6. [from |-> "old", full |-> TRUE, meta |-> FALSE, fm |-> TRUE, writer |-> {}] \in Dir
      BY <2>0 DEF Dir
  <2>3. dst \in Dir \cup {Absent}
      BY <2>6
  <2>7. ASSUME NEW l \in Locs PROVE fs[l] \in Dir \cup {Absent}
    <3>1. CASE l = SrcDir
        BY <2>1, <2>2, <3>1, ConstantsAssumption
    <3>2. CASE l # SrcDir /\ l = DstDir
        BY <2>1, <2>3, <3>2
    <3>3. CASE l # SrcDir /\ l # DstDir
        BY <2>1, <3>3
    <3>4. QED
        BY <3>1, <3>2, <3>3
  <2>4. fs \in [Locs -> Dir \cup {Absent}]
      BY <2>1, <2>7
  <2>5. QED
      BY <2>4, ConstantsAssumption DEF Init, TypeOK, PCs
<1>2. TypeOK /\ [Next]_vars => TypeOK'
  <2> SUFFICES ASSUME TypeOK, [Next]_vars PROVE TypeOK'
      OBVIOUS
  <2> USE DEF TypeOK, PCs, Goto, Return
  <2>1. ASSUME NEW p \in Procs, Lookup(p) PROVE TypeOK'
      BY <2>1 DEF Lookup
  <2>2. ASSUME NEW p \in Procs, Check(p) PROVE TypeOK'
      BY <2>2 DEF Check
  <2>3. ASSUME NEW p \in Procs, Stage(p) PROVE TypeOK'
    <3>1. /\ SrcDir \in Locs /\ StageOf[p] \in Locs
          /\ fs[SrcDir] \in Dir \cup {Absent}
        BY LocsFacts DEF Locs
    <3>2. /\ fs[SrcDir] # Absent => CopyBy(fs[SrcDir], p) \in Dir
          /\ (IF fs[SrcDir] = Absent THEN EmptyDir ELSE PartCopy(CopyBy(fs[SrcDir], p))) \in Dir
        BY <3>1, DirFacts
    <3>3. fs' \in [Locs -> Dir \cup {Absent}]
        BY <2>3, <3>1, <3>2 DEF Stage
    <3>4. QED
        BY <2>3, <3>3 DEF Stage
  <2>4. ASSUME NEW p \in Procs, Rm(p) PROVE TypeOK'
    <3>1. /\ Dst(p) \in Locs /\ fs[Dst(p)] \in Dir \cup {Absent}
        BY LocsFacts
    <3>2. RemovesDestination(p) => PartCopy(fs[Dst(p)]) \in Dir
        BY <3>1, DirFacts DEF RemovesDestination
    <3>3. fs' \in [Locs -> Dir \cup {Absent}]
        BY <2>4, <3>1, <3>2 DEF Rm
    <3>4. QED
        BY <2>4, <3>3 DEF Rm
  <2>5. ASSUME NEW p \in Procs, Copy(p) PROVE TypeOK'
    <3>1. /\ Dst(p) \in Locs /\ CopySource(p) \in Locs
          /\ fs[CopySource(p)] \in Dir \cup {Absent}
        BY LocsFacts
    <3>2. fs[CopySource(p)] # Absent =>
             /\ CopyBy(fs[CopySource(p)], p) \in Dir
             /\ PartCopy(CopyBy(fs[CopySource(p)], p)) \in Dir
        BY <3>1, DirFacts
    <3>3. fs' \in [Locs -> Dir \cup {Absent}]
        BY <2>5, <3>1, <3>2 DEF Copy
    <3>4. QED
        BY <2>5, <3>3 DEF Copy
  <2>6. ASSUME NEW p \in Procs, Finally(p) PROVE TypeOK'
    <3>1. StageOf[p] \in Locs /\ fs[StageOf[p]] \in Dir \cup {Absent}
        BY LocsFacts
    <3>2. fs[StageOf[p]] # Absent => PartCopy(fs[StageOf[p]]) \in Dir
        BY <3>1, DirFacts
    <3>3. fs' \in [Locs -> Dir \cup {Absent}]
        BY <2>6, <3>1, <3>2 DEF Finally, CleanStage
    <3>4. QED
        BY <2>6, <3>3 DEF Finally, ExceptBranch
  <2>7. ASSUME NEW p \in Procs, MdCheck(p) PROVE TypeOK'
      BY <2>7 DEF MdCheck
  <2>8. ASSUME NEW p \in Procs, Meta(p) PROVE TypeOK'
      BY <2>8, LocsFacts, DirFacts DEF Meta
  <2>9. ASSUME NEW p \in Procs, Validate(p) PROVE TypeOK'
      BY <2>9 DEF Validate
  <2>10. ASSUME NEW p \in Procs, Refresh(p) PROVE TypeOK'
      BY <2>10 DEF Refresh, ExitCode
  <2>11. ASSUME NEW p \in Procs, Kill(p) PROVE TypeOK'
      BY <2>11 DEF Kill
  <2>12. CASE UNCHANGED vars
      BY <2>12 DEF vars
  <2>13. QED
      BY <2>1, <2>2, <2>3, <2>4, <2>5, <2>6, <2>7, <2>8, <2>9, <2>10,
         <2>11, <2>12 DEF Next, Step
<1>3. QED
    BY <1>1, <1>2, PTL DEF Spec

(***************************************************************************)
(* A step of process p changes the disk only at p's destination and p's    *)
(* staging directory, and no other process's control state.                *)
(***************************************************************************)
LEMMA StepFrame ==
    ASSUME TypeOK, NEW p \in Procs, Step(p) \/ Kill(p)
    PROVE  /\ \A l \in Locs \ {Dst(p), StageOf[p]} : fs'[l] = fs[l]
           /\ \A r \in Procs \ {p} : pc'[r] = pc[r] /\ staged'[r] = staged[r]
           /\ args' = args
<1> USE DEF TypeOK, Goto, Return
<1>1. CASE Lookup(p)
    BY <1>1 DEF Lookup
<1>2. CASE Check(p)
    BY <1>2 DEF Check
<1>3. CASE Stage(p)
    BY <1>3 DEF Stage
<1>4. CASE Rm(p)
    BY <1>4 DEF Rm
<1>5. CASE Copy(p)
    BY <1>5 DEF Copy
<1>6. CASE Finally(p)
    BY <1>6 DEF Finally, CleanStage, ExceptBranch
<1>7. CASE MdCheck(p)
    BY <1>7 DEF MdCheck
<1>8. CASE Meta(p)
    BY <1>8 DEF Meta
<1>9. CASE Validate(p)
    BY <1>9 DEF Validate
<1>10. CASE Refresh(p)
    BY <1>10 DEF Refresh
<1>11. CASE Kill(p)
    BY <1>11 DEF Kill
<1>12. QED
    BY <1>1, <1>2, <1>3, <1>4, <1>5, <1>6, <1>7, <1>8, <1>9, <1>10, <1>11
       DEF Step

(***************************************************************************)
(* Only an invocation with --force reaches the staging step: Check sends   *)
(* a process to "stage" only under force, and args never change.           *)
(***************************************************************************)
ForceInv == \A p \in Procs : pc[p] = "stage" => args[p].force

\* The step predicate of NoForceNeverReplacesExisting.
NoForceStep ==
    \A p \in Procs :
        (~args[p].force /\ pc'[p] # pc[p] /\ fs[Dst(p)] # Absent
                        /\ p \notin fs[Dst(p)].writer)
            => /\ fs'[Dst(p)] # Absent
               /\ [fs'[Dst(p)] EXCEPT !.meta = fs[Dst(p)].meta] = fs[Dst(p)]

(***************************************************************************)
(* Resetting a directory's meta flag to its own value gives it back.       *)
(***************************************************************************)
LEMMA MetaReset ==
    \A x \in Dir, b \in BOOLEAN :
        /\ [x EXCEPT !.meta = x.meta] = x
        /\ [[x EXCEPT !.meta = b] EXCEPT !.meta = x.meta] = x
BY DEF Dir

(***************************************************************************)
(* An invocation without --force never removes or replaces a destination   *)
(* it did not create (the exists() check, the force guard of rmtree, and   *)
(* copytree's refusal of an existing directory); only its metadata         *)
(* injection may rewrite that directory's SKILL.md.                        *)
(***************************************************************************)
THEOREM NoForceSafe == Spec => NoForceNeverReplacesExisting
<1>1. Init => ForceInv
    BY DEF Init, ForceInv
<1>2. TypeOK /\ ForceInv /\ [Next]_vars => ForceInv'
  <2> SUFFICES ASSUME TypeOK, ForceInv, [Next]_vars, NEW q \in Procs,
                      pc'[q] = "stage"
               PROVE  args'[q].force
      BY DEF ForceInv
  <2>1. CASE UNCHANGED vars
      BY <2>1 DEF vars, ForceInv
  <2>2. ASSUME NEW p \in Procs, Step(p) \/ Kill(p)
        PROVE  args'[q].force
    <3>1. args' = args
        BY <2>2, StepFrame
    <3>2. CASE p # q
        BY <2>2, <3>1, <3>2, StepFrame DEF ForceInv
    <3>3. CASE p = q
      <4> USE DEF TypeOK, Goto, Return
      <4>1. CASE Check(p)
          BY <3>1, <3>3, <4>1 DEF Check
      <4>2. CASE Stage(p)
          BY <3>1, <3>3, <4>2 DEF Stage, ForceInv
      <4>3. CASE ~Check(p) /\ ~Stage(p)
          BY <2>2, <3>3, <4>3
             DEF Step, Lookup, Rm, Copy, Finally, ExceptBranch, MdCheck, Meta,
                 Validate, Refresh, Kill
      <4>4. QED
          BY <4>1, <4>2, <4>3
    <3>4. QED
        BY <3>2, <3>3
  <2>3. QED
      BY <2>1, <2>2 DEF Next
<1>3. TypeOK /\ ForceInv /\ [Next]_vars => [NoForceStep]_vars
  <2> SUFFICES ASSUME TypeOK, ForceInv, [Next]_vars, NEW p \in Procs,
                      ~args[p].force, pc'[p] # pc[p], fs[Dst(p)] # Absent,
                      p \notin fs[Dst(p)].writer
               PROVE  /\ fs'[Dst(p)] # Absent
                      /\ [fs'[Dst(p)] EXCEPT !.meta = fs[Dst(p)].meta] = fs[Dst(p)]
      BY DEF NoForceStep
  <2>0. /\ Dst(p) \in Locs /\ Dst(p) # StageOf[p]
        /\ fs[Dst(p)] \in Dir
        /\ [fs[Dst(p)] EXCEPT !.meta = fs[Dst(p)].meta] = fs[Dst(p)]
      BY LocsFacts, MetaReset DEF TypeOK
  <2>1. CASE UNCHANGED vars
      BY <2>1 DEF vars
  <2>2. CASE \E r \in Procs \ {p} : Step(r) \/ Kill(r)
      BY <2>2, StepFrame
  <2>3. CASE Step(p) \/ Kill(p)
    <3> USE DEF TypeOK, Goto, Return
    \* The steps that leave the destination as it is.
    <3>1. CASE Lookup(p) \/ Check(p) \/ Rm(p) \/ Copy(p) \/ Finally(p)
               \/ MdCheck(p) \/ Validate(p) \/ Refresh(p) \/ Kill(p)
      <4>1. fs'[Dst(p)] = fs[Dst(p)]
          BY <3>1, <2>0
             DEF Lookup, Check, Rm, RemovesDestination, Copy, Finally, CleanStage,
                 MdCheck, Validate, Refresh, Kill
      <4>2. QED
          BY <4>1, <2>0
    <3>2. CASE Stage(p)
        BY <3>2 DEF Stage, ForceInv
    <3>3. CASE Meta(p)
      <4>1. \/ fs'[Dst(p)] = fs[Dst(p)]
            \/ fs'[Dst(p)] = [fs[Dst(p)] EXCEPT !.meta = TRUE]
          BY <3>3, <2>0 DEF Meta
      <4>2. CASE fs'[Dst(p)] = fs[Dst(p)]
          BY <4>2, <2>0
      <4>3. CASE fs'[Dst(p)] = [fs[Dst(p)] EXCEPT !.meta = TRUE]
        <5>1. fs'[Dst(p)] \in Dir
            BY <4>3, <2>0, DirFacts
        <5>2. fs'[Dst(p)] # Absent
            BY <5>1, ConstantsAssumption
        <5>3. [fs'[Dst(p)] EXCEPT !.meta = fs[Dst(p)].meta] = fs[Dst(p)]
            BY <4>3, <2>0, MetaReset
        <5>4. QED
            BY <5>2, <5>3
      <4>4. QED
          BY <4>1, <4>2, <4>3
    <3>4. QED
        BY <2>3, <3>1, <3>2, <3>3 DEF Step
  <2>4. QED
      BY <2>1, <2>2, <2>3 DEF Next
<1>4. QED
    BY <1>1, <1>2, <1>3, TypeCorrect, PTL DEF Spec, NoForceNeverReplacesExisting, NoForceStep

(***************************************************************************)
(* The strengthening of SuccessMeansInstalled, for one invocation p: what  *)
(* holds of the source, the staging directory and the destination at each *)
(* position of main.  The source is a complete tree until the forced       *)
(* removal, the staged copy is one, an unstaged run is not a self-fork     *)
(* (Check sends a forced self-fork to staging, and an unforced one returns *)
(* 1 because the source exists), and from a successful copy on the         *)
(* destination is a complete fork, with metadata.fork after Meta.          *)
(***************************************************************************)
FullSrc(d) == d # Absent /\ d.from = "src" /\ d.full

SuccAt(p) ==
    /\ pc[p] \in {"lookup", "check"} => ~staged[p]
    /\ pc[p] \in {"lookup", "check", "stage", "rm"} => FullSrc(fs[SrcDir])
    /\ pc[p] \in {"rm", "copy"} /\ staged[p] => FullSrc(fs[StageOf[p]])
    /\ pc[p] \in {"rm", "copy", "finally"} /\ ~staged[p] => ~args[p].self
    /\ pc[p] = "finally" /\ staged[p] => FullSrc(fs[StageOf[p]])
    /\ pc[p] = "copy" /\ ~staged[p] => FullSrc(fs[SrcDir])
    /\ pc[p] = "finally" /\ ~failed[p] => FullSrc(fs[Dst(p)])
    /\ pc[p] \in {"md", "meta", "validate", "refresh"} => FullSrc(fs[Dst(p)])
    /\ pc[p] \in {"validate", "refresh"} => (~args[p].noMeta => fs[Dst(p)].meta)
    /\ pc[p] = "done" /\ rc[p] = 0 /\ ~args[p].dryRun => Installed(p)
    /\ pc[p] = "killed" /\ args[p].self /\ args[p].force =>
          FullSrc(fs[SrcDir]) \/ FullSrc(fs[StageOf[p]])

SuccInv == \A p \in Procs : SuccAt(p)

\* The places one invocation's steps touch.
LEMMA PlaceFacts ==
    ASSUME NEW p \in Procs
    PROVE  /\ SrcDir \in Locs /\ StageOf[p] \in Locs /\ Dst(p) \in Locs
           /\ StageOf[p] # SrcDir /\ StageOf[p] # Dst(p)
           /\ ~args[p].self => Dst(p) # SrcDir
           /\ args[p].self => Dst(p) = SrcDir
           /\ CopySource(p) = IF staged[p] THEN StageOf[p] ELSE SrcDir
BY ConstantsAssumption DEF Locs, Dst, CopySource

\* copytree and inject_fork_metadata keep a complete fork complete.
LEMMA FullSrcKept ==
    ASSUME NEW x \in Dir \cup {Absent}, FullSrc(x), NEW p \in Procs
    PROVE  /\ FullSrc(CopyBy(x, p)) /\ CopyBy(x, p).meta = x.meta
           /\ FullSrc([x EXCEPT !.meta = TRUE]) /\ [x EXCEPT !.meta = TRUE].meta
<1>1. x \in Dir
    BY DEF FullSrc
<1>2. CopyBy(x, p) \in Dir /\ [x EXCEPT !.meta = TRUE] \in Dir
    BY <1>1, DirFacts
<1>3. CopyBy(x, p) # Absent /\ [x EXCEPT !.meta = TRUE] # Absent
    BY <1>2, ConstantsAssumption
<1>4. QED
    BY <1>1, <1>3 DEF FullSrc, CopyBy, Dir

\* A step of p keeps SuccAt(p).
LEMMA SuccStep ==
    ASSUME TypeOK, NEW p \in Procs, SuccAt(p), Step(p) \/ Kill(p)
    PROVE  SuccAt(p)'
<1> USE PlaceFacts DEF TypeOK, Goto, Return, SuccAt, FullSrc, Dst, Installed
<1>1. CASE Lookup(p)
    BY <1>1 DEF Lookup
<1>2. CASE Check(p)
    BY <1>2 DEF Check, Dst
<1>3. CASE Stage(p)
  <2>1. pc[p] = "stage" /\ FullSrc(fs[SrcDir]) /\ staged'[p]
      BY <1>3 DEF Stage
  <2>2. CASE fs' = [fs EXCEPT ![StageOf[p]] = CopyBy(fs[SrcDir], p)]
             /\ pc' = [pc EXCEPT ![p] = "rm"]
    <3>1. fs'[SrcDir] = fs[SrcDir] /\ fs'[StageOf[p]] = CopyBy(fs[SrcDir], p)
          /\ pc'[p] = "rm" /\ args' = args
        BY <1>3, <2>2 DEF Stage
    <3>2. FullSrc(CopyBy(fs[SrcDir], p))
        BY <2>1, FullSrcKept
    <3>3. QED
        BY <2>1, <3>1, <3>2
  <2>3. CASE pc' = [pc EXCEPT ![p] = "raised"]
      BY <2>3
  <2>4. QED
      BY <1>3, <2>2, <2>3 DEF Stage
<1>4. CASE Rm(p)
    BY <1>4 DEF Rm
<1>5. CASE Copy(p)
  <2> DEFINE from == fs[CopySource(p)]
  <2>0. fs'[StageOf[p]] = fs[StageOf[p]] /\ staged' = staged /\ args' = args
      BY <1>5 DEF Copy
  <2>7. staged[p] => FullSrc(fs'[StageOf[p]])
      BY <1>5, <2>0 DEF Copy
  <2>8. ~staged[p] => ~args[p].self
      BY <1>5 DEF Copy
  <2>1. pc[p] = "copy" /\ pc'[p] \in {"finally", "killed"}
      BY <1>5 DEF Copy
  <2>2. FullSrc(from) /\ CopySource(p) # Dst(p)
      BY <2>1
  <2>3. CASE fs' = [fs EXCEPT ![Dst(p)] = CopyBy(from, p)] /\ failed' = failed
             /\ pc'[p] = "finally"
    <3>1. fs'[Dst(p)] = CopyBy(from, p) /\ FullSrc(CopyBy(from, p))
        BY <2>2, <2>3, FullSrcKept
    <3>2. QED
        BY <2>0, <2>1, <2>3, <3>1
  <2>4. CASE failed' = [failed EXCEPT ![p] = TRUE] /\ pc'[p] = "finally"
      BY <2>0, <2>4, <2>7, <2>8
  <2>5. CASE pc'[p] = "killed"
      BY <2>0, <2>5, <2>7, <2>8
  <2>6. QED
      BY <1>5, <2>3, <2>4, <2>5 DEF Copy
<1>6. CASE Finally(p)
    BY <1>6 DEF Finally, CleanStage, ExceptBranch
<1>7. CASE MdCheck(p)
    BY <1>7 DEF MdCheck
<1>8. CASE Meta(p)
  <2>1. pc[p] = "meta" /\ FullSrc(fs[Dst(p)]) /\ args' = args
      BY <1>8 DEF Meta
  <2>2. CASE args[p].noMeta
    <3>0. pc' = [pc EXCEPT ![p] = "validate"] /\ fs' = fs
        BY <1>8, <2>2 DEF Meta, InjectsMetadata, Goto
    <3>1. fs' = fs /\ pc'[p] = "validate"
        BY <3>0
    <3>2. QED
        BY <2>1, <2>2, <3>1
  <2>3. CASE ~args[p].noMeta /\ fs[Dst(p)].fm
    <3>1. fs' = [fs EXCEPT ![Dst(p)].meta = TRUE] /\ pc'[p] = "validate"
        BY <1>8, <2>1, <2>3 DEF Meta, InjectsMetadata
    <3>2. fs'[Dst(p)] = [fs[Dst(p)] EXCEPT !.meta = TRUE]
        BY <3>1
    <3>3. FullSrc(fs'[Dst(p)]) /\ fs'[Dst(p)].meta
        BY <2>1, <3>2, FullSrcKept
    <3>4. QED
        BY <2>1, <3>1, <3>3
  <2>4. CASE ~args[p].noMeta /\ ~fs[Dst(p)].fm
      BY <1>8, <2>1, <2>4 DEF Meta, InjectsMetadata
  <2>5. QED
      BY <2>2, <2>3, <2>4
<1>9. CASE Validate(p)
    BY <1>9 DEF Validate
<1>10. CASE Refresh(p)
    BY <1>10 DEF Refresh, ExitCode, Installed
<1>11. CASE Kill(p)
  <2>1. /\ fs' = fs /\ args' = args /\ staged' = staged /\ pc'[p] = "killed"
        /\ pc[p] \in PCs \ {"done", "raised", "killed"}
      BY <1>11 DEF Kill
  <2>2. args[p].self /\ args[p].force => FullSrc(fs[SrcDir]) \/ FullSrc(fs[StageOf[p]])
      BY <2>1 DEF PCs
  <2>3. QED
      BY <2>1, <2>2
<1>12. QED
    BY <1>1, <1>2, <1>3, <1>4, <1>5, <1>6, <1>7, <1>8, <1>9, <1>10, <1>11
       DEF Step

(***************************************************************************)
(* SuccInv is an invariant of a single invocation.                         *)
(***************************************************************************)
LEMMA SingleInvocationInv ==
    ASSUME NEW q, Procs = {q}
    PROVE  Spec => []SuccInv
<1>1. Init => SuccInv
  <2> SUFFICES ASSUME Init PROVE SuccAt(q)
      BY DEF SuccInv
  <2>1. SrcDir \in Locs
      BY DEF Locs
  <2>4. PICK srcFm \in BOOLEAN, srcMeta \in BOOLEAN,
             dst \in {Absent, [from |-> "old", full |-> TRUE, meta |-> FALSE, fm |-> TRUE, writer |-> {}]} :
          fs = [l \in Locs |-> CASE l = SrcDir -> [from |-> "src", full |-> TRUE, meta |-> srcMeta, fm |-> srcFm, writer |-> {}]
                                 [] l = DstDir -> dst
                                 [] OTHER      -> Absent]
      BY DEF Init
  <2>5. fs[SrcDir] = [from |-> "src", full |-> TRUE, meta |-> srcMeta, fm |-> srcFm, writer |-> {}]
      BY <2>1, <2>4, ConstantsAssumption
  <2>6. [from |-> "src", full |-> TRUE, meta |-> srcMeta, fm |-> srcFm, writer |-> {}] \in Dir
      BY DEF Dir
  <2>7. fs[SrcDir] # Absent
      BY <2>5, <2>6, ConstantsAssumption
  <2>8. pc[q] = "lookup" /\ ~staged[q]
      BY DEF Init
  <2>2. pc[q] = "lookup" /\ ~staged[q] /\ FullSrc(fs[SrcDir])
      BY <2>5, <2>7, <2>8 DEF FullSrc
  <2>3. QED
      BY <2>2 DEF SuccAt
<1>2. TypeOK /\ SuccInv /\ [Next]_vars => SuccInv'
  <2> SUFFICES ASSUME TypeOK, SuccAt(q), [Next]_vars PROVE SuccAt(q)'
      BY DEF SuccInv
  <2>1. CASE UNCHANGED vars
      BY <2>1 DEF vars, SuccAt, FullSrc, Dst, Installed
  <2>2. CASE Step(q) \/ Kill(q)
      BY <2>2, SuccStep
  <2>3. QED
      BY <2>1, <2>2 DEF Next
<1>3. QED
    BY <1>1, <1>2, TypeCorrect, PTL DEF Spec

(***************************************************************************)
(* Exit code 0 after a write (spec section 6): a single invocation that    *)
(* returns 0 without --dry-run has installed a complete fork of the source *)
(* with its metadata, whatever command line, removal failure, copy failure *)
(* or validation verdict it met.  The theorem is about one invocation, as  *)
(* is the run that checks it: two concurrent forced forks to the same      *)
(* destination can replace each other's result.                            *)
(***************************************************************************)
THEOREM SuccessInstalled ==
    ASSUME NEW q, Procs = {q}
    PROVE  Spec => []SuccessMeansInstalled
<1>1. Spec => []SuccInv
    BY SingleInvocationInv
<1>2. SuccInv => SuccessMeansInstalled
    BY DEF SuccInv, SuccAt, SuccessMeansInstalled
<1>3. QED
    BY <1>1, <1>2, PTL

(***************************************************************************)
(* Termination during a forced self-overwrite (spec section 5 with the     *)
(* staging guard of section 4.6, step 2): a single invocation that is      *)
(* killed, between two statements or in the middle of the rmtree or the    *)
(* copytree, leaves a complete copy of the skill in its own directory or   *)
(* in the staging directory, for every command line and failure outcome.   *)
(* Until the forced removal the source is whole; from staging until the    *)
(* finally branch the staged copy is (SuccInv), and after a successful     *)
(* copy the destination, which is the source directory, is.                *)
(***************************************************************************)
THEOREM SelfOverwriteRecoverable ==
    ASSUME NEW q, Procs = {q}
    PROVE  Spec => []SelfOverwriteRecoverableOnKill
<1>1. Spec => []SuccInv
    BY SingleInvocationInv
<1>2. SuccInv => SelfOverwriteRecoverableOnKill
    BY DEF SuccInv, SuccAt, FullSrc, SelfOverwriteRecoverableOnKill
<1>3. QED
    BY <1>1, <1>2, PTL
=============================================================================
