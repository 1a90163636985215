----------------------------- MODULE MC_ForkSkill -----------------------------
(***************************************************************************)
(* Instances of ForkSkill: one invocation with every command line, and two *)
(* concurrent invocations of the same fork that differ in --force, in the  *)
(* destination (the source itself or another directory) and in            *)
(* --no-metadata.                                                          *)
(***************************************************************************)
EXTENDS ForkSkill

CONSTANTS p1, p2, t1, t2

MCProcsOne == {p1}
MCProcsTwo == {p1, p2}

MCStageOf == [p \in Procs |-> IF p = p1 THEN t1 ELSE t2]

\* Every command line and lookup outcome.
MCArgsAll == Args

\* Command lines that reach the copy and return 0 when it works.
MCArgsConcurrent ==
    {a \in Args : a.found /\ ~a.dryRun /\ ~a.disabled /\ a.allowInactive}
=============================================================================
