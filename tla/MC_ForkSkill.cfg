\* One invocation of fork_skill.py, every command line, copy and removal
\* failures, validation outcomes, a kill between any two statements and in
\* the middle of the removal or the copy of the destination.
CONSTANTS
    p1 = p1
    p2 = p2
    t1 = t1
    t2 = t2
    SrcDir = SrcDir
    DstDir = DstDir
    Absent = Absent
    Procs <- MCProcsOne
    StageOf <- MCStageOf
    ArgChoices <- MCArgsAll
SPECIFICATION Spec
\* Every invocation ends: its last state has no successor.
CHECK_DEADLOCK FALSE
INVARIANTS
    TypeOK
    SuccessMeansInstalled
    SelfOverwriteRecoverableOnKill
