\* The spec's rule that the staging directory is always removed, except on a kill.
CONSTANTS
    p1 = p1
    p2 = p2
    t1 = t1
    t2 = t2
    SrcDir = SrcDir
    DstDir = DstDir
    Absent = Absent
    Procs <- MCProcsOne
    StageOf <- MCStageOf
    ArgChoices <- MCArgsAll
SPECIFICATION Spec
\* Every invocation ends: its last state has no successor.
CHECK_DEADLOCK FALSE
INVARIANTS
    StagingRemovedOnExit
