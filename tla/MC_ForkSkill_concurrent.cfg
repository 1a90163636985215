\* Two concurrent invocations of the same fork, with failures and kills.
CONSTANTS
    p1 = p1
    p2 = p2
    t1 = t1
    t2 = t2
    SrcDir = SrcDir
    DstDir = DstDir
    Absent = Absent
    Procs <- MCProcsTwo
    StageOf <- MCStageOf
    ArgChoices <- MCArgsConcurrent
SPECIFICATION Spec
\* Every invocation ends: its last state has no successor.
CHECK_DEADLOCK FALSE
PROPERTIES
    NoForceNeverReplacesExisting
