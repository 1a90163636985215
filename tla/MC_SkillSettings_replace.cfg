\* The spec's "project replaces global" for a present non-list field.
CONSTANTS
    v1 = v1
    v2 = v2
    NoVal = NoVal
    Vals <- MCVals
    DefaultPacks <- MCDefaultPacks
    FileContents <- MCFileContents
SPECIFICATION Spec
\* load_skill_settings returns after its last file.
CHECK_DEADLOCK FALSE
INVARIANTS
    ProjectFieldReplacesGlobal
