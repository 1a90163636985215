CONSTANTS
    N = 2
    s1 = s1
    s2 = s2
    SkillDirs <- MCSkillDirs
    Layouts <- MCLayouts
    RootLists <- MCRootLists
    NoEntry = NoEntry
SYMMETRY Symmetry
SPECIFICATION Spec
\* load_registry returns: the final state has no successor.
CHECK_DEADLOCK FALSE
INVARIANTS
    TypeOK
    RegistryCorrect
    EffectiveIsHighestTierLastProcessed
