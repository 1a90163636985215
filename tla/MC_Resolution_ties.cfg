CONSTANTS
    r = r
    a = a
    Dirs <- MCDirs
    Parent <- MCParent
    MaxAncestorDepth = 2
    ConfigLists <- MCConfigLists
    TieredSets <- MCTieredSets
    N = 1
    Layouts <- MCLayouts
    NoEntry = NoEntry
SPECIFICATION ResSpec
\* load_registry returns: the final state has no successor.
CHECK_DEADLOCK FALSE
INVARIANTS
    ProvenanceBreaksTies
