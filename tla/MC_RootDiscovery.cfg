CONSTANTS
    r = r
    a = a
    b = b
    Dirs <- MCDirs
    Parent <- MCParent
    MaxAncestorDepth = 2
    ConfigLists <- MCConfigLists
    TieredSets <- MCTieredSets
SPECIFICATION Spec
\* discover_skill_roots returns: the final state has no successor.
CHECK_DEADLOCK FALSE
INVARIANTS
    TypeOK
    RootsInFirstRegistrationOrder
    ProvenanceIsHighestFirst
