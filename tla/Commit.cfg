SPECIFICATION Spec
CONSTANTS
    MaxNodes = 2
    MaxEdges = 1
    Labels = {"City"}
    Fields = {"name"}
    NodeData <- OneNodeKind
    Absent = Absent
    Markers = TRUE
    IndexedFields = {"name"}
    CacheCapacity = 2
    AutoCompact = FALSE
    AutoCompactAfter = 0
    MaxTxns = 1
    MaxOps = 3
    MaxFaults = 0
    MaxCrashes = 1
    ExclusiveTxns = TRUE
    GuessedIds = FALSE
INVARIANTS
    LabelIndexExact
    ReferentialIntegrity
PROPERTIES
    CommitAtomic
    ImplementsGraphStore
CHECK_DEADLOCK FALSE
