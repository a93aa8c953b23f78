SPECIFICATION Spec
CONSTANTS
    MaxNodes = 2
    MaxEdges = 1
    Labels = {"City"}
    Fields = {"name"}
    NodeData <- OneNodeKind
    Absent = Absent
    Markers = TRUE
    IndexedFields = {"name"}
    CacheCapacity = 2
    AutoCompact = FALSE
    AutoCompactAfter = 0
    MaxTxns = 2
    MaxOps = 2
    MaxFaults = 1
    MaxCrashes = 0
    ExclusiveTxns = TRUE
    GuessedIds = FALSE
INVARIANTS
    TypeOK
    GeneratorAhead
PROPERTIES
    IdsRetired
    NeverOverwritten
CHECK_DEADLOCK FALSE
