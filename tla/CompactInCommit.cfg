SPECIFICATION Spec
CONSTANTS
    MaxNodes = 2
    MaxEdges = 1
    Labels = {"City"}
    Fields = {"name"}
    NodeData <- OneNodeKind
    Absent = Absent
    Markers = TRUE
    IndexedFields = {"name"}
    CacheCapacity = 2
    AutoCompact = TRUE
    AutoCompactAfter = 2
    MaxTxns = 1
    MaxOps = 3
    MaxFaults = 0
    MaxCrashes = 0
    ExclusiveTxns = TRUE
    GuessedIds = FALSE
PROPERTIES
    CommittedIsDurable
CHECK_DEADLOCK FALSE
