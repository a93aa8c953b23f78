SPECIFICATION FairSpec
CONSTANTS
    MaxNodes = 2
    MaxEdges = 1
    Labels = {"City"}
    Fields = {"name"}
    NodeData <- OneNodeKind
    Absent = Absent
    Markers = FALSE
    IndexedFields = {"name"}
    CacheCapacity = 1
    AutoCompact = TRUE
    AutoCompactAfter = 2
    MaxTxns = 1
    MaxOps = 2
    MaxFaults = 1
    MaxCrashes = 1
    ExclusiveTxns = TRUE
    GuessedIds = FALSE
INVARIANTS
    EngineMirrorsLog
    CacheCoherent
PROPERTIES
    CallsReturn
CHECK_DEADLOCK FALSE
