SPECIFICATION Spec
CONSTANTS
    MaxNodes = 2
    MaxEdges = 2
    Labels = {"City", "Person"}
    Fields = {"name", "pop"}
    NodeData <- TwoNodeKinds
    Absent = Absent
    Markers = TRUE
    IndexedFields = {"pop"}
    CacheCapacity = 1
    AutoCompact = TRUE
    AutoCompactAfter = 2
    MaxTxns = 0
    MaxOps = 0
    MaxFaults = 1
    MaxCrashes = 1
    ExclusiveTxns = TRUE
    GuessedIds = FALSE
INVARIANTS
    EngineMirrorsLog
    PropertyIndexExact
    CacheCoherent
CHECK_DEADLOCK FALSE
