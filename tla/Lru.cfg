SPECIFICATION Spec
CONSTANTS
    MaxNodes = 3
    MaxEdges = 2
    Labels <- MCLabels
    Fields = {}
    NodeData <- MCNodeData
    Absent = Absent
    Markers = TRUE
    NodeCapacity = 2
    EdgeCapacity = 1
    EdgesInUse <- MCEdgesInUse
    MaxAccesses = 6
INVARIANTS
    StampsDistinct
PROPERTIES
    EvictsLeastRecentlyUsed
    ImplementsPort
CHECK_DEADLOCK FALSE
