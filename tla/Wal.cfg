SPECIFICATION Spec
CONSTANTS
    MaxNodes = 2
    MaxEdges = 1
    Labels = {}
    Fields = {}
    NodeData = {}
    Absent = Absent
    Markers = TRUE
    Setups <- MCSetups
INVARIANTS
    ReplayIsLog
    CutReplaysToPrefix
    NothingInvented
PROPERTIES
    CompactionKeepsGraph
CHECK_DEADLOCK FALSE
