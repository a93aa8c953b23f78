SPECIFICATION MCSpec
CONSTANTS
    Nodes = {0, 1, 2, 3}
    Starts = {0, 9}
    MaxDegree = 2
    Vertices = {0, 1, 2, 3}
    Pairs <- MCPairs
    WeightSets = {{}, {0}, {1, 4}}
    Start = 0
    Goals = {3, 9}
    Infinity = 50
INVARIANTS
    VisitsReachable
    VisitsOnce
    VisitsInOrder
    FindsLeastWeight
    PathHasItsWeight
PROPERTIES
    EveryCallEnds
CHECK_DEADLOCK FALSE
