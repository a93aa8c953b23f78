SPECIFICATION MCSpec
CONSTANTS
    MaxNodes = 3
    MaxEdges = 0
    Labels = {"A", "B"}
    Contents <- MCContents
    Filters <- MCFilters
    EdgeFilters <- MCEdgeFilters
    IndexedFields = {"p", "q"}
    MaxFullScanNodes = 2
    MaxQueries = 0
    Mixed = FALSE
INVARIANTS
    AnswerIsFullScan BucketsExact EachMatchCountedOnce
CHECK_DEADLOCK FALSE
