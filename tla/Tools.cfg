SPECIFICATION MCSpec
CONSTANTS
    Threads = {t1, t2, t3}
    NoThread = none
    Configs <- MCConfigs
    Cities = {0, 2}
    People = {0, 1, 3}
    Runs = {0, 1}
    PerThread = 2
    MaxFaults = 1
    Lines <- MCLines
    Files <- MCFiles
    HistoryCap = 1
    SampleNodes = 3
    Rails <- MCRails
    FailedAppends = {"nothing", "part"}
    MaxBreaks = 2
    MaxLines = 3
    MaxSessions = 3
    MaxDepth = 3
INVARIANTS
    SampleGraphIntact
    LoadTestAddsUp
PROPERTIES
    EachComesBack
CHECK_DEADLOCK FALSE
