SPECIFICATION StatsSpec
CONSTANTS
    Threads <- MCThreads
    Sizes = {1, 2}
    MaxCalls = 3
INVARIANTS
    TalliesReportedOnce
    OverallSound
CHECK_DEADLOCK FALSE
