SPECIFICATION FairSpec
CONSTANTS
    MaxTurns = 2
    MaxCalls = 3
    Texts = {FALSE}
    MaxDeaths = 2
    MaxRevisions = 1
    MaxIterations = 2
    Recoveries = 1
    ProtectRecentTurns = 1
    RecentTransactions = 1
CHECK_DEADLOCK FALSE
INVARIANTS
    HistoryPaired
    RequestPaired
PROPERTIES
    CompactionKeepsWhole
    SessionComesBack
