SPECIFICATION FairSpec
CONSTANTS
    Keys = {k1, k2}
    MaxBatch = 2
    Signatures = {s1, s2}
    MaxRounds = 3
    Patience = 1
    MaxIterations = 6
    MaxNoProgress = 2
    DiagnosticBudget = 2
    Recoveries = 1
    None = None
CHECK_DEADLOCK FALSE
INVARIANTS
    BlockedRunBounded
    SucceededMeansDelivered
PROPERTY
    RunEnds
