SPECIFICATION FairSpec
CONSTANTS
    t1 = t1
    t2 = t2
    k1 = k1
    k2 = k2
    Tasks = {t1, t2}
    Keys = {k1, k2}
    MaxRuns = 2
    MaxCrashes = 2
    MaxQueue = 2
    MaxApprovals = 1
    MaxRecoveries = 1
INVARIANTS
    OneActiveRunPerTask SingleExecution NoWorkAfterTheEnd EndIsTold ApprovalsSettled
PROPERTIES
    CancelHonoured RunsSettle
