SPECIFICATION FairSpec
CONSTANTS
    NumStages = 2
    Depends <- MCDepends
    NeedsApproval = {2}
    MaxForced <- MCNoneForced
    MaxDeaths = 0
    MaxApprovals = 2
    None = None
INVARIANTS StatusFailsOnEvidence
CHECK_DEADLOCK FALSE
