SPECIFICATION FairSpec
CONSTANTS
    NumStages = 2
    Depends <- MCDepends
    NeedsApproval = {2}
    MaxForced <- MCMaxForced
    MaxDeaths = 1
    MaxApprovals = 1
    None = None
INVARIANTS RunsOnEvidence EachJobApproved RetriesAccounted
PROPERTIES WaitSettles
CHECK_DEADLOCK FALSE
