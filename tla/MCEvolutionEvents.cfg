CONSTANTS
    Events = {e1, e2}
    Coordinators = {c1, c2}
    Baseline = base
    Children = {g1}
    Cells = {k1}
    Qualities = {1, 2}
    Tolerance = 0
    Costs = {1, 3}
    TokenCap = 3
    TrialCap = 1
    Patience = 1
    Limit = 1
    MaxBatches = 1
    MaxRuns = 3
SPECIFICATION Spec
INVARIANTS ExecutedOnce ProposedOnce CapKept LiveTrialRuns ArchiveAccounted
PROPERTIES RecoveryRebuilds ArchiveKeepsUp
SYMMETRY Symmetry
CHECK_DEADLOCK FALSE
