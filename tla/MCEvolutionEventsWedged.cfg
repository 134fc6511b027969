CONSTANTS
    Events = {e1, e2}
    Coordinators = {c1}
    Baseline = base
    Children = {g1}
    Cells = {k1}
    Qualities = {1, 2}
    Tolerance = 0
    Costs = {1}
    TokenCap = 5
    TrialCap = 2
    Patience = 1
    Limit = 1
    MaxBatches = 1
    MaxRuns = 3
SPECIFICATION Spec
PROPERTIES ResultsKept
CHECK_DEADLOCK FALSE
