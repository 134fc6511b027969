CONSTANTS
    Events = {e1}
    Coordinators = {c1}
    Baseline = base
    Children = {g1}
    Cells = {k1}
    Qualities = {1, 2}
    Tolerance = 0
    Costs = {1, 3}
    TokenCap = 3
    TrialCap = 2
    Patience = 1
    Limit = 1
    MaxBatches = 1
    MaxRuns = 2
SPECIFICATION Spec
PROPERTIES BlockedIsAmbiguous
CHECK_DEADLOCK FALSE
