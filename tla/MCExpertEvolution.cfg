SPECIFICATION FairSpec
CONSTANTS
    MaxEpisodes = 3
    MaxEvaluations = 2
    MaxEvaluators = 2
    MaxCompiling = 2
    MaxCompilations = 2
    MaxObservations = 1
    MaxDeaths = 1
    None = None
INVARIANTS ManifestAgrees RevisesItsParent OneUsableCompilation
PROPERTIES CancelHitsWhatItSaw OnlyTheDeadAreReclaimed RunSettles
CHECK_DEADLOCK FALSE
