SPECIFICATION Spec
CONSTANTS
  r1 = r1
  a = a
  b = b
  w = w
  Requests = {r1}
  MaxAttempts = 1
  MaxJobs = 2
  MaxDirs = 2
  Submitters = {a}
  Watchers = {w}
  Outcomes = {"COMPLETED", "FAILED"}
  LateSbatch = FALSE
  SlurmOutage = FALSE
  ShortAccounting = FALSE
INVARIANTS TypeOK OneJobPerRequest FailureIsConfirmed ResultsFromOwnDirectory
PROPERTIES JobStaysIdentified ParkedUntilObserved ImplementsLedger
