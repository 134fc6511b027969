SPECIFICATION Spec
CONSTANTS
  r1 = r1
  a = a
  b = b
  w = w
  Requests = {r1}
  MaxAttempts = 0
  MaxJobs = 2
  MaxDirs = 2
  Submitters = {a, b}
  Watchers = {}
  Outcomes = {"COMPLETED", "FAILED"}
  LateSbatch = FALSE
  SlurmOutage = FALSE
  ShortAccounting = FALSE
INVARIANT OneJobPerRequest
