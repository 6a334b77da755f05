CONSTANTS
  p1 = p1  p2 = p2  a1 = a1  v1 = v1  v2 = v2  w1 = w1  j1 = j1  j2 = j2  j3 = j3
  NoKey = NoKey
  PackageManagers = {p1}
  Applications = {}
  Needs <- NeedsP1
  Jobs = {j1, j2, j3}
  JobOf <- OwnJobs
  PMWorkers = {v1}
  AppWorkers = {}
  MaxPolls = 2
  Failing = {}
  Keyless = {}
  Stuck = {}
  Degrades = TRUE
  Touched = {p1}
  MaxTouches = 1
  MaxGens = 2
  Annotated = {p1}
  MayStop = FALSE
SPECIFICATION Spec
INVARIANTS CompletedWasRunForIt
CHECK_DEADLOCK FALSE
