CONSTANTS
  p1 = p1  p2 = p2  a1 = a1  v1 = v1  v2 = v2  w1 = w1  j1 = j1  j2 = j2  j3 = j3
  NoKey = NoKey
  PackageManagers = {p1}
  Applications = {a1}
  Needs <- NeedsP1
  Jobs = {j1, j2, j3}
  JobOf <- OwnJobs
  PMWorkers = {v1}
  AppWorkers = {w1}
  MaxPolls = 2
  Failing = {}
  Keyless = {p1}
  Stuck = {}
  Degrades = TRUE
  Touched = {}
  MaxTouches = 0
  MaxGens = 1
  Annotated = {}
  MayStop = FALSE
SPECIFICATION Spec
INVARIANTS NothingOnManagement
CHECK_DEADLOCK FALSE
