CONSTANTS
  p1 = p1  p2 = p2  a1 = a1  v1 = v1  v2 = v2  w1 = w1  j1 = j1  j2 = j2  j3 = j3
  NoKey = NoKey
  PackageManagers = {p1}
  Applications = {a1}
  Needs <- NeedsP1
  Jobs = {j1, j2, j3}
  JobOf <- OwnJobs
  PMWorkers = {v1, v2}
  AppWorkers = {w1}
  MaxPolls = 1
  Failing = {p1, a1}
  Keyless = {a1}
  Stuck = {}
  Degrades = FALSE
  Touched = {p1}
  MaxTouches = 1
  MaxGens = 2
  Annotated = {p1}
  MayStop = TRUE
SPECIFICATION Spec
SYMMETRY Symmetry
INVARIANTS TypeOK TillerFirst ImplementedRan CompletedFollowsProgress OneWorkerPerAddOn
PROPERTIES ImplementsAddOnLifecycle
CHECK_DEADLOCK FALSE
