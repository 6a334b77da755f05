CONSTANTS
  c1 = c1  c2 = c2  w1 = w1  w2 = w2  s1 = s1  s2 = s2
  NoKey = NoKey
  Clusters <- OneCluster
  Workers <- OneWorker
  Slots <- TwoSlots
  MaxTries = 1
  Answers <- AllAnswers
  ApiFails = TRUE
  Rewrites = FALSE
  MaxVersions = 5
  MaxRelists = 0
  MaxRestarts = 1
SPECIFICATION Spec
SYMMETRY Symmetry
INVARIANTS TypeOK IndInv RecordedWasAnnounced FailureFollowsProgress DeletedWasAskedFor
PROPERTIES ImplementsLifecycle
CHECK_DEADLOCK FALSE
