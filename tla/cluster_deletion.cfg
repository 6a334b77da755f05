CONSTANTS
  c1 = c1  c2 = c2  w1 = w1  w2 = w2  s1 = s1  s2 = s2
  NoKey = NoKey
  Clusters <- OneCluster
  Workers <- TwoWorkers
  Slots <- TwoSlots
  MaxTries = 2
  Answers = {"fail"}
  ApiFails = FALSE
  Rewrites = FALSE
  MaxVersions = 4
  MaxRelists = 1
  MaxRestarts = 1
SPECIFICATION FairSpec
INVARIANTS QueueOK
PROPERTIES DeletionEnds
CHECK_DEADLOCK FALSE
