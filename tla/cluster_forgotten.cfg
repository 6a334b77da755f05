CONSTANTS
  c1 = c1  c2 = c2  w1 = w1  w2 = w2  s1 = s1  s2 = s2
  NoKey = NoKey
  Clusters <- OneCluster
  Workers <- OneWorker
  Slots <- TwoSlots
  MaxTries = 2
  Answers <- AllAnswers
  ApiFails = TRUE
  Rewrites = TRUE
  MaxVersions = 3
  MaxRelists = 0
  MaxRestarts = 0
SPECIFICATION Spec
INVARIANTS NotForgotten
CHECK_DEADLOCK FALSE
