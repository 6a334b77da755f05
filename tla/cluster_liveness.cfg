CONSTANTS
  c1 = c1  c2 = c2  w1 = w1  w2 = w2  s1 = s1  s2 = s2
  NoKey = NoKey
  Clusters <- OneCluster
  Workers <- OneWorker
  Slots <- TwoSlots
  MaxTries = 2
  Answers <- AllAnswers
  ApiFails = FALSE
  Rewrites = FALSE
  MaxVersions = 3
  MaxRelists = 1
  MaxRestarts = 1
SPECIFICATION FairSpec
INVARIANTS NotForgotten
PROPERTIES Settles ImplementsReadiness
CHECK_DEADLOCK FALSE
