CONSTANTS
  m1 = m1  m2 = m2
  Messages <- TwoMessages
  RetryLimit = 3
  MaxStops = 2
SPECIFICATION FairSpec
INVARIANTS TypeOK NoEarlyGiveUp BoundedCopies
PROPERTIES HeardIsLast PostsEnd ComesUp
CHECK_DEADLOCK FALSE
