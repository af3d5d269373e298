SPECIFICATION FairSpec
CONSTANTS
  N = 2
  Script <- ThreeRequests
  BlocksPerNode = 2
  QueueCapacity = 2
  MaxLag = 2
  MayFail = TRUE
  Null = Null
INVARIANTS
  SameRound
  BlocksAccounted
PROPERTIES
  AllocReturns
CHECK_DEADLOCK FALSE
