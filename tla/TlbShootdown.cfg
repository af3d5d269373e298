SPECIFICATION FairSpec
CONSTANTS
  Cores = {0, 1, 2}
  NodeOf <- TwoNodes
  ApicId <- LowIds
  LogCore <- LastCore
  Running = {0, 1}
  Initiators = {0, 1}
  FsCallers = {0, 1}
  Pages = {p}
  QueueCapacity = 2
  Bounds <- TwoFramesOrCalls
  None = None
INVARIANTS
  NoStaleTranslation
PROPERTIES
  LoneShootdownReturns
  FsCallReturns
CHECK_DEADLOCK FALSE
