SPECIFICATION FairSpec
CONSTANTS
  Cores = {0, 1, 2}
  NodeZero = {0, 1, 2}
  MaxGuards = 2
INVARIANTS
  MutualExclusion
  NoUnlockPanic
PROPERTIES
  WriterGetsIn
