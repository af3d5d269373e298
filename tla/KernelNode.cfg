SPECIFICATION FairSpec
CONSTANTS
  Cores = {0, 1, 2}
  NodeOf <- TwoNodes
  Boot = 0
  Entries = {upcall}
  Invalid = Invalid
  MaxProcesses = 2
  ExecPerFrame = 2
  MayFail = FALSE
  MayCollect = TRUE
  MaxLog = 4
  None = None
INVARIANTS
  GrantedOnce
  ExecutorsDistinct
PROPERTIES
  GrantRuns
CHECK_DEADLOCK FALSE
