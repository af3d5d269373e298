SPECIFICATION FairSpec
CONSTANTS
  Threads = {t1, t2, t3}
  Elements <- OwnElement
  None = None
  Requested = 2
  MaxCalls = 2
INVARIANTS
  SlotExclusive
PROPERTIES
  FailsOnlyWhenDue
  ImplementsQueue
CHECK_DEADLOCK FALSE
