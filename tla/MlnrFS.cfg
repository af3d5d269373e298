SPECIFICATION Spec
CONSTANTS
  PageSize = 2
  Threads = {1, 2}
  NodeOf <- OwnNode
  Boot = 1
  Pid = 0
  NLogs = 2
  MaxFiles = 2
  Opens <- LogAndFile
  Deletes = {"b"}
  Renames <- Replace
  Dirs = {"b"}
  Infos = {"a"}
  WriteOffsets <- NextAndFar
  ReadOffsets <- Start
  Lens = {2}
  ByteOf <- OwnByte
  MayFail = {2}
  Shared = FALSE
  MaxCalls = 5
  None = None
INVARIANTS
  SingleCopy
  NoStaleAnswer
PROPERTIES
  FailedWritePads
CHECK_DEADLOCK FALSE
