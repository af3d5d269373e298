SPECIFICATION Spec
CONSTANTS
  Entries = 2
  VPages <- MCVPages
  KernelBase = 8
  Frames <- MCFrames
  PageSizes <- MCPageSizes
  Actions = {"ReadUser", "ReadWriteUser"}
  MaxFrames = 1
  PageSize = 2
  Pid = 0
  MaxFiles = 4
  None = None
  FD_OFFSET = 3
  Opens <- Drawn
  Paths = {"a", "b"}
  Lens = {0, 1, 3}
  Offsets = {1}
  Patterns = {1, 2}
  MaxCalls = 6
CONSTRAINT Comparable
INVARIANTS
  SpaceEquivalence
  RecordMatchesTable
  FileEquivalence
  FilesHoldWhatWasWritten
CHECK_DEADLOCK FALSE
