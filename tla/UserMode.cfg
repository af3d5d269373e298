SPECIFICATION Spec
CONSTANTS
  Entries = 8
  ELF_OFFSET = 64
  EXECUTOR_OFFSET = 128
  Stack = 1
  MAX_WRITEABLE_SECTIONS_PER_PROCESS = 4
  MAX_FRAMES_PER_PROCESS = 1
  Core = {0, 1}
  NodeOf <- MCNodeOf
  Boot = 0
  Images <- MCImages
  Regions <- MCRegions
  Devices <- MCDevices
  Buffers <- MCBuffers
  PageBytes = 2
  KERNEL_BASE = 512
  LargeFrames <- MCLargeFrames
  BaseFrames <- MCBaseFrames
  PENDING = 1
  MaxIrqs = 2
  MaxCalls = 3
CONSTRAINT Interesting
INVARIANTS
  ImageLoaded
  ContextKept
  FaultMeansBehind
PROPERTIES
  UpcallReturns
CHECK_DEADLOCK FALSE
