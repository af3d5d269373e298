SPECIFICATION Spec
CONSTANTS
  Entries = 4
  LargePage = 4
  TCacheBP = 3
  TCacheLP = 2
  EarlyBP = 4
  EarlyLP = 1
  NCacheBP = 60
  NCacheLP = 60
  EarlyCapacity = 8
  EmemSize = 9
  OneMiB = 2
  Machines <- MCMachines
  KernelOffset = 128
  MaxModules = 4
  MaxNameLen = 32
  StackPages = 3
  MapSlack = 1
  Apic = 68
  RealModePage = 1
  FourGiB = 1048576
INVARIANTS
  HandoffIntact
  ManagedMemoryUsable
  MemoryPartitioned
  CoresStartAsThemselves
CHECK_DEADLOCK FALSE
