SPECIFICATION Spec
CONSTANTS
  Cores <- McCores
  Programs <- McPrograms
  WaitlistLen = 64
  IrqLen = 4
INVARIANTS
  MutexExclusive
  RwExclusive
PROPERTIES
  AllEnd
CHECK_DEADLOCK FALSE
