SPECIFICATION Spec
CONSTANTS
  NDesc = 4
  Hardware <- MCHardware
  Queues = {2}
  MaxChains = 8
  TX_BUF_LEN = 3
  RX_BUF_LEN = 3
  ReadLen = 1
  Mss = 2
INVARIANTS
  RequestIntact
  AnswerIntact
  AnswerIsToCall
PROPERTIES
  CallReturns
CHECK_DEADLOCK FALSE
