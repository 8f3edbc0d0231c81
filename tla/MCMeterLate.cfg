\* One stray frame on the bus.
CONSTANTS
  RX_RING = 3
  RX_FIFO = 2
  TX_FIFO = 3
  GAP = 1
  TIMEOUT = 7
  FRAME_MAX = 2
  FastRead <- MCFastRead
  ERROR_WAIT = 2
  FAST = 2
  WATCHDOG = 12
  LATENCY = 1
  Faults = {"noise"}
  MAX_FAULTS = 1
SPECIFICATION Spec
INVARIANTS AcceptedAnswerIsOwn
