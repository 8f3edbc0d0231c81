\* A bus on which everything may go wrong.
CONSTANTS
  RX_RING = 3
  RX_FIFO = 2
  TX_FIFO = 3
  GAP = 1
  TIMEOUT = 7
  FRAME_MAX = 2
  FastRead <- MCFastRead
  ERROR_WAIT = 2
  FAST = 2
  WATCHDOG = 14
  LATENCY = 1
  Faults = {"lost", "garbled", "exception", "late", "split", "noise"}
  MAX_FAULTS = 2
SPECIFICATION Spec
INVARIANTS WatchdogStaysQuiet
PROPERTIES ImplementsRequest
