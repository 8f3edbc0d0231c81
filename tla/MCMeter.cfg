\* A bus that fails twice, by frames lost, garbled or refused.
CONSTANTS
  RX_RING = 3
  RX_FIFO = 2
  TX_FIFO = 2
  GAP = 1
  TIMEOUT = 8
  FRAME_MAX = 2
  FastRead <- MCFastRead
  ERROR_WAIT = 4
  FAST = 10
  WATCHDOG = 16
  LATENCY = 1
  Faults = {"lost", "garbled", "exception"}
  MAX_FAULTS = 2
SPECIFICATION FairSpec
INVARIANTS TypeOK AcceptedAnswerIsOwn RequestsStayApart
PROPERTIES FullListGoesOn Recovers
