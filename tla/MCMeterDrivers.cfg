SPECIFICATION FairSpec
CONSTANTS
  Attached <- MCAttached
  FastRead <- MCFastRead
  Wirings = {"one"}
  TIMEOUT = 2
  FIRST_WAIT = 2
  ERROR_WAIT = 1
  FAST = 4
  INTERVAL = 7
  WATCHDOG = 8
  LATENCY = 0
  CALC_STEPS = 1
INVARIANTS TypeOK DetectionIsRight WatchdogStaysQuiet
PROPERTIES RequestProtocol AllValuesAreRead ReadingGoesOn SystemTypeSettles
CHECK_DEADLOCK FALSE
