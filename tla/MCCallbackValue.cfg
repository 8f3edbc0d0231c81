\* Two handlers; periods of 1 and 2 on a clock that wraps after 7 ms.
CONSTANTS
  busy = busy
  other = other
  Handlers = {busy, other}
  HANDLER_NUM = 2
  TICK_WAIT = 1
  MAX_LAG = 2
  VALUE_MIN = 0
  VALUE_MAX = 1
  CLOCK = 7
  Configs <- MCConfigs
  Sensed <- MCSensed
  None = None
SPECIFICATION FairSpec
INVARIANTS TypeOK AskedOnce LastIsKnown
PROPERTIES BufferedIsSent StableIsReported
