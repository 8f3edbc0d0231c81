\* A new card without a file system, and nothing else that goes wrong.
CONSTANTS
  PAGES = 1
  QUEUE = 1
  CHUNKS = 1
  LIMIT = 1
  MAX_POINTS = 1
  MAX_SETS = 1
  MAX_GETS = 1
  Faults = {"blank"}
  MAX_FAULTS = 0
SPECIFICATION FairSpec
PROPERTIES StartIsRetried
