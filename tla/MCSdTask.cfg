\* Two faults of any kind; two I/O errors in a row are above LIMIT.
CONSTANTS
  PAGES = 1
  QUEUE = 1
  CHUNKS = 2
  LIMIT = 1
  MAX_POINTS = 2
  MAX_SETS = 2
  MAX_GETS = 1
  Faults = {"blank", "card", "mount", "format", "io", "page", "slow", "wipe"}
  MAX_FAULTS = 2
SPECIFICATION FairSpec
INVARIANTS TypeOK ChunksAreWhole
PROPERTIES PointsAreKept PagesAreSaved CardComesBack StreamsEnd
