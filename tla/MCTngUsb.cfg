\* Requests of one and two transfers, a storage of two responses.
CONSTANTS
  LENGTH <- MCLENGTH
  STORAGE = 2
  HEADER0 = 1
SPECIFICATION FairSpec
INVARIANTS TypeOK RequestsRunInOrder
PROPERTIES EveryRequestRuns InBufferStable
