\* The same, looking at what the host receives.
CONSTANTS
  LENGTH <- MCLENGTH
  STORAGE = 2
  HEADER0 = 1
SPECIFICATION Spec
INVARIANTS ResponsesInOrder
