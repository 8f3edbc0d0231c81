\* The same from a reset on, with an all-zero request buffer.
CONSTANTS
  LENGTH <- MCLENGTH
  STORAGE = 2
  HEADER0 = 0
SPECIFICATION Spec
INVARIANTS RequestsRunInOrder
