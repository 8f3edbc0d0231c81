\* A ring of four slots (three bytes), two byte values, indices that wrap just
\* above the largest sum ringbuffer_remove forms, a counter that wraps at 3.
CONSTANTS
  Data = {0, 1}
  SIZE = 4
  INDEX_MOD = 7
  OVERFLOW_MOD = 3
SPECIFICATION Spec
INVARIANT TypeOK
PROPERTY ImplementsFifo
