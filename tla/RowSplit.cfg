\* Three slaves, every supported size up to 6 by 6.
CONSTANTS
  ThreadNum = 3
  Sizes <- MCSupported
SPECIFICATION Spec
INVARIANTS
  RowsOnce
  InsideBlock
  AllWritten
CHECK_DEADLOCK FALSE
