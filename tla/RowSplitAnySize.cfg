\* Two slaves, every size up to 4 by 5.
CONSTANTS
  ThreadNum = 2
  Sizes <- MCAny
SPECIFICATION Spec
INVARIANTS
  AllWritten
CHECK_DEADLOCK FALSE
