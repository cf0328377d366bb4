\* stencil_7, calls of one step: a slave that starts late clears its flag.
CONSTANTS
  ThreadNum = 2
  NumZ = 3
  NT = 1
  StencilType = 7
SPECIFICATION FairSpec
PROPERTIES
  Termination
CHECK_DEADLOCK FALSE
