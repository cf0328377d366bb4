\* stencil_27, two steps: a slave that resets late clears the next step's flag.
CONSTANTS
  ThreadNum = 2
  NumZ = 3
  NT = 2
  StencilType = 27
SPECIFICATION FairSpec
PROPERTIES
  Termination
CHECK_DEADLOCK FALSE
