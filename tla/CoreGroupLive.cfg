\* stencil_7, two slaves, two steps: every behaviour that loses no wakeup ends.
CONSTANTS
  ThreadNum = 2
  NumZ = 3
  NT = 2
  StencilType = 7
SPECIFICATION FairSpec
PROPERTIES
  TerminatesUnlessLost
CHECK_DEADLOCK FALSE
