\* stencil_27, three slaves, a warm-up and a timed call of three steps.
CONSTANTS
  ThreadNum = 3
  NumZ = 3
  NT = 3
  StencilType = 27
SPECIFICATION FairSpec
INVARIANTS
  CallResult
  KeptInFirstStep
PROPERTIES
  ImplementsRankStep
  TerminatesUnlessLost
CHECK_DEADLOCK FALSE
