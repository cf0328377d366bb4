\* stencil_7, three slaves, a warm-up and a timed call of three steps.
CONSTANTS
  ThreadNum = 3
  NumZ = 3
  NT = 3
  StencilType = 7
SPECIFICATION Spec
INVARIANTS
  TypeOK
  RaceFree
  SendReady
  FlagFresh
  CallResult
PROPERTIES
  ClearsLast
  ImplementsRankStep
CHECK_DEADLOCK FALSE
