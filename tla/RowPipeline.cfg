\* Both stencils, a block of three by three rows, three steps.
CONSTANTS
  LY = 3
  LZ = 3
  NT = 3
  Segments <- MCSegments
SPECIFICATION FairSpec
INVARIANTS
  SumIsNaive
  SourceWhole
  CleanUnlessUnset
PROPERTIES
  Termination
CHECK_DEADLOCK FALSE
