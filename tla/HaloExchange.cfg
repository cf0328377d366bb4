\* Four processes: two with both neighbours; an odd and an even last step.
CONSTANTS
  NumZ = 4
  NT = 3
SPECIFICATION FairSpec
INVARIANTS
  TypeOK
  HaloCurrent
  SendIntact
  Lockstep
PROPERTIES
  ImplementsRankStep
  ImplementsJacobi
  Termination
CHECK_DEADLOCK FALSE
