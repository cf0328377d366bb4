\* Three processes.
CONSTANTS
  PNum = 3
SPECIFICATION FairSpec
INVARIANTS
  ReportMeansAll
  TimedTogether
PROPERTIES
  AllEnd
CHECK_DEADLOCK FALSE
