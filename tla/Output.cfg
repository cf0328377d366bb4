\* Three slaves print two lines each, with counters of as many values as slaves.
\* In a row, the cycle counter wraps and the int overflows.  The values of the
\* counters are below, at and above the limits of the units, in the upper half
\* of one and in its middle.
CONSTANTS
  Slave = {s1, s2, s3}
  Words = 3
  Lines = 2
  Timed = {s1}
  Cycles = 4
  Ints = 2
  NT = 2
  Ticks = {1, 2}
  NP = 2
  NK = 2
  NC = 1
  Values = {0, 20, 21, 27, 104, 201, 1050, 2001}
  Least = 4096
  Base = 10
  Slack <- MCSlack
SPECIFICATION MCSpec
INVARIANTS
  LinesInOrder
  ShownExact
  RowsInOrder
PROPERTIES
  AllPrinted
  ReportExact
CHECK_DEADLOCK FALSE
