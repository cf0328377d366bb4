------------------------------- MODULE Output -------------------------------
(***************************************************************************)
(* The three modules about what the slaves put out: the lock around their  *)
(* lines (CalLock), what they measure (Profile), and what the reports make *)
(* of it (Report).  They share no state.                                   *)
(***************************************************************************)
EXTENDS CalLock

CONSTANTS
  Timed, Cycles, Ints, NT, Ticks,          \* of Profile; Timed are its slaves
  NP, NK, NC, Values, Least, Base, Slack   \* of Report

VARIABLES
  type, call, ppc, at, step, clock, local, global,       \* of Profile
  begin, time, shown, report, inA, spent,
  kind, counter, kernel, slave, acc, rows                \* of Report

Measured == INSTANCE Profile WITH Slave <- Timed, pc <- ppc, counter <- local

Shown == INSTANCE Report WITH i <- kernel, j <- slave

ASSUME OutputAssumption == Measured!ProfileConstants /\ Shown!ReportConstants

-----------------------------------------------------------------------------
\* The printed times are those of the call, in the lower word (Profile).
ShownExact == Measured!ShownExact

\* A call of stencil_7 reports the cycles of all calls so far (Profile).
ReportExact == Measured!ReportExact

\* Every row stands for its kernel or slave, and least, average and greatest
\* stay in order when rounded (Report).
RowsInOrder == Shown!RowsInOrder
=============================================================================
