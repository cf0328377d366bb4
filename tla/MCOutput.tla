------------------------------ MODULE MCOutput ------------------------------
(***************************************************************************)
(* An instance for TLC of Output.  A behaviour is one of a part.           *)
(***************************************************************************)
EXTENDS Output

VARIABLE part   \* "lock", "profile" or "report"

\* The slacks of the reports; in the code the units are 1, 10^3, 10^6, 10^9 and
\* the slacks 10, 1000 and 10^11.
MCSlack ==
  [r \in {"summary", "wide", "detail"} |->
    CASE r = "summary" -> 2 [] r = "wide" -> 10 [] r = "detail" -> 20]

profileVars == <<type, call, ppc, at, step, clock, local, global, begin, time,
                 shown, report, inA, spent>>
reportVars  == <<kind, counter, kernel, slave, acc, rows>>

\* A part that does not run is in one of its initial states, one for which
\* AllPrinted says nothing.
LockWaits == hoisted = TRUE /\ Init
ProfileWaits == type = 7
ReportWaits == kind = "detail" /\ counter = [c \in 0 .. 3 |-> 0] /\ Shown!Init

MCInit ==
  /\ Measured!Init
  /\ \/ part = "lock"    /\ Init /\ ProfileWaits /\ ReportWaits
     \/ part = "profile" /\ LockWaits /\ ReportWaits
     \/ part = "report"  /\ LockWaits /\ ProfileWaits /\ Shown!Init

LockStep(s) ==
  part = "lock" /\ SlaveStep(s) /\ UNCHANGED <<part, profileVars, reportVars>>

MCNext ==
  \/ \E s \in Slave : LockStep(s)
  \/ part = "profile" /\ Measured!Next /\ UNCHANGED <<part, vars, reportVars>>
  \/ part = "report" /\ Shown!Next /\ UNCHANGED <<part, vars, profileVars>>

mcVars == <<part, vars, profileVars, reportVars>>

\* The fairness of CalLock; the other two parts are about safety.
MCSpec == MCInit /\ [][MCNext]_mcVars /\ \A s \in Slave : WF_mcVars(LockStep(s))
=============================================================================
