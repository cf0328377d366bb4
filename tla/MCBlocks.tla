------------------------------ MODULE MCBlocks ------------------------------
(***************************************************************************)
(* An instance for TLC of Blocks.  A behaviour is one of a part.           *)
(***************************************************************************)
EXTENDS Blocks

VARIABLE part   \* "grid", "plan" or "check"

\* Grids with three different sides; all are multiples of the process counts.
MCGrids == {<<2, 3, 6>>, <<3, 1, 12>>, <<1, 2, 6>>}

\* The arrangement of create_dist_grid, and others in two and three dimensions.
MCRuns ==
  {<<n[1] * n[2] * n[3], n>> : n \in {<<1, 1, 4>>, <<2, 2, 2>>, <<3, 2, 1>>, <<1, 3, 3>>}}

MCLocalSizes == {<<2, 1, 3>>, <<1, 2, 1>>}

\* Of two blocks of two rows: both rows with their halo, and a cell of the halo
\* before, after and above them.
MCOddCells == ((0 .. 3) \X {1, 2} \X {1}) \cup {<<1, 0, 1>>, <<1, 3, 1>>, <<1, 1, 2>>}

\* At most two odd elements.
MCOddSets ==
  LET E == {0, 1} \X MCOddCells IN {{}} \cup {{a, b} : a, b \in E}

planVars  == <<procs, num, local, posted, request>>
checkVars == <<processes, odd, at, row, plane, block, norm, printed>>

\* A part that does not run is in one of its initial states.
GridWaits  == version = "naive" /\ pNum = 2 /\ pId = 0 /\ global = <<1, 2, 6>> /\ Init
PlanWaits  == num = <<1, 1, 4>> /\ local = <<1, 2, 1>> /\ Plan!Init
CheckWaits == odd = << >> /\ Check!Init

MCInit ==
  \/ part = "grid"  /\ Init /\ PlanWaits /\ CheckWaits
  \/ part = "plan"  /\ GridWaits /\ Plan!Init /\ CheckWaits
  \/ part = "check" /\ GridWaits /\ PlanWaits /\ Check!Init

MCNext ==
  /\ \/ part = "grid"  /\ Next /\ UNCHANGED <<planVars, checkVars>>
     \/ part = "plan"  /\ Plan!Next /\ UNCHANGED <<vars, checkVars>>
     \/ part = "check" /\ Check!Next /\ UNCHANGED <<vars, planVars>>
  /\ UNCHANGED part

MCSpec == MCInit /\ [][MCNext]_<<part, vars, planVars, checkVars>>
=============================================================================
