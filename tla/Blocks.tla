------------------------------- MODULE Blocks -------------------------------
(***************************************************************************)
(* The three modules about what is in the blocks, rather than when: how    *)
(* they are laid out and read (DistGrid), which planes are exchanged       *)
(* (HaloPlan), how the answer is compared (CheckAnswer).  They share no    *)
(* state.                                                                  *)
(***************************************************************************)
EXTENDS DistGrid

CONSTANTS
  Runs, LocalSizes,          \* of HaloPlan
  PNum, Lx, Ly, Lz, OddSets  \* of CheckAnswer

VARIABLES
  procs, num, local, posted, request,                  \* of HaloPlan
  processes, odd, at, row, plane, block, norm, printed  \* of CheckAnswer

Plan == INSTANCE HaloPlan WITH Blocks <- LocalSizes, pNum <- procs

Check == INSTANCE CheckAnswer WITH pc <- processes

ASSUME BlocksAssumption == Plan!HaloPlanConstants /\ Check!CheckAnswerConstants

-----------------------------------------------------------------------------
\* Every plane that is sent is received once, into the cells of the same points;
\* request[2][6] is large enough, and buffers do not overlap (HaloPlan).
PlansFit == Plan!PlansFit

\* A group covers the halo next to the plane it releases (HaloPlan).
GroupsCover == Plan!GroupsCover

\* Process 0 reports an error exactly if there is a large one (CheckAnswer).
RootRight == Check!RootRight

\* NaN errors show in the norms unless a large error is reported (CheckAnswer).
NaNShows == Check!NaNShows
=============================================================================
