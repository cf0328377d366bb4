------------------------------ MODULE DistGrid ------------------------------
(***************************************************************************)
(* The block of a process: create_dist_grid of both versions, the array    *)
(* memory_alloc makes for it, with its halo set to zero piece by piece,    *)
(* and what read_file puts into it through the two subarrays of            *)
(* create_file_helper.  One process is followed, any of them; how the      *)
(* blocks of all fit together is a property of the division.               *)
(***************************************************************************)
EXTENDS GridInfo, FiniteSets

CONSTANTS
  PNums,  \* process counts
  Grids   \* global sizes

ASSUME DistGridAssumption ==
  PNums \subseteq Nat \ {0} /\ Grids \subseteq [Dim -> Nat \ {0}]

VARIABLES
  version,  \* "naive" or "optimized"
  pNum, global,
  pId,      \* the process that is followed
  pc,       \* "front", "plane", "row", "read" or "done"
  y, z,     \* the loop counters of memory_alloc
  array     \* array[i]: Unset, Zero, or an index in the file

vars == <<version, pNum, global, pId, pc, y, z, array>>

Rank  == 0 .. pNum - 1
Unset == -2
Zero  == -1

-----------------------------------------------------------------------------
Local(r) ==
  IF version = "optimized" THEN LocalSize(global, Num(pNum))
  ELSE IF r = 0 THEN global ELSE <<0, 0, 0>>

\* Mutant: offsets in processes instead of cells.
OffsetInBlocks(r) ==
  IF version = "optimized" THEN Position(Num(pNum), r) ELSE <<0, 0, 0>>

OffsetOf(r) ==
  IF version = "optimized" THEN Offset(Local(r), Num(pNum), r) ELSE <<0, 0, 0>>

\* find_active_procs: the processes with cells.
Active(r) == \A d \in Dim : Local(r)[d] > 0

\* file_view and array_center of create_file_helper.
FileView(r)    == Subarray(global, Local(r), OffsetOf(r))
ArrayCenter(r) == Subarray(Ld(Local(r)), Local(r), <<Halo, Halo, Halo>>)

\* nx, ny, and one past the last cell along y and z.
NX == Ld(Local(pId))[1]
NY == Ld(Local(pId))[2]
End(d) == Local(pId)[d] + Halo

At(xx, yy, zz) == INDEX(<<xx, yy, zz>>, Ld(Local(pId)))

\* set_zero of the ranges of indices <<first, size>>.
SetZero(ranges) ==
  array' = [i \in DOMAIN array |->
    IF \E g \in ranges : i \in g[1] .. g[1] + g[2] - 1 THEN Zero
    ELSE array[i]]

-----------------------------------------------------------------------------
Init ==
  /\ version \in {"naive", "optimized"}
  /\ pNum \in PNums /\ pId \in Rank /\ global \in Grids
  /\ pc = "front" /\ y = Halo /\ z = Halo
  /\ LET ld == Ld(Local(pId))
     IN array = [i \in 0 .. ld[1] * ld[2] * ld[3] - 1 |-> Unset]

Front ==
  /\ pc = "front"
  /\ SetZero({<<At(0, 0, 0), NX * NY * Halo>>})
  /\ pc' = "plane"
  /\ UNCHANGED <<version, pNum, global, pId, y, z>>

\* The halo rows before those of a plane.
Plane ==
  /\ pc = "plane" /\ z < End(3)
  /\ SetZero({<<At(0, 0, z), NX * Halo>>})
  /\ y' = Halo
  /\ pc' = "row"
  /\ UNCHANGED <<version, pNum, global, pId, z>>

\* The two ends of a row.
RowEnds ==
  /\ pc = "row" /\ y < End(2)
  /\ SetZero({<<At(0, y, z), Halo>>, <<At(End(1), y, z), Halo>>})
  /\ y' = y + 1
  /\ UNCHANGED <<version, pNum, global, pId, pc, z>>

\* The halo rows after those of a plane.
PlaneEnd ==
  /\ pc = "row" /\ y = End(2)
  /\ SetZero({<<At(0, y, z), NX * Halo>>})
  /\ z' = z + 1
  /\ pc' = "plane"
  /\ UNCHANGED <<version, pNum, global, pId, y>>

\* Mutant: one plane too high.
BackTooHigh ==
  /\ pc = "plane" /\ z = End(3)
  /\ SetZero({<<At(0, 0, z + 1), NX * NY * Halo>>})
  /\ pc' = "read"
  /\ UNCHANGED <<version, pNum, global, pId, y, z>>

Back ==
  /\ pc = "plane" /\ z = End(3)
  /\ SetZero({<<At(0, 0, z), NX * NY * Halo>>})
  /\ pc' = "read"
  /\ UNCHANGED <<version, pNum, global, pId, y, z>>

\* read_file of an active process: the k-th element of its part of the file
\* becomes the k-th element of the center of the array.
Read ==
  /\ pc = "read"
  /\ array' =
       LET center == ArrayCenter(pId)
           view   == FileView(pId)
       IN [i \in DOMAIN array |->
             IF Active(pId) /\ \E k \in DOMAIN center : center[k] = i
               THEN view[CHOOSE k \in DOMAIN center : center[k] = i]
               ELSE array[i]]
  /\ pc' = "done"
  /\ UNCHANGED <<version, pNum, global, pId, y, z>>

Next == Front \/ Plane \/ RowEnds \/ PlaneEnd \/ Back \/ Read

Spec == Init /\ [][Next]_vars

-----------------------------------------------------------------------------
\* The variables have values of their types.
TypeOK ==
  /\ pNum \in PNums /\ pId \in Rank /\ global \in Grids
  /\ y \in Halo .. End(2) /\ z \in Halo .. End(3)
  /\ \A i \in DOMAIN array :
       array[i] \in {Unset, Zero} \cup 0 .. global[1] * global[2] * global[3] - 1

\* The process counts and grids the division is made for.
Supported ==
  version = "optimized" => pNum = Num(pNum)[3] /\ global[3] % pNum = 0

\* common.h: the cell l[halo + x] of the array is the cell g[offset + x] of the
\* grid, and every cell of the halo is zero.  common.h gives the third width of
\* the array as local_size_y + halo_size_x * 2, evidently for local_size_z +
\* halo_size_z * 2, which is what memory_alloc makes.
LocalIsGlobal ==
  pc = "done" => \A i \in DOMAIN array :
    LET c == CellAt(i, Ld(Local(pId)))
        g == [d \in Dim |-> OffsetOf(pId)[d] + c[d] - Halo]
    IN array[i] = IF \E d \in Dim : c[d] < Halo \/ c[d] >= End(d)
                    THEN Zero ELSE INDEX(g, global)

Reads(r, i) == LET view == FileView(r) IN \E k \in DOMAIN view : view[k] = i

\* Every cell of the grid is read, and computed, by exactly one process, if the
\* division is made for the process count and the grid; with other grids, which
\* parse_args accepts, the planes that are left over are computed by nobody.
Tiling ==
  pc = "front" /\ Supported =>
    \A i \in 0 .. global[1] * global[2] * global[3] - 1 :
      Cardinality({r \in Rank : Active(r) /\ Reads(r, i)}) = 1

=============================================================================
