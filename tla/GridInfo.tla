------------------------------ MODULE GridInfo ------------------------------
(***************************************************************************)
(* The arithmetic of dist_grid_info_t: how create_dist_grid divides the    *)
(* global grid, where the cells of a block lie in memory (INDEX), and what *)
(* the datatypes of MPI select.  Triples are in the order x, y, z.         *)
(***************************************************************************)
EXTENDS Integers

CONSTANTS
  SmallNum,  \* 16: the process count that is taken as it is
  LargeNum   \* 64: what every other process count is taken for

ASSUME GridInfoAssumption ==
  SmallNum \in Nat \ {0} /\ LargeNum \in Nat \ {0, SmallNum}

Dim  == 1 .. 3
Halo == 1  \* halo_size_x, halo_size_y, halo_size_z

\* num_x, num_y, num_z for p processes (stencil-optimized.c).
Num(p) == IF p = SmallNum THEN <<1, 1, SmallNum>> ELSE <<1, 1, LargeNum>>

\* local_size of a grid g, the remainder is cut off.
LocalSize(g, num) == [d \in Dim |-> g[d] \div num[d]]

\* Where process r is in the arrangement of the processes.
Position(num, r) ==
  <<r % num[1], (r \div num[1]) % num[2], (r \div num[1]) \div num[2]>>

\* offset of process r with blocks of size local.
Offset(local, num, r) == [d \in Dim |-> local[d] * Position(num, r)[d]]

\* Width of a block with its halo: ldx, ldy, ldz.
Ld(local) == [d \in Dim |-> local[d] + 2 * Halo]

INDEX(c, ld) == c[1] + ld[1] * (c[2] + ld[2] * c[3])

\* The cell at an index.
CellAt(i, ld) == <<i % ld[1], (i \div ld[1]) % ld[2], (i \div ld[1]) \div ld[2]>>

\* MPI_Type_create_subarray in Fortran order: the index of the k-th element.
Subarray(width, sub, start) ==
  [k \in 0 .. sub[1] * sub[2] * sub[3] - 1 |->
     INDEX([d \in Dim |-> start[d] + CellAt(k, sub)[d]], width)]

\* MPI_Type_vector: the k-th element of count blocks of length len.
Vector(count, len, stride) ==
  [k \in 0 .. count * len - 1 |-> (stride * (k \div len)) + (k % len)]

=============================================================================
