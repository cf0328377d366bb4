---------------------------- MODULE BlocksProof -----------------------------
(***************************************************************************)
(* Proofs about DistGrid, HaloPlan and CheckAnswer, for every process      *)
(* count, every grid, block and arrangement of the processes.              *)
(*                                                                         *)
(* The index of a cell is a number in a mixed radix, and INDEX and CellAt  *)
(* are inverse to each other.                                              *)
(*                                                                         *)
(* DistGrid (Tiling, LocalIsGlobal): blocks along z are pieces of equal    *)
(* length of the file, which do not overlap and leave nothing out.  The    *)
(* pieces memory_alloc sets to zero follow its loops (Zeroed) and are the  *)
(* halo when it is through.                                                *)
(*                                                                         *)
(* HaloPlan (PlansFit, GroupsCover): a process is a cell of the block of   *)
(* processes and a plane a set of cells of the local block, so that both   *)
(* ends of a call are found by the same arithmetic.                        *)
(*                                                                         *)
(* CheckAnswer (RootRight, NaNShows): the norms a process has are those of *)
(* the cells its loops have been through.                                  *)
(***************************************************************************)
EXTENDS Blocks, FiniteSetTheorems, SequenceTheorems, TLAPS

-----------------------------------------------------------------------------
(* Numbers.                                                                *)

\* Quotient and remainder.
LEMMA DivMod ==
  ASSUME NEW b \in Nat \ {0}, NEW a \in Nat
  PROVE  /\ a \div b \in Nat /\ a % b \in 0 .. b - 1
         /\ a = b * (a \div b) + (a % b)
<1>1. a \div b \in Nat /\ a % b \in 0 .. b - 1 /\ a % b = a - b * (a \div b)
  OBVIOUS
<1> DEFINE q == a \div b
           r == a % b
<1>2. q \in Nat /\ r \in 0 .. b - 1 /\ r = a - b * q
  BY <1>1
<1> HIDE DEF q, r
<1>3. b * q \in Int
  BY <1>2
<1>4. a = b * q + r
  BY <1>2, <1>3
<1> QED
  BY <1>2, <1>4 DEF q, r

\* Products of natural numbers are ordered as their factors.
LEMMA Products ==
  ASSUME NEW p \in Nat, NEW i \in Nat, NEW j \in Nat, i < j
  PROVE  p * i + p <= p * j
<1>1. p * (j - i - 1) \in Nat
  <2>1. j - i - 1 \in Nat
    OBVIOUS
  <2> QED
    BY <2>1
<1>2. p * j = p * i + p + p * (j - i - 1)
  OBVIOUS
<1>3. p * i \in Nat
  OBVIOUS
<1> QED
  BY <1>1, <1>2, <1>3

\* Which of equal pieces of length p a number is in, is determined, and where.
LEMMA SamePiece ==
  ASSUME NEW p \in Nat, NEW i \in Nat, NEW j \in Nat,
         NEW r \in 0 .. p - 1, NEW s \in 0 .. p - 1, p * i + r = p * j + s
  PROVE  i = j /\ r = s
<1>1. /\ p * i \in Nat /\ p * j \in Nat
  OBVIOUS
<1>2. ~(i < j)
  <2> SUFFICES ASSUME i < j PROVE FALSE
    OBVIOUS
  <2>1. p * i + p <= p * j
    BY Products
  <2> QED
    BY <1>1, <2>1
<1>3. ~(j < i)
  <2> SUFFICES ASSUME j < i PROVE FALSE
    OBVIOUS
  <2>1. p * j + p <= p * i
    BY Products
  <2> QED
    BY <1>1, <2>1
<1>4. i = j
  BY <1>2, <1>3
<1> QED
  BY <1>1, <1>4

\* There is one quotient and one remainder.
LEMMA OneQuotient ==
  ASSUME NEW b \in Nat \ {0}, NEW q \in Nat, NEW r \in 0 .. b - 1, NEW a \in Nat,
         a = b * q + r
  PROVE  a \div b = q /\ a % b = r
<1> DEFINE p == a \div b
           s == a % b
<1>1. p \in Nat /\ s \in 0 .. b - 1 /\ b * p + s = b * q + r
  BY DivMod
<1> HIDE DEF p, s
<1>2. p = q /\ s = r
  BY <1>1, SamePiece
<1> QED
  BY <1>2 DEF p, s

\* A number below p * k is in one of the first k pieces.
LEMMA Digits ==
  ASSUME NEW p \in Nat \ {0}, NEW k \in Nat, NEW n \in Nat, n < p * k
  PROVE  n \div p \in 0 .. k - 1 /\ n % p \in 0 .. p - 1 /\ n = p * (n \div p) + (n % p)
<1> DEFINE i == n \div p
           r == n % p
<1>1. i \in Nat /\ r \in 0 .. p - 1 /\ n = p * i + r
  BY DivMod
<1> HIDE DEF i, r
<1>2. i < k
  <2> SUFFICES ASSUME k <= i PROVE FALSE
    BY <1>1
  <2>1. p * k \in Nat /\ p * i \in Nat
    BY <1>1
  <2>2. CASE k = i
    BY <1>1, <2>1, <2>2
  <2>3. CASE k < i
    <3>1. p * k + p <= p * i
      BY <1>1, <2>3, Products
    <3> QED
      BY <1>1, <2>1, <3>1
  <2> QED
    BY <1>1, <2>2, <2>3
<1>3. i \in 0 .. k - 1
  BY <1>1, <1>2
<1> QED
  BY <1>1, <1>3 DEF i, r

LEMMA SomePiece ==
  ASSUME NEW p \in Nat \ {0}, NEW k \in Nat, NEW n \in Nat, n < p * k
  PROVE  \E i \in 0 .. k - 1, r \in 0 .. p - 1 : n = p * i + r
<1> DEFINE i == n \div p
           r == n % p
<1>1. i \in 0 .. k - 1 /\ r \in 0 .. p - 1 /\ n = p * i + r
  BY Digits
<1> HIDE DEF i, r
<1> QED
  BY <1>1

-----------------------------------------------------------------------------
(* Cells and indices.                                                      *)

\* Sides of a block.
Sides(w) == w[1] \in Nat \ {0} /\ w[2] \in Nat \ {0} /\ w[3] \in Nat

\* c is a cell of a block of width w.
CellIn(c, w) ==
  c[1] \in 0 .. w[1] - 1 /\ c[2] \in 0 .. w[2] - 1 /\ c[3] \in 0 .. w[3] - 1

\* Every index is that of a cell.
LEMMA IndexOfCell ==
  ASSUME NEW w, Sides(w), NEW i \in 0 .. w[1] * w[2] * w[3] - 1
  PROVE  CellIn(CellAt(i, w), w) /\ INDEX(CellAt(i, w), w) = i
<1> DEFINE x == w[1]
           y1 == w[2]
           z1 == w[3]
           j == i \div x
           c1 == i % x
           c2 == j % y1
           c3 == j \div y1
<1>1. x \in Nat \ {0} /\ y1 \in Nat \ {0} /\ z1 \in Nat
  BY DEF Sides
<1>2. i \in Nat /\ i < x * y1 * z1
  <2>1. x * y1 * z1 \in Nat
    BY <1>1
  <2> QED
    BY <2>1
<1>3. CellAt(i, w) = <<c1, c2, c3>>
  BY DEF CellAt
<1> HIDE DEF x, y1, z1
<1>4. j \in Nat /\ c1 \in 0 .. x - 1 /\ i = x * j + c1
  BY <1>1, <1>2, DivMod
<1> HIDE DEF j, c1
<1>5. c3 \in Nat /\ c2 \in 0 .. y1 - 1 /\ j = y1 * c3 + c2
  BY <1>1, <1>4, DivMod
<1> HIDE DEF c2, c3
<1>6. c3 < z1
  <2> SUFFICES ASSUME z1 <= c3 PROVE FALSE
    BY <1>1, <1>5
  <2>1. y1 * z1 \in Nat /\ y1 * c3 \in Nat /\ x * j \in Nat /\ x * (y1 * z1) \in Nat
    BY <1>1, <1>4, <1>5
  <2>2. y1 * z1 <= y1 * c3
    <3>1. z1 = c3 \/ z1 < c3
      BY <1>1, <1>5
    <3> QED
      BY <1>1, <1>5, <2>1, <3>1, Products
  <2>3. y1 * z1 <= j
    BY <1>5, <2>1, <2>2
  <2> DEFINE m == y1 * z1
  <2> HIDE DEF m
  <2>4. x * m <= x * j
    <3>1. m \in Nat /\ (m = j \/ m < j)
      BY <1>4, <2>1, <2>3 DEF m
    <3>2. m < j => x * m + x <= x * j
      BY <1>1, <1>4, <3>1, Products
    <3>3. x * m \in Nat
      BY <1>1, <3>1
    <3> QED
      BY <1>1, <2>1, <3>1, <3>2, <3>3
  <2>5. x * y1 * z1 = x * (y1 * z1)
    BY <1>1
  <2> QED
    BY <1>2, <1>4, <2>1, <2>4, <2>5 DEF m
<1>7. c1 + x * (c2 + y1 * c3) = i
  <2>1. y1 * c3 \in Nat /\ x * j \in Nat
    BY <1>1, <1>4, <1>5
  <2>2. c2 + y1 * c3 = j
    BY <1>5, <2>1
  <2> QED
    BY <1>4, <2>1, <2>2
<1> QED
  BY <1>1, <1>3, <1>4, <1>5, <1>6, <1>7 DEF CellIn, INDEX, x, y1, z1

\* Every cell is that of its index, which is in the block.
LEMMA CellOfIndex ==
  ASSUME NEW w, Sides(w), NEW c, CellIn(c, w)
  PROVE  /\ INDEX(c, w) \in 0 .. w[1] * w[2] * w[3] - 1
         /\ CellAt(INDEX(c, w), w) = <<c[1], c[2], c[3]>>
<1> DEFINE x == w[1]
           y1 == w[2]
           z1 == w[3]
           c1 == c[1]
           c2 == c[2]
           c3 == c[3]
           j == c2 + y1 * c3
           i == c1 + x * j
<1>1. /\ x \in Nat \ {0} /\ y1 \in Nat \ {0} /\ z1 \in Nat
      /\ c1 \in 0 .. x - 1 /\ c2 \in 0 .. y1 - 1 /\ c3 \in 0 .. z1 - 1
      /\ c1 \in Nat /\ c2 \in Nat /\ c3 \in Nat /\ c3 < z1
  BY DEF Sides, CellIn
<1>2. INDEX(c, w) = i
  BY DEF INDEX
<1>3. CellAt(i, w) = <<i % x, (i \div x) % y1, (i \div x) \div y1>>
  BY DEF CellAt
<1> HIDE DEF x, y1, z1, c1, c2, c3
<1>4. y1 * c3 \in Nat /\ y1 * z1 \in Nat /\ y1 * c3 + y1 <= y1 * z1
  BY <1>1, Products
<1>5. j \in Nat /\ j < y1 * z1 /\ j = y1 * c3 + c2
  BY <1>1, <1>4
<1>6. j \div y1 = c3 /\ j % y1 = c2
  BY <1>1, <1>5, OneQuotient
<1> HIDE DEF j
<1>7. x * j \in Nat /\ x * (y1 * z1) \in Nat /\ x * j + x <= x * (y1 * z1)
  <2> DEFINE m == y1 * z1
  <2>1. m \in Nat /\ j < m
    BY <1>4, <1>5
  <2> HIDE DEF m
  <2>2. x * j \in Nat /\ x * m \in Nat /\ x * j + x <= x * m
    BY <1>1, <1>5, <2>1, Products
  <2> QED
    BY <2>2 DEF m
<1>8. i \in Nat /\ i < x * (y1 * z1) /\ i = x * j + c1
  BY <1>1, <1>7
<1>9. i \div x = j /\ i % x = c1
  BY <1>1, <1>5, <1>8, OneQuotient
<1> HIDE DEF i
<1>10. CellAt(i, w) = <<c1, c2, c3>>
  BY <1>3, <1>6, <1>9
<1>11. i \in 0 .. x * y1 * z1 - 1
  <2>1. x * y1 * z1 = x * (y1 * z1)
    BY <1>1
  <2> QED
    BY <1>7, <1>8, <2>1
<1> QED
  BY <1>2, <1>10, <1>11 DEF x, y1, z1, c1, c2, c3

-----------------------------------------------------------------------------
(* The blocks of the processes.                                            *)

\* Process count and grid are of those given.
Parameters ==
  /\ version \in {"naive", "optimized"}
  /\ pNum \in Nat \ {0} /\ global \in [Dim -> Nat \ {0}] /\ pId \in Rank

\* A block of s planes, the r-th of such blocks along z in the grid g.
BlockAt(g, s, r, sub, start) ==
  /\ sub[1] = g[1] /\ sub[2] = g[2] /\ sub[3] = s
  /\ start[1] = 0 /\ start[2] = 0 /\ start[3] = s * r

\* Its part of the file is a piece of consecutive elements.
LEMMA ViewIsPiece ==
  ASSUME NEW g \in [Dim -> Nat \ {0}], NEW s \in Nat, NEW r \in Nat,
         NEW sub, NEW start, BlockAt(g, s, r, sub, start)
  PROVE  /\ DOMAIN Subarray(g, sub, start) = 0 .. g[1] * g[2] * s - 1
         /\ \A k \in 0 .. g[1] * g[2] * s - 1 :
              Subarray(g, sub, start)[k] = (g[1] * g[2] * s) * r + k
<1>1. g[1] \in Nat \ {0} /\ g[2] \in Nat \ {0} /\ g[3] \in Nat \ {0} /\ Sides(sub)
  BY DEF Dim, Sides, BlockAt
<1>2. /\ DOMAIN Subarray(g, sub, start) = 0 .. g[1] * g[2] * s - 1
      /\ \A k \in 0 .. g[1] * g[2] * s - 1 :
           Subarray(g, sub, start)[k] =
             INDEX([d \in Dim |-> start[d] + CellAt(k, sub)[d]], g)
  BY DEF Subarray, BlockAt
<1>3. ASSUME NEW k \in 0 .. g[1] * g[2] * s - 1
      PROVE  INDEX([d \in Dim |-> start[d] + CellAt(k, sub)[d]], g)
               = (g[1] * g[2] * s) * r + k
  <2> DEFINE c == CellAt(k, sub)
             x == g[1]
             y1 == g[2]
  <2>1. CellIn(c, sub) /\ INDEX(c, sub) = k
    <3>1. k \in 0 .. sub[1] * sub[2] * sub[3] - 1
      BY DEF BlockAt
    <3> QED
      BY <1>1, <3>1, IndexOfCell
  <2>2. INDEX([d \in Dim |-> start[d] + c[d]], g)
          = (0 + c[1]) + x * ((0 + c[2]) + y1 * (s * r + c[3]))
    BY DEF INDEX, Dim, BlockAt
  <2>3. c[1] \in Nat /\ c[2] \in Nat /\ c[3] \in Nat /\ k = c[1] + x * (c[2] + y1 * c[3])
    BY <1>1, <2>1 DEF CellIn, INDEX, BlockAt
  <2>4. x \in Nat /\ y1 \in Nat
    BY <1>1
  <2> DEFINE c1 == c[1]
             c2 == c[2]
             c3 == c[3]
  <2> HIDE DEF c
  <2>5. c1 \in Nat /\ c2 \in Nat /\ c3 \in Nat
    BY <2>3
  <2> HIDE DEF c1, c2, c3, x, y1
  <2>6. (0 + c1) + x * ((0 + c2) + y1 * (s * r + c3))
          = (x * y1 * s) * r + (c1 + x * (c2 + y1 * c3))
    BY <2>4, <2>5
  <2> QED
    BY <2>2, <2>3, <2>6 DEF c, c1, c2, c3, x, y1
<1> QED
  BY <1>2, <1>3

\* create_dist_grid of stencil-optimized.c divides the grid along z.
LEMMA BlocksAlongZ ==
  ASSUME Parameters, version = "optimized", Supported, NEW r \in Rank
  PROVE  LET s == global[3] \div pNum
         IN /\ s \in Nat \ {0} /\ global[3] = s * pNum
            /\ BlockAt(global, s, r, Local(r), OffsetOf(r))
<1> DEFINE s == global[3] \div pNum
<1>1. /\ pNum \in Nat \ {0} /\ r \in Nat
      /\ global[1] \in Nat \ {0} /\ global[2] \in Nat \ {0} /\ global[3] \in Nat \ {0}
  BY DEF Parameters, Rank, Dim
<1>2. Num(pNum) = <<1, 1, pNum>> /\ global[3] % pNum = 0
  BY DEF Supported, Num
<1>3. s \in Nat \ {0} /\ global[3] = s * pNum
  <2>1. s \in Nat /\ global[3] = pNum * s + (global[3] % pNum)
    BY <1>1, DivMod
  <2> HIDE DEF s
  <2>2. global[3] = pNum * s
    BY <1>1, <1>2, <2>1
  <2>3. s # 0
    BY <1>1, <2>2
  <2> QED
    BY <1>1, <2>1, <2>2, <2>3
<1>4. global[1] \div 1 = global[1] /\ global[2] \div 1 = global[2]
  BY <1>1
<1>5. LocalSize(global, <<1, 1, pNum>>) = [d \in Dim |-> global[d] \div <<1, 1, pNum>>[d]]
  BY DEF LocalSize
<1>6. /\ Local(r)[1] = global[1] /\ Local(r)[2] = global[2] /\ Local(r)[3] = s
  BY <1>2, <1>4, <1>5 DEF Local, Dim
<1>7. Position(<<1, 1, pNum>>, r) = <<0, 0, r>>
  <2>1. r % 1 = 0 /\ r \div 1 = r
    BY <1>1
  <2> QED
    BY <2>1 DEF Position
<1>8. OffsetOf(r) = [d \in Dim |-> Local(r)[d] * <<0, 0, r>>[d]]
  BY <1>2, <1>7 DEF OffsetOf, Offset
<1> HIDE DEF s
<1>9. /\ OffsetOf(r)[1] = 0 /\ OffsetOf(r)[2] = 0 /\ OffsetOf(r)[3] = s * r
  BY <1>1, <1>6, <1>8 DEF Dim
<1> QED
  BY <1>3, <1>6, <1>9 DEF s, BlockAt

\* A cell of the file is in the part of one process that has cells.
LEMMA OneReader ==
  ASSUME Parameters, Supported, NEW i \in 0 .. global[1] * global[2] * global[3] - 1
  PROVE  \E q \in Rank : {r \in Rank : Active(r) /\ Reads(r, i)} = {q}
<1>1. /\ pNum \in Nat \ {0} /\ Rank = 0 .. pNum - 1
      /\ global \in [Dim -> Nat \ {0}]
      /\ global[1] \in Nat \ {0} /\ global[2] \in Nat \ {0} /\ global[3] \in Nat \ {0}
  BY DEF Parameters, Rank, Dim
<1> DEFINE area == global[1] * global[2]
<1>2. area \in Nat \ {0}
  <2> DEFINE x == global[1]
             y1 == global[2]
  <2>1. x \in Nat \ {0} /\ y1 \in Nat \ {0}
    BY <1>1
  <2> HIDE DEF x, y1
  <2>2. x * y1 \in Nat /\ x * y1 # 0
    BY <2>1
  <2> QED
    BY <2>2 DEF x, y1
<1>3. CASE version = "naive"
  <2>1. \A r \in Rank : Active(r) <=> r = 0
    BY <1>1, <1>3 DEF Local, Active, Dim
  <2>2. Reads(0, i)
    <3>1. BlockAt(global, global[3], 0, Local(0), OffsetOf(0)) /\ global[3] \in Nat
      BY <1>1, <1>3 DEF Local, OffsetOf, BlockAt
    <3>2. /\ DOMAIN FileView(0) = 0 .. global[1] * global[2] * global[3] - 1
          /\ FileView(0)[i] = (global[1] * global[2] * global[3]) * 0 + i
      BY <1>1, <3>1, ViewIsPiece DEF FileView
    <3>3. FileView(0)[i] = i
      <4>1. global[1] * global[2] * global[3] \in Nat /\ i \in Nat
        BY <1>1
      <4> QED
        BY <3>2, <4>1
    <3> QED
      BY <3>2, <3>3 DEF Reads
  <2>3. {r \in Rank : Active(r) /\ Reads(r, i)} = {0} /\ 0 \in Rank
    BY <1>1, <2>1, <2>2
  <2> QED
    BY <2>3
<1>4. CASE version = "optimized"
  <2> DEFINE s == global[3] \div pNum
             p == area * s
  <2>1. s \in Nat \ {0} /\ global[3] = s * pNum
    BY <1>1, <1>4, BlocksAlongZ
  <2>2. \A r \in Rank : Active(r)
    <3> SUFFICES ASSUME NEW r \in Rank PROVE Active(r)
      OBVIOUS
    <3>1. /\ Local(r)[1] = global[1] /\ Local(r)[2] = global[2] /\ Local(r)[3] = s
      BY <1>4, BlocksAlongZ DEF BlockAt
    <3> HIDE DEF s
    <3>2. global[1] > 0 /\ global[2] > 0
      BY <1>1
    <3>3. s > 0
      BY <2>1
    <3>4. Local(r)[1] > 0 /\ Local(r)[2] > 0 /\ Local(r)[3] > 0
      BY ONLY <3>1, <3>2, <3>3, Zenon
    <3> QED
      BY <3>4 DEF Active, Dim
  <2>3. \A r \in Rank : /\ DOMAIN FileView(r) = 0 .. p - 1
                        /\ \A k \in 0 .. p - 1 : FileView(r)[k] = p * r + k
    <3> SUFFICES ASSUME NEW r \in Rank
                 PROVE  /\ DOMAIN FileView(r) = 0 .. p - 1
                        /\ \A k \in 0 .. p - 1 : FileView(r)[k] = p * r + k
      OBVIOUS
    <3>1. BlockAt(global, s, r, Local(r), OffsetOf(r))
      BY <1>4, BlocksAlongZ
    <3>2. s \in Nat /\ r \in Nat
      BY <1>1, <2>1
    <3> HIDE DEF s
    <3>3. LET w == Subarray(global, Local(r), OffsetOf(r))
          IN /\ DOMAIN w = 0 .. global[1] * global[2] * s - 1
             /\ \A k \in 0 .. global[1] * global[2] * s - 1 :
                  w[k] = (global[1] * global[2] * s) * r + k
      <4>1. global \in [Dim -> Nat \ {0}]
        BY <1>1
      <4> DEFINE l == Local(r)
                 o == OffsetOf(r)
      <4>2. BlockAt(global, s, r, l, o)
        BY <3>1
      <4> HIDE DEF l, o
      <4>3. /\ DOMAIN Subarray(global, l, o) = 0 .. global[1] * global[2] * s - 1
            /\ \A k \in 0 .. global[1] * global[2] * s - 1 :
                 Subarray(global, l, o)[k] = (global[1] * global[2] * s) * r + k
        BY <3>2, <4>1, <4>2, ViewIsPiece
      <4> QED
        BY <4>3 DEF l, o
    <3> QED
      BY <3>3 DEF FileView
  <2> HIDE DEF s
  <2>4. p \in Nat \ {0} /\ i \in Nat /\ i < p * pNum
    <3>1. global[1] * global[2] * global[3] = p * pNum
      BY <1>1, <2>1
    <3>2. p \in Nat \ {0} /\ p * pNum \in Nat
      <4>1. area \in Nat \ {0} /\ s \in Nat \ {0} /\ pNum \in Nat
        BY <1>1, <1>2, <2>1
      <4> HIDE DEF area
      <4>2. area * s \in Nat /\ area * s # 0
        BY <4>1
      <4> HIDE DEF p
      <4>3. p \in Nat \ {0}
        BY <4>2 DEF p
      <4> QED
        BY <4>1, <4>3
    <3> QED
      BY <3>1, <3>2
  <2> HIDE DEF p
  <2>5. PICK q \in 0 .. pNum - 1, k \in 0 .. p - 1 : i = p * q + k
    <3>1. pNum \in Nat
      BY <1>1
    <3> QED
      BY <2>4, <3>1, SomePiece
  <2>6. \A r \in Rank : Reads(r, i) <=> r = q
    <3> SUFFICES ASSUME NEW r \in Rank PROVE Reads(r, i) <=> r = q
      OBVIOUS
    <3>1. Reads(r, i) <=> \E m \in 0 .. p - 1 : p * r + m = i
      BY <2>3 DEF Reads
    <3>2. r \in Nat /\ q \in Nat
      BY <1>1
    <3>3. ASSUME NEW m \in 0 .. p - 1, p * r + m = i PROVE r = q
      BY <2>4, <2>5, <3>2, <3>3, SamePiece
    <3> QED
      BY <2>5, <3>1, <3>3
  <2> QED
    BY <1>1, <2>2, <2>6
<1> QED
  BY <1>3, <1>4 DEF Parameters

-----------------------------------------------------------------------------
(* The array of a block.                                                   *)

\* The width of a block with its halo.
LEMMA Widths ==
  ASSUME NEW L, L[1] \in Nat, L[2] \in Nat, L[3] \in Nat
  PROVE  /\ Ld(L)[1] = L[1] + 2 /\ Ld(L)[2] = L[2] + 2 /\ Ld(L)[3] = L[3] + 2
         /\ Sides(Ld(L))
<1>1. /\ Ld(L)[1] = L[1] + 2 /\ Ld(L)[2] = L[2] + 2 /\ Ld(L)[3] = L[3] + 2
  BY DEF Ld, Dim, Halo
<1> QED
  BY <1>1 DEF Sides

\* The ranges set_zero is given contain the cells of a plane, of a row and of
\* one cell.
LEMMA Ranges ==
  ASSUME NEW w, Sides(w), NEW c, CellIn(c, w)
  PROVE  LET i  == INDEX(c, w)
             zs == INDEX(<<0, 0, c[3]>>, w)
             ys == INDEX(<<0, c[2], c[3]>>, w)
             xs == INDEX(<<c[1], c[2], c[3]>>, w)
         IN /\ i \in zs .. zs + w[1] * w[2] * Halo - 1
            /\ i \in ys .. ys + w[1] * Halo - 1
            /\ i \in xs .. xs + Halo - 1
<1> DEFINE x == w[1]
           y1 == w[2]
           c1 == c[1]
           c2 == c[2]
           c3 == c[3]
<1>1. /\ x \in Nat \ {0} /\ y1 \in Nat \ {0}
      /\ c1 \in 0 .. x - 1 /\ c2 \in 0 .. y1 - 1 /\ c3 \in Nat /\ c2 \in Nat
  BY DEF Sides, CellIn
<1>2. /\ INDEX(c, w) = c1 + x * (c2 + y1 * c3)
      /\ INDEX(<<0, 0, c3>>, w) = 0 + x * (0 + y1 * c3)
      /\ INDEX(<<0, c2, c3>>, w) = 0 + x * (c2 + y1 * c3)
      /\ INDEX(<<c1, c2, c3>>, w) = c1 + x * (c2 + y1 * c3)
  BY DEF INDEX
<1> HIDE DEF x, y1, c1, c2, c3
<1> DEFINE m == y1 * c3
           xm == x * m
           xc == x * c2
           xy == x * y1
<1>3. /\ m \in Nat /\ x * (c2 + m) = xc + xm /\ x * (0 + m) = xm
  <2>1. m \in Nat
    BY <1>1
  <2> HIDE DEF m
  <2> QED
    BY <1>1, <2>1
<1>4. xc \in Nat /\ xc + x <= xy
  BY <1>1, Products
<1>5. xm \in Nat /\ xy \in Nat
  BY <1>1, <1>3
<1> DEFINE i == INDEX(c, w)
           zs == INDEX(<<0, 0, c3>>, w)
           ys == INDEX(<<0, c2, c3>>, w)
           xs == INDEX(<<c1, c2, c3>>, w)
<1>6. i = c1 + (xc + xm) /\ zs = xm /\ ys = xc + xm /\ xs = c1 + (xc + xm)
  <2> HIDE DEF xc, xm
  <2>1. zs = 0 + x * (0 + m) /\ ys = 0 + x * (c2 + m)
    BY <1>2
  <2>2. i = c1 + x * (c2 + m) /\ xs = c1 + x * (c2 + m)
    BY <1>2
  <2> HIDE DEF m, i, zs, ys, xs
  <2> QED
    BY <1>1, <1>3, <1>4, <1>5, <2>1, <2>2
<1>7. xy * 1 = xy /\ x * 1 = x
  BY <1>1, <1>5
<1> HIDE DEF i, zs, ys, xs, xc, xm, xy
<1>8. /\ i \in zs .. zs + xy - 1
      /\ i \in ys .. ys + x - 1
      /\ i \in xs .. xs + 1 - 1
  BY <1>1, <1>4, <1>5, <1>6
<1>9. /\ i \in zs .. zs + xy * 1 - 1
      /\ i \in ys .. ys + x * 1 - 1
      /\ i \in xs .. xs + 1 - 1
  BY <1>7, <1>8
<1> QED
  BY <1>9 DEF Halo, i, zs, ys, xs, xy, x, y1, c1, c2, c3

\* array_center: its elements are the cells that are not in the halo.
LEMMA Centers ==
  ASSUME NEW L, L[1] \in Nat \ {0}, L[2] \in Nat \ {0}, L[3] \in Nat \ {0},
         NEW i \in 0 .. Ld(L)[1] * Ld(L)[2] * Ld(L)[3] - 1
  PROVE  LET c      == CellAt(i, Ld(L))
             center == Subarray(Ld(L), L, <<Halo, Halo, Halo>>)
         IN /\ DOMAIN center = 0 .. L[1] * L[2] * L[3] - 1
            /\ \A k \in DOMAIN center : center[k] = i =>
                 /\ CellIn(CellAt(k, L), L)
                 /\ /\ c[1] = 1 + CellAt(k, L)[1]
                    /\ c[2] = 1 + CellAt(k, L)[2]
                    /\ c[3] = 1 + CellAt(k, L)[3]
            /\ /\ c[1] \in 1 .. L[1] /\ c[2] \in 1 .. L[2] /\ c[3] \in 1 .. L[3]
               => \E k \in DOMAIN center : center[k] = i
<1> DEFINE c == CellAt(i, Ld(L))
           center == Subarray(Ld(L), L, <<Halo, Halo, Halo>>)
           E(k) == [d \in Dim |-> <<Halo, Halo, Halo>>[d] + CellAt(k, L)[d]]
<1>1. /\ Sides(L) /\ Sides(Ld(L))
      /\ Ld(L)[1] = L[1] + 2 /\ Ld(L)[2] = L[2] + 2 /\ Ld(L)[3] = L[3] + 2
  BY Widths DEF Sides
<1>2. /\ CellIn(c, Ld(L)) /\ INDEX(c, Ld(L)) = i
      /\ c = <<c[1], c[2], c[3]>>
  BY <1>1, IndexOfCell DEF CellAt
<1>3. /\ DOMAIN center = 0 .. L[1] * L[2] * L[3] - 1
      /\ \A k \in 0 .. L[1] * L[2] * L[3] - 1 : center[k] = INDEX(E(k), Ld(L))
  BY DEF Subarray
<1>4. \A k : /\ E(k)[1] = 1 + CellAt(k, L)[1]
             /\ E(k)[2] = 1 + CellAt(k, L)[2]
             /\ E(k)[3] = 1 + CellAt(k, L)[3]
  BY DEF Dim, Halo
<1> HIDE DEF c, center, E
<1>5. ASSUME NEW k \in DOMAIN center, center[k] = i
      PROVE  /\ CellIn(CellAt(k, L), L)
             /\ /\ c[1] = 1 + CellAt(k, L)[1]
                /\ c[2] = 1 + CellAt(k, L)[2]
                /\ c[3] = 1 + CellAt(k, L)[3]
  <2>1. CellIn(CellAt(k, L), L)
    BY <1>1, <1>3, IndexOfCell
  <2>2. CellIn(E(k), Ld(L))
    BY <1>1, <1>4, <2>1 DEF CellIn
  <2>3. CellAt(INDEX(E(k), Ld(L)), Ld(L)) = <<E(k)[1], E(k)[2], E(k)[3]>>
    BY <1>1, <2>2, CellOfIndex
  <2>4. c = <<E(k)[1], E(k)[2], E(k)[3]>>
    BY <1>3, <1>5, <2>3 DEF c
  <2>5. c[1] = E(k)[1] /\ c[2] = E(k)[2] /\ c[3] = E(k)[3]
    BY <2>4
  <2> QED
    BY <1>4, <2>1, <2>5
<1>6. ASSUME c[1] \in 1 .. L[1], c[2] \in 1 .. L[2], c[3] \in 1 .. L[3]
      PROVE  \E k \in DOMAIN center : center[k] = i
  <2> DEFINE f == <<c[1] - 1, c[2] - 1, c[3] - 1>>
             k == INDEX(f, L)
  <2>1. CellIn(f, L)
    BY <1>1, <1>6 DEF CellIn
  <2>2. k \in DOMAIN center /\ CellAt(k, L) = <<f[1], f[2], f[3]>>
    BY <1>1, <1>3, <2>1, CellOfIndex
  <2>3. E(k)[1] = c[1] /\ E(k)[2] = c[2] /\ E(k)[3] = c[3]
    <3>1. /\ CellAt(k, L)[1] = c[1] - 1
          /\ CellAt(k, L)[2] = c[2] - 1
          /\ CellAt(k, L)[3] = c[3] - 1
      BY <2>2
    <3> HIDE DEF k
    <3> QED
      BY <1>4, <1>6, <3>1
  <2>4. INDEX(E(k), Ld(L)) = INDEX(c, Ld(L))
    BY <2>3 DEF INDEX
  <2> HIDE DEF k
  <2> QED
    BY <1>2, <1>3, <2>2, <2>4
<1> QED
  BY <1>3, <1>5, <1>6 DEF c, center

-----------------------------------------------------------------------------
(* What memory_alloc has set to zero.                                      *)

Width   == Ld(Local(pId))
Cell(i) == CellAt(i, Width)

InHalo(c) == \E d \in Dim : c[d] < Halo \/ c[d] >= End(d)

\* The cells set to zero so far, from where the loops are.
Zeroed(c) ==
  \/ pc = "plane" /\ c[3] < z /\ InHalo(c)
  \/ /\ pc = "row"
     /\ \/ c[3] < z /\ InHalo(c)
        \/ c[3] = z /\ c[2] < Halo
        \/ c[3] = z /\ c[2] < y /\ (c[1] < Halo \/ c[1] >= End(1))
  \/ pc = "read" /\ InHalo(c)

Shape ==
  /\ Parameters
  /\ pc \in {"front", "plane", "row", "read", "done"}
  /\ y \in Halo .. End(2) /\ z \in Halo .. End(3)
  /\ pc = "front" => z = Halo
  /\ pc = "row" => z < End(3)
  /\ DOMAIN array = 0 .. Width[1] * Width[2] * Width[3] - 1

IInv ==
  /\ Shape
  /\ \A i \in DOMAIN array : Zeroed(Cell(i)) => array[i] = Zero
  /\ LocalIsGlobal

\* Sizes and offsets of a block are numbers.
LEMMA Sizes ==
  ASSUME Parameters
  PROVE  /\ Local(pId)[1] \in Nat /\ Local(pId)[2] \in Nat /\ Local(pId)[3] \in Nat
         /\ OffsetOf(pId)[1] \in Int /\ OffsetOf(pId)[2] \in Int /\ OffsetOf(pId)[3] \in Int
<1>1. /\ pId \in Nat
      /\ global[1] \in Nat \ {0} /\ global[2] \in Nat \ {0} /\ global[3] \in Nat \ {0}
  BY DEF Parameters, Rank, Dim
<1>2. CASE version = "optimized"
  <2>1. PICK n \in Nat \ {0} : Num(pNum) = <<1, 1, n>>
    BY GridInfoAssumption DEF Num
  <2>2. Local(pId) = [d \in Dim |-> global[d] \div <<1, 1, n>>[d]]
    BY <1>2, <2>1 DEF Local, LocalSize
  <2>3. /\ Local(pId)[1] = global[1] \div 1 /\ Local(pId)[2] = global[2] \div 1
        /\ Local(pId)[3] = global[3] \div n
    BY <2>2 DEF Dim
  <2>4. Local(pId)[1] \in Nat /\ Local(pId)[2] \in Nat /\ Local(pId)[3] \in Nat
    <3>1. global[1] \div 1 = global[1] /\ global[2] \div 1 = global[2]
      BY <1>1
    <3>2. global[3] \div n \in Nat
      BY <1>1, DivMod
    <3> QED
      BY <1>1, <2>3, <3>1, <3>2
  <2>5. Position(<<1, 1, n>>, pId) = <<0, 0, pId>>
    <3>1. pId % 1 = 0 /\ pId \div 1 = pId
      BY <1>1
    <3> QED
      BY <3>1 DEF Position
  <2>6. OffsetOf(pId) = [d \in Dim |-> Local(pId)[d] * <<0, 0, pId>>[d]]
    BY <1>2, <2>1, <2>5 DEF OffsetOf, Offset
  <2>7. /\ OffsetOf(pId)[1] = Local(pId)[1] * 0 /\ OffsetOf(pId)[2] = Local(pId)[2] * 0
        /\ OffsetOf(pId)[3] = Local(pId)[3] * pId
    BY <2>6 DEF Dim
  <2> QED
    BY <1>1, <2>4, <2>7
<1>3. CASE version = "naive"
  BY <1>1, <1>3 DEF Local, OffsetOf
<1> QED
  BY <1>2, <1>3 DEF Parameters

\* Numbers that the loops of memory_alloc compare, and the cells of the array.
LEMMA Numbers ==
  ASSUME Shape
  PROVE  /\ Sides(Width)
         /\ Halo = 1 /\ End(1) \in Nat /\ End(2) \in Nat /\ End(3) \in Nat
         /\ Width[1] = End(1) + 1 /\ Width[2] = End(2) + 1 /\ Width[3] = End(3) + 1
         /\ \A i \in DOMAIN array : CellIn(Cell(i), Width) /\ INDEX(Cell(i), Width) = i
<1>1. Local(pId)[1] \in Nat /\ Local(pId)[2] \in Nat /\ Local(pId)[3] \in Nat
  BY Sizes DEF Shape
<1>2. /\ Width[1] = Local(pId)[1] + 2 /\ Width[2] = Local(pId)[2] + 2
      /\ Width[3] = Local(pId)[3] + 2 /\ Sides(Width)
  BY <1>1, Widths DEF Width
<1>3. \A d : End(d) = Local(pId)[d] + 1
  BY DEF End, Halo
<1>4. \A i \in DOMAIN array : CellIn(Cell(i), Width) /\ INDEX(Cell(i), Width) = i
  BY <1>2, IndexOfCell DEF Shape, Cell
<1> QED
  BY <1>1, <1>2, <1>3, <1>4 DEF Halo

\* The layout stays.
LEMMA Layout ==
  ASSUME [Next]_vars
  PROVE  /\ version' = version /\ pNum' = pNum /\ global' = global /\ pId' = pId
         /\ Local(pId)' = Local(pId) /\ OffsetOf(pId)' = OffsetOf(pId)
         /\ Width' = Width /\ \A d : End(d)' = End(d)
         /\ Parameters' = Parameters /\ DOMAIN array' = DOMAIN array
<1>1. version' = version /\ pNum' = pNum /\ global' = global /\ pId' = pId
  BY DEF Next, Front, Plane, RowEnds, PlaneEnd, Back, Read, vars
<1>2. Local(pId)' = Local(pId) /\ OffsetOf(pId)' = OffsetOf(pId)
  BY <1>1 DEF Local, OffsetOf
<1>3. Width' = Width /\ \A d : End(d)' = End(d)
  BY <1>2 DEF Width, End
<1>4. Parameters' = Parameters
  BY <1>1 DEF Parameters, Rank
<1>5. DOMAIN array' = DOMAIN array
  BY DEF Next, Front, Plane, RowEnds, PlaneEnd, Back, Read, vars, SetZero
<1> QED
  BY <1>1, <1>2, <1>3, <1>4, <1>5

\* A cell that a step of memory_alloc zeroes is in one of its ranges.
LEMMA ZeroedStep ==
  ASSUME IInv, Front \/ Plane \/ RowEnds \/ PlaneEnd \/ Back,
         NEW i \in DOMAIN array, Zeroed(Cell(i))'
  PROVE  array'[i] = Zero
<1> DEFINE c  == Cell(i)
           c1 == c[1]
           c2 == c[2]
           c3 == c[3]
<1>1. /\ Sides(Width) /\ CellIn(c, Width) /\ INDEX(c, Width) = i
      /\ Halo = 1 /\ End(1) \in Nat /\ End(2) \in Nat /\ End(3) \in Nat
      /\ c1 \in 0 .. End(1) /\ c2 \in 0 .. End(2) /\ c3 \in 0 .. End(3)
  BY Numbers DEF IInv, CellIn
<1>2. /\ i \in At(0, 0, c3) .. At(0, 0, c3) + NX * NY * Halo - 1
      /\ i \in At(0, c2, c3) .. At(0, c2, c3) + NX * Halo - 1
      /\ i \in At(c1, c2, c3) .. At(c1, c2, c3) + Halo - 1
  BY <1>1, Ranges DEF At, NX, NY, Width
<1>3. Zeroed(c) => array[i] = Zero
  BY DEF IInv
<1>4. Width' = Width /\ Cell(i)' = c /\ End(1)' = End(1) /\ End(2)' = End(2) /\ End(3)' = End(3)
  <2>1. Width' = Width /\ \A d : End(d)' = End(d)
    BY Layout DEF Next
  <2> QED
    BY <2>1 DEF Cell
<1>5. Zeroed(Cell(i))' <=>
        \/ pc' = "plane" /\ c3 < z' /\ InHalo(c)
        \/ /\ pc' = "row"
           /\ \/ c3 < z' /\ InHalo(c)
              \/ c3 = z' /\ c2 < Halo
              \/ c3 = z' /\ c2 < y' /\ (c1 < Halo \/ c1 >= End(1))
        \/ pc' = "read" /\ InHalo(c)
  <2>1. InHalo(Cell(i))' <=> InHalo(c)
    <3>1. InHalo(Cell(i))' <=> \/ c[1] < Halo \/ c[1] >= End(1)
                               \/ c[2] < Halo \/ c[2] >= End(2)
                               \/ c[3] < Halo \/ c[3] >= End(3)
      BY <1>4 DEF InHalo, Dim
    <3>2. InHalo(c) <=> \/ c[1] < Halo \/ c[1] >= End(1)
                        \/ c[2] < Halo \/ c[2] >= End(2)
                        \/ c[3] < Halo \/ c[3] >= End(3)
      BY DEF InHalo, Dim
    <3> QED
      BY <3>1, <3>2
  <2> QED
    BY <1>4, <2>1 DEF Zeroed
<1>6. InHalo(c) <=> \/ c1 < Halo \/ c1 >= End(1) \/ c2 < Halo \/ c2 >= End(2)
                    \/ c3 < Halo \/ c3 >= End(3)
  BY DEF InHalo, Dim
<1>7. /\ y \in Halo .. End(2) /\ z \in Halo .. End(3) /\ y \in Int /\ z \in Int
      /\ pc = "front" => z = Halo
      /\ pc = "row" => z < End(3)
  BY <1>1 DEF IInv, Shape
<1>8. Zeroed(c) <=>
        \/ pc = "plane" /\ c3 < z /\ InHalo(c)
        \/ /\ pc = "row"
           /\ \/ c3 < z /\ InHalo(c)
              \/ c3 = z /\ c2 < Halo
              \/ c3 = z /\ c2 < y /\ (c1 < Halo \/ c1 >= End(1))
        \/ pc = "read" /\ InHalo(c)
  BY DEF Zeroed
<1> HIDE DEF c, c1, c2, c3
<1>9. CASE Front
  <2>1. c3 = 0
    BY <1>1, <1>5, <1>7, <1>9 DEF Front
  <2>2. SetZero({<<At(0, 0, 0), NX * NY * Halo>>})
    BY <1>9 DEF Front
  <2>3. i \in At(0, 0, 0) .. At(0, 0, 0) + NX * NY * Halo - 1
    BY <1>2, <2>1
  <2> DEFINE a == At(0, 0, 0)
             n == NX * NY * Halo
  <2> HIDE DEF a, n
  <2>4. array' = [j \in DOMAIN array |->
                   IF \E g \in {<<a, n>>} : j \in g[1] .. g[1] + g[2] - 1
                     THEN Zero ELSE array[j]]
    BY <2>2 DEF SetZero, a, n
  <2>5. i \in a .. a + n - 1
    BY <2>3 DEF a, n
  <2>6. \E g \in {<<a, n>>} : i \in g[1] .. g[1] + g[2] - 1
    BY <2>5
  <2> QED
    BY <2>4, <2>6
<1>10. CASE Plane
  <2>1. Zeroed(c) \/ c3 = z
    BY <1>1, <1>5, <1>7, <1>8, <1>10 DEF Plane
  <2>2. c3 = z => c2 = 0
    BY <1>1, <1>5, <1>7, <1>10 DEF Plane
  <2>3. SetZero({<<At(0, 0, z), NX * Halo>>})
    BY <1>10 DEF Plane
  <2>4. Zeroed(c) \/ i \in At(0, 0, z) .. At(0, 0, z) + NX * Halo - 1
    BY <1>2, <2>1, <2>2
  <2> DEFINE a == At(0, 0, z)
             n == NX * Halo
  <2> HIDE DEF a, n
  <2>5. array' = [j \in DOMAIN array |->
                   IF \E g \in {<<a, n>>} : j \in g[1] .. g[1] + g[2] - 1
                     THEN Zero ELSE array[j]]
    BY <2>3 DEF SetZero, a, n
  <2>6. array[i] = Zero \/ i \in a .. a + n - 1
    BY <1>3, <2>4 DEF a, n
  <2>7. array[i] = Zero \/ \E g \in {<<a, n>>} : i \in g[1] .. g[1] + g[2] - 1
    BY <2>6
  <2> QED
    BY <2>5, <2>7
<1>11. CASE RowEnds
  <2>1. Zeroed(c) \/ (c3 = z /\ c2 = y /\ (c1 = 0 \/ c1 = End(1)))
    BY <1>1, <1>5, <1>7, <1>8, <1>11 DEF RowEnds
  <2>2. SetZero({<<At(0, y, z), Halo>>, <<At(End(1), y, z), Halo>>})
    BY <1>11 DEF RowEnds
  <2>3. \/ Zeroed(c)
        \/ i \in At(0, y, z) .. At(0, y, z) + Halo - 1
        \/ i \in At(End(1), y, z) .. At(End(1), y, z) + Halo - 1
    BY <1>2, <2>1
  <2> DEFINE a == At(0, y, z)
             b == At(End(1), y, z)
  <2> HIDE DEF a, b
  <2>4. array' = [j \in DOMAIN array |->
                   IF \E g \in {<<a, Halo>>, <<b, Halo>>} : j \in g[1] .. g[1] + g[2] - 1
                     THEN Zero ELSE array[j]]
    BY <2>2 DEF SetZero, a, b
  <2>5. array[i] = Zero \/ i \in a .. a + Halo - 1 \/ i \in b .. b + Halo - 1
    BY <1>3, <2>3 DEF a, b
  <2>6. array[i] = Zero \/ \E g \in {<<a, Halo>>, <<b, Halo>>} : i \in g[1] .. g[1] + g[2] - 1
    BY <2>5
  <2> QED
    BY <2>4, <2>6
<1>12. CASE PlaneEnd
  <2>1. Zeroed(c) \/ (c3 = z /\ c2 = y)
    BY <1>1, <1>5, <1>6, <1>7, <1>8, <1>12 DEF PlaneEnd
  <2>2. SetZero({<<At(0, y, z), NX * Halo>>})
    BY <1>12 DEF PlaneEnd
  <2>3. Zeroed(c) \/ i \in At(0, y, z) .. At(0, y, z) + NX * Halo - 1
    BY <1>2, <2>1
  <2> DEFINE a == At(0, y, z)
             n == NX * Halo
  <2> HIDE DEF a, n
  <2>4. array' = [j \in DOMAIN array |->
                   IF \E g \in {<<a, n>>} : j \in g[1] .. g[1] + g[2] - 1
                     THEN Zero ELSE array[j]]
    BY <2>2 DEF SetZero, a, n
  <2>5. array[i] = Zero \/ i \in a .. a + n - 1
    BY <1>3, <2>3 DEF a, n
  <2>6. array[i] = Zero \/ \E g \in {<<a, n>>} : i \in g[1] .. g[1] + g[2] - 1
    BY <2>5
  <2> QED
    BY <2>4, <2>6
<1>13. CASE Back
  <2>1. Zeroed(c) \/ c3 = z
    BY <1>1, <1>5, <1>7, <1>8, <1>13 DEF Back
  <2>2. SetZero({<<At(0, 0, z), NX * NY * Halo>>})
    BY <1>13 DEF Back
  <2>3. Zeroed(c) \/ i \in At(0, 0, z) .. At(0, 0, z) + NX * NY * Halo - 1
    BY <1>2, <2>1
  <2> DEFINE a == At(0, 0, z)
             n == NX * NY * Halo
  <2> HIDE DEF a, n
  <2>4. array' = [j \in DOMAIN array |->
                   IF \E g \in {<<a, n>>} : j \in g[1] .. g[1] + g[2] - 1
                     THEN Zero ELSE array[j]]
    BY <2>2 DEF SetZero, a, n
  <2>5. array[i] = Zero \/ i \in a .. a + n - 1
    BY <1>3, <2>3 DEF a, n
  <2>6. array[i] = Zero \/ \E g \in {<<a, n>>} : i \in g[1] .. g[1] + g[2] - 1
    BY <2>5
  <2> QED
    BY <2>4, <2>6
<1> QED
  BY <1>9, <1>10, <1>11, <1>12, <1>13

-----------------------------------------------------------------------------
(* The invariant.                                                          *)

\* It holds initially.
LEMMA InitInv == Init => IInv
<1> SUFFICES ASSUME Init PROVE IInv
  OBVIOUS
<1>1. Parameters
  <2>1. pNum \in Nat \ {0} /\ global \in [Dim -> Nat \ {0}]
    BY DistGridAssumption DEF Init
  <2> QED
    BY <2>1 DEF Init, Parameters
<1>2. End(2) \in Nat /\ End(3) \in Nat /\ End(2) >= 1 /\ End(3) >= 1
  BY <1>1, Sizes DEF End, Halo
<1>3. DOMAIN array = 0 .. Width[1] * Width[2] * Width[3] - 1
  BY DEF Init, Width
<1>4. Shape
  BY <1>1, <1>2, <1>3 DEF Init, Shape, Halo
<1> QED
  BY <1>4 DEF Init, IInv, Zeroed, LocalIsGlobal

\* The loops stay in their bounds.
LEMMA ShapeStep ==
  ASSUME Shape, Next
  PROVE  Shape'
<1>1. /\ Halo = 1 /\ End(1) \in Nat /\ End(2) \in Nat /\ End(3) \in Nat
      /\ End(2)' = End(2) /\ End(3)' = End(3) /\ Width' = Width
      /\ Parameters' = Parameters /\ DOMAIN array' = DOMAIN array
  BY Numbers, Layout
<1>2. Parameters' /\ DOMAIN array' = 0 .. (Width[1] * Width[2] * Width[3] - 1)'
  BY <1>1 DEF Shape
<1>3. /\ y \in Halo .. End(2) /\ z \in Halo .. End(3)
      /\ pc = "front" => z = Halo
      /\ pc = "row" => z < End(3)
  BY DEF Shape
<1>4. /\ pc' \in {"front", "plane", "row", "read", "done"}
      /\ y' \in Halo .. End(2) /\ z' \in Halo .. End(3)
      /\ pc' = "front" => z' = Halo
      /\ pc' = "row" => z' < End(3)
  <2>1. CASE Front \/ Back \/ Read
    BY <1>1, <1>3, <2>1 DEF Front, Back, Read
  <2>2. CASE Plane
    BY <1>1, <1>3, <2>2 DEF Plane
  <2>3. CASE RowEnds
    BY <1>1, <1>3, <2>3 DEF RowEnds
  <2>4. CASE PlaneEnd
    BY <1>1, <1>3, <2>4 DEF PlaneEnd
  <2> QED
    BY <2>1, <2>2, <2>3, <2>4 DEF Next
<1> QED
  BY <1>1, <1>2, <1>4 DEF Shape, Halo

\* read_file fills the cells between the halos, and leaves the halo zero.
LEMMA ReadStep ==
  ASSUME IInv, Read
  PROVE  LocalIsGlobal'
<1> DEFINE L == Local(pId)
           o == OffsetOf(pId)
           center == ArrayCenter(pId)
           view == FileView(pId)
<1>1. /\ L[1] \in Nat /\ L[2] \in Nat /\ L[3] \in Nat
      /\ o[1] \in Int /\ o[2] \in Int /\ o[3] \in Int
  BY Sizes DEF IInv, Shape
<1>2. Halo = 1 /\ \A d : End(d) = L[d] + 1
  BY DEF End, Halo
<1>3. /\ L' = L /\ o' = o /\ \A d : End(d)' = End(d)
      /\ Width' = Width /\ global' = global /\ DOMAIN array' = DOMAIN array
  BY Layout DEF Next
<1>4. SUFFICES ASSUME NEW i \in DOMAIN array
               PROVE  array'[i] = IF InHalo(Cell(i)) THEN Zero
                                  ELSE INDEX([d \in Dim |-> o[d] + Cell(i)[d] - Halo], global)
  <2>1. \A i \in DOMAIN array : Cell(i)' = Cell(i) /\ (InHalo(Cell(i)))' = InHalo(Cell(i))
    BY <1>3 DEF Cell, InHalo
  <2> QED
    BY <1>3, <1>4, <2>1 DEF LocalIsGlobal, InHalo, Cell, Width
<1> DEFINE c == Cell(i)
<1>5. CellIn(c, Width) /\ i \in 0 .. Width[1] * Width[2] * Width[3] - 1
  BY Numbers DEF IInv, Shape
<1>6. /\ c[1] \in 0 .. L[1] + 1 /\ c[2] \in 0 .. L[2] + 1 /\ c[3] \in 0 .. L[3] + 1
  <2>1. Width[1] = L[1] + 2 /\ Width[2] = L[2] + 2 /\ Width[3] = L[3] + 2
    BY <1>1, Widths DEF Width
  <2> HIDE DEF L, c
  <2> QED
    BY <1>1, <1>5, <2>1 DEF CellIn
<1>7. InHalo(c) <=> \/ c[1] < 1 \/ c[1] >= L[1] + 1 \/ c[2] < 1 \/ c[2] >= L[2] + 1
                    \/ c[3] < 1 \/ c[3] >= L[3] + 1
  BY <1>2 DEF InHalo, Dim
<1>8. InHalo(c) => array[i] = Zero
  BY DEF IInv, Zeroed, Read
<1>9. Active(pId) <=> L[1] > 0 /\ L[2] > 0 /\ L[3] > 0
  BY DEF Active, Dim
<1>10. array'[i] = IF Active(pId) /\ \E k \in DOMAIN center : center[k] = i
                     THEN view[CHOOSE k \in DOMAIN center : center[k] = i]
                     ELSE array[i]
  BY DEF Read
<1>11. CASE ~Active(pId)
  <2>1. InHalo(c)
    <3> HIDE DEF L, c
    <3> QED
      BY <1>1, <1>6, <1>7, <1>9, <1>11
  <2> QED
    BY <1>8, <1>10, <1>11, <2>1
<1>12. CASE Active(pId)
  <2>1. L[1] \in Nat \ {0} /\ L[2] \in Nat \ {0} /\ L[3] \in Nat \ {0}
    <3> HIDE DEF L
    <3> QED
      BY <1>1, <1>9, <1>12
  <2>2. /\ DOMAIN center = 0 .. L[1] * L[2] * L[3] - 1
        /\ \A k \in DOMAIN center : center[k] = i =>
             /\ CellIn(CellAt(k, L), L)
             /\ /\ c[1] = 1 + CellAt(k, L)[1]
                /\ c[2] = 1 + CellAt(k, L)[2]
                /\ c[3] = 1 + CellAt(k, L)[3]
        /\ /\ c[1] \in 1 .. L[1] /\ c[2] \in 1 .. L[2] /\ c[3] \in 1 .. L[3]
           => \E k \in DOMAIN center : center[k] = i
    <3>1. i \in 0 .. Ld(L)[1] * Ld(L)[2] * Ld(L)[3] - 1
      BY <1>5 DEF Width
    <3>2. center = Subarray(Ld(L), L, <<Halo, Halo, Halo>>) /\ c = CellAt(i, Ld(L))
      BY DEF ArrayCenter, Cell, Width
    <3> HIDE DEF L, c, center
    <3> DEFINE c0 == CellAt(i, Ld(L))
               center0 == Subarray(Ld(L), L, <<Halo, Halo, Halo>>)
    <3>3. /\ DOMAIN center0 = 0 .. L[1] * L[2] * L[3] - 1
          /\ \A k \in DOMAIN center0 : center0[k] = i =>
               /\ CellIn(CellAt(k, L), L)
               /\ /\ c0[1] = 1 + CellAt(k, L)[1]
                  /\ c0[2] = 1 + CellAt(k, L)[2]
                  /\ c0[3] = 1 + CellAt(k, L)[3]
          /\ /\ c0[1] \in 1 .. L[1] /\ c0[2] \in 1 .. L[2] /\ c0[3] \in 1 .. L[3]
             => \E k \in DOMAIN center0 : center0[k] = i
      BY <2>1, <3>1, Centers
    <3>4. center = center0 /\ c = c0
      BY <3>2
    <3> HIDE DEF c0, center0
    <3> QED
      BY <3>3, <3>4
  <2>3. DOMAIN view = 0 .. L[1] * L[2] * L[3] - 1
        /\ \A k \in DOMAIN view :
             view[k] = INDEX([d \in Dim |-> o[d] + CellAt(k, L)[d]], global)
    BY DEF FileView, Subarray
  <2> HIDE DEF L, o, center, view, c
  <2>4. CASE InHalo(c)
    <3>1. ~\E k \in DOMAIN center : center[k] = i
      <4> SUFFICES ASSUME NEW k \in DOMAIN center, center[k] = i PROVE FALSE
        OBVIOUS
      <4>1. CellIn(CellAt(k, L), L)
        BY <2>2
      <4>2. /\ c[1] = 1 + CellAt(k, L)[1]
            /\ c[2] = 1 + CellAt(k, L)[2]
            /\ c[3] = 1 + CellAt(k, L)[3]
        BY <2>2
      <4>3. /\ CellAt(k, L)[1] \in 0 .. L[1] - 1 /\ CellAt(k, L)[2] \in 0 .. L[2] - 1
            /\ CellAt(k, L)[3] \in 0 .. L[3] - 1
        BY <4>1 DEF CellIn
      <4> QED
        BY <1>1, <1>7, <2>4, <4>2, <4>3
    <3> QED
      BY <1>8, <1>10, <2>4, <3>1 DEF c
  <2>5. CASE ~InHalo(c)
    <3>1. c[1] \in 1 .. L[1] /\ c[2] \in 1 .. L[2] /\ c[3] \in 1 .. L[3]
      BY <1>1, <1>6, <1>7, <2>5
    <3> DEFINE k == CHOOSE k \in DOMAIN center : center[k] = i
    <3>2. k \in DOMAIN center /\ center[k] = i /\ array'[i] = view[k]
      <4>1. \E m \in DOMAIN center : center[m] = i
        BY <2>2, <3>1
      <4> QED
        BY <1>10, <1>12, <4>1
    <3> HIDE DEF k
    <3>3. /\ c[1] = 1 + CellAt(k, L)[1] /\ c[2] = 1 + CellAt(k, L)[2]
          /\ c[3] = 1 + CellAt(k, L)[3]
          /\ CellAt(k, L)[1] \in Int /\ CellAt(k, L)[2] \in Int /\ CellAt(k, L)[3] \in Int
      <4>1. CellIn(CellAt(k, L), L)
        BY <2>2, <3>2
      <4>2. /\ c[1] = 1 + CellAt(k, L)[1]
            /\ c[2] = 1 + CellAt(k, L)[2]
            /\ c[3] = 1 + CellAt(k, L)[3]
        BY <2>2, <3>2
      <4>3. /\ CellAt(k, L)[1] \in 0 .. L[1] - 1 /\ CellAt(k, L)[2] \in 0 .. L[2] - 1
            /\ CellAt(k, L)[3] \in 0 .. L[3] - 1
        BY <4>1 DEF CellIn
      <4>4. /\ CellAt(k, L)[1] \in Int /\ CellAt(k, L)[2] \in Int /\ CellAt(k, L)[3] \in Int
        BY <1>1, <4>3
      <4> QED
        BY <4>2, <4>4
    <3>4. view[k] = INDEX([d \in Dim |-> o[d] + CellAt(k, L)[d]], global)
      BY <2>2, <2>3, <3>2
    <3>5. /\ o[1] + CellAt(k, L)[1] = o[1] + c[1] - Halo
          /\ o[2] + CellAt(k, L)[2] = o[2] + c[2] - Halo
          /\ o[3] + CellAt(k, L)[3] = o[3] + c[3] - Halo
      BY <1>1, <3>3 DEF Halo
    <3>6. [d \in Dim |-> o[d] + CellAt(k, L)[d]] = [d \in Dim |-> o[d] + c[d] - Halo]
      <4>1. \A d \in Dim : d = 1 \/ d = 2 \/ d = 3
        BY DEF Dim
      <4>2. \A d \in Dim : o[d] + CellAt(k, L)[d] = o[d] + c[d] - Halo
        BY <3>5, <4>1
      <4> QED
        BY <4>2
    <3>7. array'[i] = INDEX([d \in Dim |-> o[d] + c[d] - Halo], global)
      BY <3>2, <3>4, <3>6
    <3> QED
      BY <2>5, <3>7 DEF c
  <2> QED
    BY <2>4, <2>5
<1> QED
  BY <1>11, <1>12

\* A step preserves the invariant.
LEMMA NextInv == IInv /\ [Next]_vars => IInv'
<1> SUFFICES ASSUME IInv, [Next]_vars PROVE IInv'
  OBVIOUS
<1>1. CASE UNCHANGED vars
  BY <1>1 DEF IInv, vars, Shape, Parameters, Rank, End, Local, OffsetOf, Width, Cell,
              Zeroed, InHalo, LocalIsGlobal
<1>2. CASE Next
  <2>1. Shape'
    BY <1>2, ShapeStep DEF IInv
  <2>2. DOMAIN array' = DOMAIN array
    BY Layout
  <2>3. CASE Read
    <3>1. LocalIsGlobal'
      BY <2>3, ReadStep
    <3>2. \A i : ~(Zeroed(Cell(i)))'
      BY <2>3 DEF Read, Zeroed
    <3> QED
      BY <2>1, <3>1, <3>2 DEF IInv
  <2>4. CASE Front \/ Plane \/ RowEnds \/ PlaneEnd \/ Back
    <3>1. \A i \in DOMAIN array : (Zeroed(Cell(i)))' => array'[i] = Zero
      BY <2>4, ZeroedStep
    <3>2. pc' # "done"
      BY <2>4 DEF Front, Plane, RowEnds, PlaneEnd, Back
    <3>3. LocalIsGlobal'
      BY <3>2 DEF LocalIsGlobal
    <3>4. \A i \in DOMAIN array' : (Zeroed(Cell(i)))' => array'[i] = Zero
      BY <2>2, <3>1
    <3> QED
      BY <2>1, <3>3, <3>4 DEF IInv
  <2> QED
    BY <1>2, <2>3, <2>4 DEF Next
<1> QED
  BY <1>1, <1>2

\* What memory_alloc has zeroed is zero, and the array is read into its center.
THEOREM BlockFilled == Spec => []IInv
  BY InitInv, NextInv, PTL DEF Spec

\* common.h: the cells of the array are the cells of the grid at the offset of
\* the process, and every cell of the halo is zero.
THEOREM ArraysHoldTheGrid == Spec => []LocalIsGlobal
<1>1. IInv => LocalIsGlobal
  BY DEF IInv
<1> QED
  BY <1>1, BlockFilled, PTL

\* Every cell of the grid is read, and computed, by exactly one process, for the
\* grids and process counts the division is made for.
THEOREM GridIsTiled == Spec => []Tiling
<1>1. IInv => Tiling
  <2> SUFFICES ASSUME IInv, Supported,
                      NEW i \in 0 .. global[1] * global[2] * global[3] - 1
               PROVE  Cardinality({r \in Rank : Active(r) /\ Reads(r, i)}) = 1
    BY DEF Tiling
  <2>1. PICK q \in Rank : {r \in Rank : Active(r) /\ Reads(r, i)} = {q}
    BY OneReader DEF IInv, Shape
  <2> QED
    BY <2>1, FS_Singleton
<1> QED
  BY <1>1, BlockFilled, PTL

-----------------------------------------------------------------------------
(* HaloPlan.                                                               *)

\* The arithmetic of HaloPlan is that of GridInfo.
LEMMA SameArithmetic ==
  /\ Plan!Dim = {1, 2, 3} /\ Plan!Halo = 1
  /\ \A c, w : Plan!INDEX(c, w) = INDEX(c, w)
  /\ \A i, w : Plan!CellAt(i, w) = CellAt(i, w)
  /\ \A n, r : Plan!Position(n, r) = CellAt(r, n)
  /\ \A S : Plan!Cardinality(S) = Cardinality(S)
<1>1. Plan!Dim = {1, 2, 3} /\ Plan!Halo = 1
  BY DEF Plan!Dim, Plan!Halo
<1>2. \A c, w : Plan!INDEX(c, w) = INDEX(c, w)
  BY DEF Plan!INDEX, INDEX
<1>3. \A i, w : Plan!CellAt(i, w) = CellAt(i, w)
  BY DEF Plan!CellAt, CellAt
<1>4. \A n, r : Plan!Position(n, r) = CellAt(r, n)
  BY DEF Plan!Position, CellAt
<1>5. \A S : Plan!Cardinality(S) = Cardinality(S)
  BY DEF Plan!Cardinality, Cardinality
<1> QED
  BY <1>1, <1>2, <1>3, <1>4, <1>5

-----------------------------------------------------------------------------
(* Planes.                                                                 *)

\* A block with its halo has cells.
Solid(w) == w[1] \in Nat \ {0} /\ w[2] \in Nat \ {0} /\ w[3] \in Nat \ {0}

\* The k-th cell of the plane at place a along d of a block of width w, in the
\* order of the vector types.
PlaneCell(d, a, k, w) ==
  CASE d = 1 -> <<a, k % w[2], k \div w[2]>>
    [] d = 2 -> <<k % w[1], a, k \div w[1]>>
    [] d = 3 -> <<k % w[1], k \div w[1], a>>

\* The k-th cell of a plane, as an address, is that cell.
LEMMA PlaneAt ==
  ASSUME NEW d \in {1, 2, 3}, Solid(Plan!ld), NEW a \in 0 .. Plan!ld[d] - 1,
         NEW k \in DOMAIN Plan!Plane(d)
  PROVE  /\ CellIn(PlaneCell(d, a, k, Plan!ld), Plan!ld)
         /\ INDEX(PlaneCell(d, a, k, Plan!ld), Plan!ld) = Plan!Base(d, a) + Plan!Plane(d)[k]
         /\ CellAt(Plan!Base(d, a) + Plan!Plane(d)[k], Plan!ld) = PlaneCell(d, a, k, Plan!ld)
<1> DEFINE w == Plan!ld
           x == w[1]
           y1 == w[2]
           z1 == w[3]
           c == PlaneCell(d, a, k, w)
<1>1. x \in Nat \ {0} /\ y1 \in Nat \ {0} /\ z1 \in Nat \ {0} /\ Sides(w)
  BY DEF Solid, Sides
<1>2. SUFFICES CellIn(c, w) /\ INDEX(c, w) = Plan!Base(d, a) + Plan!Plane(d)[k]
  <2>1. c = <<c[1], c[2], c[3]>>
    BY DEF PlaneCell
  <2> QED
    BY <1>1, <1>2, <2>1, CellOfIndex
<1>3. CASE d = 1
  <2>1. /\ c = <<a, k % y1, k \div y1>>
        /\ Plan!Base(d, a) = a + x * (0 + y1 * 0)
        /\ Plan!Plane(d) = Plan!Vector(y1 * z1, 1, x)
    BY <1>3, SameArithmetic DEF PlaneCell, Plan!Base, Plan!Plane, INDEX
  <2>2. k \in 0 .. (y1 * z1) * 1 - 1 /\ Plan!Plane(d)[k] = x * (k \div 1) + (k % 1)
    BY <2>1 DEF Plan!Vector
  <2>3. a \in 0 .. x - 1
    BY <1>3
  <2> DEFINE q == k \div y1
             r == k % y1
  <2> HIDE DEF w, x, y1, z1, c, q, r
  <2>4. y1 * z1 \in Nat
    BY <1>1
  <2>5. k \in Nat /\ k < y1 * z1
    BY <2>2, <2>4
  <2>6. q \in 0 .. z1 - 1 /\ r \in 0 .. y1 - 1 /\ k = y1 * q + r
    <3>1. z1 \in Nat /\ y1 \in Nat
      BY <1>1
    <3> QED
      BY <1>1, <2>4, <2>5, <3>1, Digits DEF q, r
  <2>7. Plan!Plane(d)[k] = x * k
    <3>1. k \div 1 = k /\ k % 1 = 0
      BY <2>5
    <3>2. x * k \in Nat
      BY <1>1, <2>5
    <3> QED
      BY <2>2, <3>1, <3>2
  <2>8. c[1] = a /\ c[2] = r /\ c[3] = q
    BY <2>1 DEF q, r
  <2>9. CellIn(c, w)
    BY <2>3, <2>6, <2>8 DEF CellIn, x, y1, z1
  <2>10. INDEX(c, w) = a + x * (r + y1 * q)
    BY <2>8 DEF INDEX, x, y1
  <2>11. r + y1 * q = k
    <3> HIDE DEF q, r
    <3>1. q \in Nat /\ r \in Nat
      BY <1>1, <2>6
    <3>2. y1 * q \in Nat
      BY <1>1, <3>1
    <3> QED
      BY <2>6, <3>1, <3>2
  <2>12. Plan!Base(d, a) = a
    BY <1>1, <2>1, <2>3
  <2> QED
    BY <2>7, <2>9, <2>10, <2>11, <2>12
<1>4. CASE d = 2
  <2>1. /\ c = <<k % x, a, k \div x>>
        /\ Plan!Base(d, a) = 0 + x * (a + y1 * 0)
        /\ Plan!Plane(d) = Plan!Vector(z1, x, x * y1)
    BY <1>4, SameArithmetic DEF PlaneCell, Plan!Base, Plan!Plane, INDEX
  <2>2. k \in 0 .. z1 * x - 1 /\ Plan!Plane(d)[k] = (x * y1) * (k \div x) + (k % x)
    BY <2>1 DEF Plan!Vector
  <2>3. a \in 0 .. y1 - 1
    BY <1>4
  <2> DEFINE q == k \div x
             r == k % x
  <2> HIDE DEF w, x, y1, z1, c, q, r
  <2>4. z1 * x \in Nat /\ z1 * x = x * z1
    BY <1>1
  <2>5. k \in Nat /\ k < x * z1
    BY <2>2, <2>4
  <2>6. q \in 0 .. z1 - 1 /\ r \in 0 .. x - 1
    <3>1. z1 \in Nat /\ y1 \in Nat
      BY <1>1
    <3> QED
      BY <1>1, <2>4, <2>5, <3>1, Digits DEF q, r
  <2>7. c[1] = r /\ c[2] = a /\ c[3] = q
    BY <2>1 DEF q, r
  <2>8. CellIn(c, w)
    BY <2>3, <2>6, <2>7 DEF CellIn, x, y1, z1
  <2>9. INDEX(c, w) = r + x * (a + y1 * q)
    BY <2>7 DEF INDEX, x, y1
  <2>10. r + x * (a + y1 * q) = (0 + x * (a + y1 * 0)) + ((x * y1) * q + r)
    <3>1. q \in Nat /\ r \in Nat /\ a \in Nat
      BY <1>1, <2>3, <2>6
    <3> HIDE DEF q, r
    <3> QED
      BY <1>1, <3>1
  <2> QED
    BY <2>1, <2>2, <2>8, <2>9, <2>10 DEF q, r
<1>5. CASE d = 3
  <2>1. /\ c = <<k % x, k \div x, a>>
        /\ Plan!Base(d, a) = 0 + x * (0 + y1 * a)
        /\ Plan!Plane(d) = Plan!Vector(1, x * y1, 0)
    BY <1>5, SameArithmetic DEF PlaneCell, Plan!Base, Plan!Plane, INDEX
  <2>2. /\ k \in 0 .. 1 * (x * y1) - 1
        /\ Plan!Plane(d)[k] = 0 * (k \div (x * y1)) + (k % (x * y1))
    BY <2>1 DEF Plan!Vector
  <2>3. a \in 0 .. z1 - 1
    BY <1>5
  <2> DEFINE q == k \div x
             r == k % x
             m == x * y1
  <2> HIDE DEF w, x, y1, z1, c, q, r
  <2>4. m \in Nat \ {0}
    <3>1. m \in Nat /\ m # 0
      BY <1>1
    <3> QED
      BY <3>1
  <2>5. k \in 0 .. m - 1 /\ k \in Nat /\ Plan!Plane(d)[k] = 0 * (k \div m) + (k % m)
    <3>1. 1 * m = m
      BY <2>4
    <3> HIDE DEF m
    <3> QED
      BY <2>2, <2>4, <3>1 DEF m
  <2>6. Plan!Plane(d)[k] = k
    <3> HIDE DEF m
    <3> DEFINE i == k \div m
               j == k % m
    <3>1. k < m * 1 /\ m \in Nat \ {0} /\ k \in Nat /\ 1 \in Nat
      BY <2>4, <2>5
    <3>2. i \in 0 .. 1 - 1 /\ j \in 0 .. m - 1 /\ k = m * i + j
      BY <3>1, Digits
    <3>3. Plan!Plane(d)[k] = 0 * i + j
      BY <2>5
    <3> HIDE DEF i, j
    <3>4. i = 0 /\ j \in Int
      BY <2>4, <3>2
    <3> QED
      BY <2>4, <3>2, <3>3, <3>4
  <2>7. q \in 0 .. y1 - 1 /\ r \in 0 .. x - 1 /\ k = x * q + r
    <3>1. z1 \in Nat /\ y1 \in Nat
      BY <1>1
    <3> QED
      <4>1. k < x * y1
        BY <2>4, <2>5 DEF m
      <4> QED
        BY <1>1, <2>5, <3>1, <4>1, Digits DEF q, r
  <2>8. c[1] = r /\ c[2] = q /\ c[3] = a
    BY <2>1 DEF q, r
  <2>9. CellIn(c, w)
    BY <2>3, <2>7, <2>8 DEF CellIn, x, y1, z1
  <2>10. INDEX(c, w) = r + x * (q + y1 * a)
    BY <2>8 DEF INDEX, x, y1
  <2>11. r + x * (q + y1 * a) = (0 + x * (0 + y1 * a)) + (x * q + r)
    <3>1. q \in Nat /\ r \in Nat /\ a \in Nat
      BY <1>1, <2>3, <2>7
    <3> HIDE DEF q, r
    <3> QED
      BY <1>1, <3>1
  <2> QED
    BY <2>1, <2>6, <2>7, <2>9, <2>10, <2>11
<1> QED
  BY <1>3, <1>4, <1>5

\* Two digits make a number of two digits.
LEMMA TwoDigits ==
  ASSUME NEW p \in Nat \ {0}, NEW n \in Nat, NEW q \in 0 .. n - 1, NEW r \in 0 .. p - 1
  PROVE  /\ p * q + r \in 0 .. p * n - 1
         /\ (p * q + r) \div p = q /\ (p * q + r) % p = r
<1>1. q \in Nat /\ q < n /\ r \in Nat
  OBVIOUS
<1>2. p * q \in Nat /\ p * n \in Nat /\ p * q + p <= p * n
  BY <1>1, Products
<1> DEFINE k == p * q + r
<1>3. k \in Nat /\ k = p * q + r /\ k \in 0 .. p * n - 1
  BY <1>1, <1>2
<1> HIDE DEF k
<1>4. k \div p = q /\ k % p = r
  BY <1>1, <1>3, OneQuotient
<1> QED
  BY <1>3, <1>4 DEF k

\* Every cell of a plane is one of its vector.
LEMMA PlaneHas ==
  ASSUME NEW d \in {1, 2, 3}, Solid(Plan!ld), NEW c, CellIn(c, Plan!ld)
  PROVE  \E k \in DOMAIN Plan!Plane(d) :
           PlaneCell(d, c[d], k, Plan!ld) = <<c[1], c[2], c[3]>>
<1> DEFINE w == Plan!ld
           x == w[1]
           y1 == w[2]
           z1 == w[3]
           c1 == c[1]
           c2 == c[2]
           c3 == c[3]
<1>1. /\ x \in Nat \ {0} /\ y1 \in Nat \ {0} /\ z1 \in Nat \ {0}
      /\ x \in Nat /\ y1 \in Nat /\ z1 \in Nat
      /\ c1 \in 0 .. x - 1 /\ c2 \in 0 .. y1 - 1 /\ c3 \in 0 .. z1 - 1
  BY DEF Solid, CellIn
<1>2. CASE d = 1
  <2> DEFINE k == y1 * c3 + c2
  <2>1. \A j : PlaneCell(d, c1, j, w) = <<c1, j % y1, j \div y1>>
    BY <1>2 DEF PlaneCell
  <2>2. DOMAIN Plan!Plane(d) = 0 .. (y1 * z1) * 1 - 1
    BY <1>2 DEF Plan!Plane, Plan!Vector
  <2> HIDE DEF w, x, y1, z1, c1, c2, c3
  <2>3. k \in 0 .. y1 * z1 - 1 /\ k \div y1 = c3 /\ k % y1 = c2
    BY <1>1, TwoDigits
  <2>4. (y1 * z1) * 1 = y1 * z1
    BY <1>1
  <2> HIDE DEF k
  <2>5. k \in DOMAIN Plan!Plane(d) /\ PlaneCell(d, c1, k, w) = <<c1, c2, c3>>
    BY <2>1, <2>2, <2>3, <2>4
  <2> QED
    BY <1>2, <2>5 DEF w, c1, c2, c3
<1>3. CASE d = 2
  <2> DEFINE k == x * c3 + c1
  <2>1. \A j : PlaneCell(d, c2, j, w) = <<j % x, c2, j \div x>>
    BY <1>3 DEF PlaneCell
  <2>2. DOMAIN Plan!Plane(d) = 0 .. z1 * x - 1
    BY <1>3 DEF Plan!Plane, Plan!Vector
  <2> HIDE DEF w, x, y1, z1, c1, c2, c3
  <2>3. k \in 0 .. x * z1 - 1 /\ k \div x = c3 /\ k % x = c1
    BY <1>1, TwoDigits
  <2>4. z1 * x = x * z1
    BY <1>1
  <2> HIDE DEF k
  <2>5. k \in DOMAIN Plan!Plane(d) /\ PlaneCell(d, c2, k, w) = <<c1, c2, c3>>
    BY <2>1, <2>2, <2>3, <2>4
  <2> QED
    BY <1>3, <2>5 DEF w, c1, c2, c3
<1>4. CASE d = 3
  <2> DEFINE k == x * c2 + c1
  <2>1. \A j : PlaneCell(d, c3, j, w) = <<j % x, j \div x, c3>>
    BY <1>4 DEF PlaneCell
  <2>2. DOMAIN Plan!Plane(d) = 0 .. 1 * (x * y1) - 1
    BY <1>4 DEF Plan!Plane, Plan!Vector
  <2> HIDE DEF w, x, y1, z1, c1, c2, c3
  <2>3. k \in 0 .. x * y1 - 1 /\ k \div x = c2 /\ k % x = c1
    BY <1>1, TwoDigits
  <2>4. 1 * (x * y1) = x * y1
    BY <1>1
  <2> HIDE DEF k
  <2>5. k \in DOMAIN Plan!Plane(d) /\ PlaneCell(d, c3, k, w) = <<c1, c2, c3>>
    BY <2>1, <2>2, <2>3, <2>4
  <2> QED
    BY <1>4, <2>5 DEF w, c1, c2, c3
<1> QED
  BY <1>2, <1>3, <1>4

-----------------------------------------------------------------------------
(* Neighbours.                                                             *)

\* The arrangement has as many places as there are processes.
Arranged ==
  /\ Solid(num) /\ procs = num[1] * num[2] * num[3]
  /\ num \in [{1, 2, 3} -> Nat \ {0}]

Place(r) == CellAt(r, num)

\* The other end of a call of process r along d in group g.
Peer(r, d, g) == IF g = 0 THEN r + Plan!Step(d) ELSE r - Plan!Step(d)

\* Every process has a place of its own.
LEMMA Places ==
  ASSUME Arranged, NEW r \in Plan!Rank
  PROVE  /\ CellIn(Place(r), num) /\ INDEX(Place(r), num) = r /\ r \in Nat
         /\ Place(r) = <<Place(r)[1], Place(r)[2], Place(r)[3]>>
<1>1. Sides(num) /\ r \in 0 .. num[1] * num[2] * num[3] - 1
  BY DEF Arranged, Solid, Sides, Plan!Rank
<1>2. CellIn(Place(r), num) /\ INDEX(Place(r), num) = r
  BY <1>1, IndexOfCell DEF Place
<1>3. r \in Nat
  BY DEF Plan!Rank
<1>4. Place(r) = <<Place(r)[1], Place(r)[2], Place(r)[3]>>
  BY DEF Place, CellAt
<1> QED
  BY <1>2, <1>3, <1>4

\* The three branches of first, last and middle processes: a group is that of a
\* neighbour.
LEMMA Groups ==
  ASSUME Arranged, NEW r \in Plan!Rank, NEW d \in {1, 2, 3}, NEW g \in {0, 1}
  PROVE  g \in Plan!GroupsOf(r, d) <=>
           \/ g = 0 /\ Place(r)[d] < num[d] - 1
           \/ g = 1 /\ Place(r)[d] > 0
<1> DEFINE p == Place(r)[d]
           n == num[d]
<1>1. n \in Nat \ {0} /\ p \in 0 .. n - 1
  BY Places DEF Arranged, Solid, CellIn
<1>2. Plan!GroupsOf(r, d) = IF n = 1 THEN {}
                            ELSE IF p = 0 THEN {0}
                            ELSE IF p = n - 1 THEN {1}
                            ELSE {0, 1}
  BY SameArithmetic DEF Plan!GroupsOf, Place
<1> HIDE DEF p, n
<1>3. g \in Plan!GroupsOf(r, d) <=> \/ g = 0 /\ p < n - 1
                                    \/ g = 1 /\ p > 0
  BY <1>1, <1>2
<1> QED
  BY <1>3 DEF p, n

\* One place up or down.
Side(g) == IF g = 0 THEN 1 ELSE -1

\* The other end of a call is the next process along d, which has a call back.
LEMMA NextAlong ==
  ASSUME Arranged, NEW r \in Plan!Rank, NEW d \in {1, 2, 3}, NEW g \in {0, 1},
         g \in Plan!GroupsOf(r, d)
  PROVE  LET q == Peer(r, d, g)
         IN /\ q \in Plan!Rank /\ Place(q)[d] = Place(r)[d] + Side(g)
            /\ \A e \in {1, 2, 3} \ {d} : Place(q)[e] = Place(r)[e]
            /\ 1 - g \in Plan!GroupsOf(q, d) /\ Peer(q, d, 1 - g) = r
<1> DEFINE q == Peer(r, d, g)
           p1 == Place(r)[1]
           p2 == Place(r)[2]
           p3 == Place(r)[3]
           n1 == num[1]
           n2 == num[2]
           n3 == num[3]
           s == Side(g)
           c1 == IF d = 1 THEN p1 + s ELSE p1
           c2 == IF d = 2 THEN p2 + s ELSE p2
           c3 == IF d = 3 THEN p3 + s ELSE p3
           c == <<c1, c2, c3>>
<1>1. /\ n1 \in Nat \ {0} /\ n2 \in Nat \ {0} /\ n3 \in Nat \ {0}
      /\ p1 \in 0 .. n1 - 1 /\ p2 \in 0 .. n2 - 1 /\ p3 \in 0 .. n3 - 1
      /\ p1 + n1 * (p2 + n2 * p3) = r /\ r \in Nat
  BY Places DEF Arranged, Solid, CellIn, INDEX
<1>2. s \in {1, -1} /\ (s = 1 => g = 0) /\ (s = -1 => g = 1)
  BY DEF Side
<1>3. /\ d = 1 => \/ s = 1 /\ p1 < n1 - 1
                  \/ s = -1 /\ p1 > 0
      /\ d = 2 => \/ s = 1 /\ p2 < n2 - 1
                  \/ s = -1 /\ p2 > 0
      /\ d = 3 => \/ s = 1 /\ p3 < n3 - 1
                  \/ s = -1 /\ p3 > 0
  <2>1. \/ g = 0 /\ Place(r)[d] < num[d] - 1
        \/ g = 1 /\ Place(r)[d] > 0
    BY Groups
  <2>2. (g = 0 => s = 1) /\ (g = 1 => s = -1)
    BY DEF Side
  <2> HIDE DEF s
  <2>3. \/ s = 1 /\ Place(r)[d] < num[d] - 1
        \/ s = -1 /\ Place(r)[d] > 0
    BY <2>1, <2>2
  <2> HIDE DEF p1, p2, p3, n1, n2, n3
  <2>4. d = 1 => \/ s = 1 /\ p1 < n1 - 1
                 \/ s = -1 /\ p1 > 0
    BY ONLY <2>3 DEF p1, n1
  <2>5. d = 2 => \/ s = 1 /\ p2 < n2 - 1
                 \/ s = -1 /\ p2 > 0
    BY ONLY <2>3 DEF p2, n2
  <2>6. d = 3 => \/ s = 1 /\ p3 < n3 - 1
                 \/ s = -1 /\ p3 > 0
    BY ONLY <2>3 DEF p3, n3
  <2> QED
    BY ONLY <2>4, <2>5, <2>6
<1>4. /\ d = 1 => q = r + s
      /\ d = 2 => q = r + s * n1
      /\ d = 3 => q = r + s * (n1 * n2)
  <2>1. Plan!Step(1) = 1 /\ Plan!Step(2) = n1 /\ Plan!Step(3) = n1 * n2
    BY DEF Plan!Step
  <2>2. q = IF g = 0 THEN r + Plan!Step(d) ELSE r - Plan!Step(d)
    BY DEF Peer
  <2> HIDE DEF q, n1, n2
  <2>3. n1 * n2 \in Nat
    BY <1>1
  <2> DEFINE m == n1 * n2
  <2> HIDE DEF m
  <2>4. CASE g = 0
    <3>1. s = 1
      BY <2>4 DEF Side
    <3> HIDE DEF s
    <3>2. 1 * n1 = n1 /\ 1 * m = m
      BY <1>1, <2>3 DEF m
    <3> QED
      BY <2>1, <2>2, <2>4, <3>1, <3>2 DEF m
  <2>5. CASE g = 1
    <3>1. s = -1
      BY <2>5 DEF Side
    <3> HIDE DEF s
    <3>2. r + (-1) * n1 = r - n1 /\ r + (-1) * m = r - m /\ r + (-1) = r - 1
      BY <1>1, <2>3 DEF m
    <3> QED
      BY <2>1, <2>2, <2>5, <3>1, <3>2 DEF m
  <2> QED
    BY <2>4, <2>5
<1>5. Sides(num)
  BY DEF Arranged, Solid, Sides
<1>6. CellIn(c, num)
  <2>1. c1 \in 0 .. n1 - 1 /\ c2 \in 0 .. n2 - 1 /\ c3 \in 0 .. n3 - 1
    <3> HIDE DEF p1, p2, p3, n1, n2, n3, s
    <3> QED
      BY <1>1, <1>2, <1>3
  <2> QED
    BY <2>1 DEF CellIn
<1>7. INDEX(c, num) = q
  <2>1. INDEX(c, num) = c1 + n1 * (c2 + n2 * c3)
    BY DEF INDEX
  <2> HIDE DEF p1, p2, p3, n1, n2, n3, s, c, q
  <2>2. s \in Int /\ p1 \in Int /\ p2 \in Int /\ p3 \in Int /\ n1 \in Int /\ n2 \in Int
    BY <1>1, <1>2
  <2>3. CASE d = 1
    <3>1. p1 + s + n1 * (p2 + n2 * p3) = (p1 + n1 * (p2 + n2 * p3)) + s
      BY <2>2
    <3> QED
      BY <1>1, <1>4, <2>1, <2>3, <3>1
  <2>4. CASE d = 2
    <3>1. p1 + n1 * (p2 + s + n2 * p3) = (p1 + n1 * (p2 + n2 * p3)) + s * n1
      BY <2>2
    <3> QED
      BY <1>1, <1>4, <2>1, <2>4, <3>1
  <2>5. CASE d = 3
    <3>1. p1 + n1 * (p2 + n2 * (p3 + s)) = (p1 + n1 * (p2 + n2 * p3)) + s * (n1 * n2)
      BY <2>2
    <3> QED
      BY <1>1, <1>4, <2>1, <2>5, <3>1
  <2> QED
    BY <2>3, <2>4, <2>5
<1>8. q \in Plan!Rank /\ Place(q) = c
  <2>1. /\ INDEX(c, num) \in 0 .. num[1] * num[2] * num[3] - 1
        /\ CellAt(INDEX(c, num), num) = <<c[1], c[2], c[3]>>
    BY <1>5, <1>6, CellOfIndex
  <2>2. <<c[1], c[2], c[3]>> = c
    OBVIOUS
  <2> HIDE DEF c, q
  <2> QED
    BY <1>7, <2>1, <2>2 DEF Place, Plan!Rank, Arranged
<1>9. /\ Place(q)[d] = Place(r)[d] + Side(g)
      /\ \A e \in {1, 2, 3} \ {d} : Place(q)[e] = Place(r)[e]
  <2>1. Place(q)[1] = c1 /\ Place(q)[2] = c2 /\ Place(q)[3] = c3
    BY <1>8
  <2> QED
    BY <2>1
<1>10. 1 - g \in {0, 1} /\ Side(1 - g) = -s /\ (1 - g = 0 <=> g = 1)
  BY DEF Side
<1>11. 1 - g \in Plan!GroupsOf(q, d)
  <2>1. Place(q)[d] = Place(r)[d] + s /\ Place(r)[d] \in 0 .. num[d] - 1 /\ num[d] \in Nat
    BY <1>1, <1>9
  <2>2. \/ g = 0 /\ Place(r)[d] < num[d] - 1
        \/ g = 1 /\ Place(r)[d] > 0
    BY Groups
  <2> DEFINE pr == Place(r)[d]
             pq == Place(q)[d]
             n  == num[d]
  <2>3. \/ 1 - g = 0 /\ pq < n - 1
        \/ 1 - g = 1 /\ pq > 0
    <3>1. pq = pr + s /\ pr \in 0 .. n - 1 /\ n \in Nat
      BY <2>1
    <3>2. \/ g = 0 /\ s = 1 /\ pr < n - 1
          \/ g = 1 /\ s = -1 /\ pr > 0
      BY <2>2 DEF Side
    <3> HIDE DEF s, q, pr, pq, n
    <3> QED
      BY <3>1, <3>2
  <2> HIDE DEF q
  <2> QED
    BY <1>8, <1>10, <2>3, Groups
<1>12. Peer(q, d, 1 - g) = r
  <2>1. Plan!Step(d) \in Int
    <3>1. Plan!Step(1) = 1 /\ Plan!Step(2) = n1 /\ Plan!Step(3) = n1 * n2
      BY DEF Plan!Step
    <3>2. n1 * n2 \in Int /\ n1 \in Int
      BY <1>1
    <3> QED
      BY <3>1, <3>2
  <2> QED
    BY <1>1, <2>1 DEF Peer
<1> QED
  BY <1>8, <1>9, <1>11, <1>12

\* A process has a neighbour in one place only.
LEMMA OnePeer ==
  ASSUME Arranged, NEW r \in Plan!Rank,
         NEW d \in {1, 2, 3}, NEW g \in {0, 1}, g \in Plan!GroupsOf(r, d),
         NEW e \in {1, 2, 3}, NEW h \in {0, 1}, h \in Plan!GroupsOf(r, e),
         Peer(r, d, g) = Peer(r, e, h)
  PROVE  d = e /\ g = h
<1> DEFINE q == Peer(r, d, g)
<1>1. /\ Place(q)[d] = Place(r)[d] + Side(g)
      /\ \A i \in {1, 2, 3} \ {d} : Place(q)[i] = Place(r)[i]
  BY NextAlong
<1>2. /\ Place(q)[e] = Place(r)[e] + Side(h)
      /\ \A i \in {1, 2, 3} \ {e} : Place(q)[i] = Place(r)[i]
  BY NextAlong
<1>3. Place(r)[d] \in Int
  BY Places DEF Arranged, Solid, CellIn
<1> HIDE DEF q
<1>4. d = e
  <2> SUFFICES ASSUME d # e PROVE FALSE
    OBVIOUS
  <2>1. Place(q)[d] = Place(r)[d]
    BY <1>2
  <2> QED
    BY <1>1, <1>3, <2>1 DEF Side
<1>5. Side(g) = Side(h)
  BY <1>1, <1>2, <1>3, <1>4 DEF Side
<1> QED
  BY <1>4, <1>5 DEF Side

-----------------------------------------------------------------------------
(* The calls of a step.                                                    *)

Posted(r, g) == Plan!Calls(r, 1, g) \o Plan!Calls(r, 2, g) \o Plan!Calls(r, 3, g)

PlanInv ==
  /\ Arranged /\ local \in [{1, 2, 3} -> Nat \ {0}] /\ posted \subseteq Plan!Rank
  /\ request = [r \in Plan!Rank |-> [g \in Plan!Group |->
                  IF r \in posted THEN Posted(r, g) ELSE << >>]]

\* The two calls for a neighbour.
SendCall(r, d, g) ==
  [op |-> "send", peer |-> Peer(r, d, g), tag |-> r, dim |-> d,
   base |-> Plan!Base(d, Plan!SendAt(g, d))]

RecvCall(r, d, g) ==
  [op |-> "recv", peer |-> Peer(r, d, g), tag |-> Peer(r, d, g), dim |-> d,
   base |-> Plan!Base(d, Plan!RecvAt(g, d))]

Elements(s) == {s[k] : k \in DOMAIN s}

\* A concatenation has the elements of both sequences.
LEMMA ElementsOfBoth ==
  ASSUME NEW S, NEW s \in Seq(S), NEW t \in Seq(S)
  PROVE  Elements(s \o t) = Elements(s) \cup Elements(t)
<1>1. /\ s \o t \in Seq(S) /\ Len(s \o t) = Len(s) + Len(t)
      /\ Len(s) \in Nat /\ Len(t) \in Nat
      /\ \A i \in 1 .. Len(s) + Len(t) :
           (s \o t)[i] = IF i <= Len(s) THEN s[i] ELSE t[i - Len(s)]
  BY ConcatProperties, LenProperties
<1>2. /\ DOMAIN s = 1 .. Len(s) /\ DOMAIN t = 1 .. Len(t)
      /\ DOMAIN (s \o t) = 1 .. Len(s) + Len(t)
  BY <1>1, LenProperties
<1> DEFINE m == Len(s)
           n == Len(t)
           u == s \o t
<1> HIDE DEF m, n, u
<1>3. /\ m \in Nat /\ n \in Nat /\ DOMAIN s = 1 .. m /\ DOMAIN t = 1 .. n
      /\ DOMAIN u = 1 .. m + n
      /\ \A i \in 1 .. m + n : u[i] = IF i <= m THEN s[i] ELSE t[i - m]
  BY <1>1, <1>2 DEF m, n, u
<1>4. ASSUME NEW k \in DOMAIN u PROVE u[k] \in Elements(s) \cup Elements(t)
  <2>1. CASE k <= m
    BY <1>3, <2>1 DEF Elements
  <2>2. CASE ~(k <= m)
    <3>1. k - m \in DOMAIN t /\ u[k] = t[k - m]
      BY <1>3, <2>2
    <3> QED
      BY <3>1 DEF Elements
  <2> QED
    BY <2>1, <2>2
<1>5. ASSUME NEW k \in DOMAIN s PROVE s[k] \in Elements(u)
  <2>1. k \in DOMAIN u /\ u[k] = s[k]
    BY <1>3
  <2> QED
    BY <2>1 DEF Elements
<1>6. ASSUME NEW k \in DOMAIN t PROVE t[k] \in Elements(u)
  <2>1. m + k \in DOMAIN u /\ ~(m + k <= m) /\ (m + k) - m = k
    BY <1>3
  <2>2. u[m + k] = t[k]
    BY <1>3, <2>1
  <2> QED
    BY <2>1, <2>2 DEF Elements
<1>7. Elements(u) = Elements(s) \cup Elements(t)
  BY <1>4, <1>5, <1>6 DEF Elements
<1> QED
  BY <1>7 DEF u

\* The calls of a group are those for its neighbours, six at most.
LEMMA CallsPosted ==
  ASSUME PlanInv, NEW r \in Plan!Rank, NEW g \in {0, 1}
  PROVE  /\ Len(request[r][g]) <= 6
         /\ \A c : c \in Plan!CallsOf(r, "send", g) <=>
              r \in posted /\ \E d \in {1, 2, 3} :
                g \in Plan!GroupsOf(r, d) /\ c = SendCall(r, d, g)
         /\ \A c : c \in Plan!CallsOf(r, "recv", g) <=>
              r \in posted /\ \E d \in {1, 2, 3} :
                g \in Plan!GroupsOf(r, d) /\ c = RecvCall(r, d, g)
<1> DEFINE S == {SendCall(r, d, g) : d \in {1, 2, 3}} \cup {RecvCall(r, d, g) : d \in {1, 2, 3}}
           C(d) == IF g \in Plan!GroupsOf(r, d) THEN {SendCall(r, d, g), RecvCall(r, d, g)}
                   ELSE {}
<1>1. request[r][g] = IF r \in posted THEN Posted(r, g) ELSE << >>
  BY DEF PlanInv, Plan!Group
<1>2. \A d \in {1, 2, 3} :
        Plan!Calls(r, d, g) = IF g \notin Plan!GroupsOf(r, d) THEN << >>
                              ELSE <<SendCall(r, d, g), RecvCall(r, d, g)>>
  BY DEF Plan!Calls, SendCall, RecvCall, Peer
<1>3. \A d \in {1, 2, 3} : SendCall(r, d, g) \in S /\ RecvCall(r, d, g) \in S
  OBVIOUS
<1> HIDE DEF S
<1>4. ASSUME NEW d \in {1, 2, 3}
      PROVE  /\ Plan!Calls(r, d, g) \in Seq(S) /\ Len(Plan!Calls(r, d, g)) \in 0 .. 2
             /\ Elements(Plan!Calls(r, d, g)) = C(d)
  <2>1. CASE g \notin Plan!GroupsOf(r, d)
    <3>1. Plan!Calls(r, d, g) = << >>
      BY <1>2, <2>1
    <3> QED
      BY <2>1, <3>1 DEF Elements
  <2>2. CASE g \in Plan!GroupsOf(r, d)
    <3> DEFINE a == SendCall(r, d, g)
               b == RecvCall(r, d, g)
    <3>1. Plan!Calls(r, d, g) = <<a, b>> /\ a \in S /\ b \in S
      BY <1>2, <1>3, <2>2
    <3> HIDE DEF a, b
    <3>2. <<a, b>> \in Seq(S) /\ Len(<<a, b>>) = 2 /\ Elements(<<a, b>>) = {a, b}
      BY <3>1 DEF Elements
    <3> QED
      BY <2>2, <3>1, <3>2 DEF a, b
  <2> QED
    BY <2>1, <2>2
<1>5. Elements(Posted(r, g)) = C(1) \cup C(2) \cup C(3) /\ Len(Posted(r, g)) <= 6
  <2> DEFINE s == Plan!Calls(r, 1, g)
             t == Plan!Calls(r, 2, g)
             u == Plan!Calls(r, 3, g)
  <2>1. /\ s \in Seq(S) /\ t \in Seq(S) /\ u \in Seq(S)
        /\ Len(s) \in 0 .. 2 /\ Len(t) \in 0 .. 2 /\ Len(u) \in 0 .. 2
        /\ Elements(s) = C(1) /\ Elements(t) = C(2) /\ Elements(u) = C(3)
    BY <1>4
  <2>2. Posted(r, g) = (s \o t) \o u
    BY DEF Posted
  <2> HIDE DEF s, t, u, C
  <2>3. s \o t \in Seq(S) /\ Len(s \o t) = Len(s) + Len(t) /\ Elements(s \o t) = C(1) \cup C(2)
    BY <2>1, ConcatProperties, ElementsOfBoth
  <2> DEFINE v == s \o t
  <2>4. v \in Seq(S) /\ Len(v) = Len(s) + Len(t) /\ Elements(v) = C(1) \cup C(2)
    BY <2>3
  <2> HIDE DEF v
  <2>5. Len(v \o u) = Len(v) + Len(u)
    BY <2>1, <2>4, ConcatProperties
  <2>6. Elements(v \o u) = C(1) \cup C(2) \cup C(3)
    BY <2>1, <2>4, ElementsOfBoth
  <2>7. Posted(r, g) = v \o u
    BY <2>2 DEF v
  <2>8. Len(v) + Len(u) <= 6
    <3> DEFINE ns == Len(s)
               nt == Len(t)
               nu == Len(u)
               nv == Len(v)
    <3>1. ns \in 0 .. 2 /\ nt \in 0 .. 2 /\ nu \in 0 .. 2 /\ nv = ns + nt
      BY <2>1, <2>4
    <3> HIDE DEF ns, nt, nu, nv
    <3>2. nv + nu <= 6
      BY ONLY <3>1
    <3> QED
      BY <3>2 DEF nv, nu
  <2> QED
    BY <2>5, <2>6, <2>7, <2>8
<1>6. Elements(request[r][g]) = IF r \in posted THEN C(1) \cup C(2) \cup C(3) ELSE {}
  <2>1. Elements(<< >>) = {}
    BY DEF Elements
  <2> QED
    BY <1>1, <1>5, <2>1
<1>7. Len(request[r][g]) <= 6
  <2>1. Len(<< >>) <= 6
    OBVIOUS
  <2> QED
    BY <1>1, <1>5, <2>1
<1>8. \A c, op : c \in Plan!CallsOf(r, op, g) <=> c \in Elements(request[r][g]) /\ c.op = op
  BY DEF Plan!CallsOf, Elements
<1>9. \A c : c \in Elements(request[r][g]) <=>
        r \in posted /\ \E d \in {1, 2, 3} :
          /\ g \in Plan!GroupsOf(r, d)
          /\ c = SendCall(r, d, g) \/ c = RecvCall(r, d, g)
  BY <1>6
<1>10. \A d : SendCall(r, d, g).op = "send" /\ RecvCall(r, d, g).op = "recv"
  BY DEF SendCall, RecvCall
<1> HIDE DEF C
<1>11. \A c : c \in Plan!CallsOf(r, "send", g) <=>
         r \in posted /\ \E d \in {1, 2, 3} :
           g \in Plan!GroupsOf(r, d) /\ c = SendCall(r, d, g)
  BY <1>8, <1>9, <1>10
<1>12. \A c : c \in Plan!CallsOf(r, "recv", g) <=>
         r \in posted /\ \E d \in {1, 2, 3} :
           g \in Plan!GroupsOf(r, d) /\ c = RecvCall(r, d, g)
  BY <1>8, <1>9, <1>10
<1> QED
  BY <1>7, <1>11, <1>12

-----------------------------------------------------------------------------
(* What the calls transfer.                                                *)

\* The width of a block, and a group's planes inside of it.
LEMMA PlanePlaces ==
  ASSUME PlanInv, NEW d \in {1, 2, 3}
  PROVE  /\ local[d] \in Nat \ {0} /\ Plan!ld[d] = local[d] + 2 /\ Solid(Plan!ld)
         /\ Plan!SendAt(0, d) = local[d] /\ Plan!SendAt(1, d) = 1
         /\ Plan!RecvAt(0, d) = local[d] + 1 /\ Plan!RecvAt(1, d) = 0
<1>1. \A e \in {1, 2, 3} : local[e] \in Nat \ {0}
  BY DEF PlanInv
<1>2. \A e \in {1, 2, 3} : Plan!ld[e] = local[e] + 2
  BY SameArithmetic DEF Plan!ld, Plan!Ld
<1>3. Solid(Plan!ld)
  BY <1>1, <1>2 DEF Solid
<1>4. /\ Plan!SendAt(0, d) = local[d] + 1 - 1 /\ Plan!SendAt(1, d) = 1
      /\ Plan!RecvAt(0, d) = local[d] + 1 /\ Plan!RecvAt(1, d) = 1 - 1
  BY SameArithmetic DEF Plan!SendAt, Plan!RecvAt
<1> QED
  BY <1>1, <1>2, <1>3, <1>4

\* A cell of a plane is at the place of the plane.
LEMMA PlaneCellAt ==
  ASSUME NEW d \in {1, 2, 3}, NEW a, NEW b, NEW k, NEW w
  PROVE  /\ PlaneCell(d, a, k, w)[d] = a
         /\ \A e \in {1, 2, 3} \ {d} : PlaneCell(d, a, k, w)[e] = PlaneCell(d, b, k, w)[e]
<1>1. CASE d = 1
  BY <1>1 DEF PlaneCell
<1>2. CASE d = 2
  BY <1>2 DEF PlaneCell
<1>3. CASE d = 3
  BY <1>3 DEF PlaneCell
<1> QED
  BY <1>1, <1>2, <1>3

\* The cells of a buffer, one by one.
LEMMA BufferAt ==
  ASSUME PlanInv, NEW d \in {1, 2, 3}, NEW a \in 0 .. Plan!ld[d] - 1,
         NEW c, c.dim = d, c.base = Plan!Base(d, a)
  PROVE  /\ DOMAIN Plan!Buffer(c) = DOMAIN Plan!Plane(d)
         /\ \A k \in DOMAIN Plan!Plane(d) :
              CellAt(Plan!Buffer(c)[k], Plan!ld) = PlaneCell(d, a, k, Plan!ld)
<1>1. Plan!Buffer(c) = [k \in DOMAIN Plan!Plane(d) |-> Plan!Base(d, a) + Plan!Plane(d)[k]]
  BY DEF Plan!Buffer
<1>2. Solid(Plan!ld)
  BY PlanePlaces
<1>3. \A k \in DOMAIN Plan!Plane(d) :
        CellAt(Plan!Base(d, a) + Plan!Plane(d)[k], Plan!ld) = PlaneCell(d, a, k, Plan!ld)
  BY <1>2, PlaneAt
<1> QED
  BY <1>1, <1>3

\* The plane that is sent and the plane of the receiver it goes to stand for the
\* same points of the grid, cell by cell.
LEMMA SamePoints ==
  ASSUME PlanInv, NEW r \in Plan!Rank, NEW d \in {1, 2, 3}, NEW g \in {0, 1},
         g \in Plan!GroupsOf(r, d), NEW k \in DOMAIN Plan!Plane(d)
  PROVE  Plan!Point(Peer(r, d, g), Plan!Buffer(RecvCall(Peer(r, d, g), d, 1 - g))[k])
           = Plan!Point(r, Plan!Buffer(SendCall(r, d, g))[k])
<1> DEFINE q == Peer(r, d, g)
           a == Plan!SendAt(g, d)
           b == Plan!RecvAt(1 - g, d)
           c == Plan!Buffer(SendCall(r, d, g))[k]
           w == Plan!Buffer(RecvCall(q, d, 1 - g))[k]
           ca == PlaneCell(d, a, k, Plan!ld)
           cb == PlaneCell(d, b, k, Plan!ld)
<1>1. /\ local[d] \in Nat \ {0} /\ Plan!ld[d] = local[d] + 2
      /\ Plan!SendAt(0, d) = local[d] /\ Plan!SendAt(1, d) = 1
      /\ Plan!RecvAt(0, d) = local[d] + 1 /\ Plan!RecvAt(1, d) = 0
  BY PlanePlaces
<1>2. /\ g = 0 => a = local[d] /\ b = 0 /\ Side(g) = 1
      /\ g = 1 => a = 1 /\ b = local[d] + 1 /\ Side(g) = -1
  BY <1>1 DEF Side
<1>3. a \in 0 .. Plan!ld[d] - 1 /\ b \in 0 .. Plan!ld[d] - 1
  <2> HIDE DEF a, b
  <2> QED
    BY <1>1, <1>2
<1>4. CellAt(c, Plan!ld) = ca
  <2> HIDE DEF ca
  <2>1. SendCall(r, d, g).dim = d /\ SendCall(r, d, g).base = Plan!Base(d, a)
    BY DEF SendCall
  <2> HIDE DEF a
  <2> QED
    BY <1>3, <2>1, BufferAt DEF ca
<1>5. CellAt(w, Plan!ld) = cb
  <2> HIDE DEF cb
  <2>1. RecvCall(q, d, 1 - g).dim = d /\ RecvCall(q, d, 1 - g).base = Plan!Base(d, b)
    BY DEF RecvCall
  <2> HIDE DEF b, q
  <2> QED
    BY <1>3, <2>1, BufferAt DEF cb
<1>6. \A i, j : Plan!Point(i, j) =
        [e \in {1, 2, 3} |-> local[e] * Place(i)[e] + CellAt(j, Plan!ld)[e] - 1]
  <2>1. \A i : Plan!Offset(local, num, i) = [e \in {1, 2, 3} |-> local[e] * Place(i)[e]]
    BY SameArithmetic DEF Plan!Offset, Place
  <2>2. \A i, j : Plan!Point(i, j) =
          [e \in {1, 2, 3} |-> Plan!Offset(local, num, i)[e] + CellAt(j, Plan!ld)[e] - 1]
    BY SameArithmetic DEF Plan!Point
  <2> QED
    BY <2>1, <2>2
<1>7. /\ Place(q)[d] = Place(r)[d] + Side(g)
      /\ \A e \in {1, 2, 3} \ {d} : Place(q)[e] = Place(r)[e]
  BY NextAlong DEF PlanInv
<1>8. Place(r)[d] \in Int
  <2>1. Arranged
    BY DEF PlanInv
  <2>2. CellIn(Place(r), num) /\ Solid(num)
    BY <2>1, Places DEF Arranged
  <2> QED
    BY <2>2 DEF CellIn, Solid
<1>9. /\ ca[d] = a /\ cb[d] = b
      /\ \A e \in {1, 2, 3} \ {d} : ca[e] = cb[e]
  BY PlaneCellAt
<1> HIDE DEF a, b, c, w, ca, cb, q
<1>10. local[d] * Place(q)[d] + cb[d] - 1 = local[d] * Place(r)[d] + ca[d] - 1
  <2> DEFINE l == local[d]
             p == Place(r)[d]
  <2>1. l \in Int /\ p \in Int
    BY <1>1, <1>8
  <2>2. \/ a = l /\ b = 0 /\ Place(q)[d] = p + 1
        \/ a = 1 /\ b = l + 1 /\ Place(q)[d] = p + (-1)
    BY <1>2, <1>7
  <2> HIDE DEF l, p
  <2>3. l * (p + 1) + 0 - 1 = l * p + l - 1 /\ l * (p + (-1)) + (l + 1) - 1 = l * p + 1 - 1
    BY <2>1
  <2>4. l * Place(q)[d] + b - 1 = l * p + a - 1
    BY <2>2, <2>3
  <2> QED
    BY <1>9, <2>4 DEF l, p
<1>11. \A e \in {1, 2, 3} :
         local[e] * Place(q)[e] + cb[e] - 1 = local[e] * Place(r)[e] + ca[e] - 1
  <2> SUFFICES ASSUME NEW e \in {1, 2, 3}
               PROVE  local[e] * Place(q)[e] + cb[e] - 1 = local[e] * Place(r)[e] + ca[e] - 1
    OBVIOUS
  <2>1. CASE e = d
    BY <1>10, <2>1
  <2>2. CASE e # d
    <3>1. Place(q)[e] = Place(r)[e] /\ cb[e] = ca[e]
      BY <1>7, <1>9, <2>2
    <3> QED
      BY <3>1
  <2> QED
    BY <2>1, <2>2
<1>12. Plan!Point(q, w) = Plan!Point(r, c)
  BY <1>4, <1>5, <1>6, <1>11
<1> QED
  BY <1>12 DEF q, w, c

\* Every message has one receive, for the same points; no receive is alone.
LEMMA Match ==
  ASSUME PlanInv
  PROVE  Plan!PlansMatch
<1> SUFFICES ASSUME posted = Plan!Rank PROVE Plan!PlansMatch
  BY DEF Plan!PlansMatch
<1>1. \A r \in Plan!Rank : \A c :
        /\ c \in Plan!AllCalls(r, "send") <=> \E d \in {1, 2, 3}, g \in {0, 1} :
             g \in Plan!GroupsOf(r, d) /\ c = SendCall(r, d, g)
        /\ c \in Plan!AllCalls(r, "recv") <=> \E d \in {1, 2, 3}, g \in {0, 1} :
             g \in Plan!GroupsOf(r, d) /\ c = RecvCall(r, d, g)
  BY CallsPosted DEF Plan!AllCalls
<1>2. \A r, d, g : /\ SendCall(r, d, g).peer = Peer(r, d, g) /\ SendCall(r, d, g).tag = r
                   /\ RecvCall(r, d, g).peer = Peer(r, d, g)
                   /\ RecvCall(r, d, g).tag = Peer(r, d, g)
                   /\ SendCall(r, d, g).dim = d
  BY DEF SendCall, RecvCall
<1>3. ASSUME NEW r \in Plan!Rank, NEW d \in {1, 2, 3}, NEW g \in {0, 1},
             g \in Plan!GroupsOf(r, d)
      PROVE  Plan!Takers(r, SendCall(r, d, g)) = {RecvCall(Peer(r, d, g), d, 1 - g)}
  <2> DEFINE q == Peer(r, d, g)
  <2>1. /\ q \in Plan!Rank /\ 1 - g \in {0, 1}
        /\ 1 - g \in Plan!GroupsOf(q, d) /\ Peer(q, d, 1 - g) = r
    BY <1>3, NextAlong DEF PlanInv
  <2>2. Plan!Takers(r, SendCall(r, d, g)) =
          {w \in Plan!AllCalls(q, "recv") : w.peer = r /\ w.tag = r}
    BY <1>2 DEF Plan!Takers
  <2> HIDE DEF q
  <2>3. RecvCall(q, d, 1 - g) \in {w \in Plan!AllCalls(q, "recv") : w.peer = r /\ w.tag = r}
    BY <1>1, <1>2, <2>1
  <2>4. ASSUME NEW w \in Plan!AllCalls(q, "recv"), w.peer = r
        PROVE  w = RecvCall(q, d, 1 - g)
    <3>1. PICK e \in {1, 2, 3}, h \in {0, 1} :
            h \in Plan!GroupsOf(q, e) /\ w = RecvCall(q, e, h)
      BY <1>1, <2>1
    <3>2. Peer(q, e, h) = Peer(q, d, 1 - g)
      BY <1>2, <2>1, <2>4, <3>1
    <3>3. e = d /\ h = 1 - g
      BY <2>1, <3>1, <3>2, OnePeer DEF PlanInv
    <3> QED
      BY <3>1, <3>3
  <2>5. {w \in Plan!AllCalls(q, "recv") : w.peer = r /\ w.tag = r} = {RecvCall(q, d, 1 - g)}
    BY <2>3, <2>4
  <2> QED
    BY <2>2, <2>5 DEF q
<1>4. ASSUME NEW r \in Plan!Rank, NEW c \in Plan!AllCalls(r, "send")
      PROVE  /\ Cardinality(Plan!Takers(r, c)) = 1
             /\ \A w \in Plan!Takers(r, c) : \A k \in DOMAIN Plan!Buffer(c) :
                  Plan!Point(c.peer, Plan!Buffer(w)[k]) = Plan!Point(r, Plan!Buffer(c)[k])
  <2>1. PICK d \in {1, 2, 3}, g \in {0, 1} :
          g \in Plan!GroupsOf(r, d) /\ c = SendCall(r, d, g)
    BY <1>1
  <2>2. Plan!Takers(r, c) = {RecvCall(Peer(r, d, g), d, 1 - g)}
    BY <1>3, <2>1
  <2>3. Cardinality(Plan!Takers(r, c)) = 1
    BY <2>2, FS_Singleton
  <2>4. DOMAIN Plan!Buffer(c) = DOMAIN Plan!Plane(d) /\ c.peer = Peer(r, d, g)
    BY <1>2, <2>1 DEF Plan!Buffer
  <2>5. \A k \in DOMAIN Plan!Buffer(c) :
          Plan!Point(c.peer, Plan!Buffer(RecvCall(Peer(r, d, g), d, 1 - g))[k])
            = Plan!Point(r, Plan!Buffer(c)[k])
    BY <2>1, <2>4, SamePoints
  <2> QED
    BY <2>2, <2>3, <2>5
<1>5. ASSUME NEW r \in Plan!Rank, NEW w \in Plan!AllCalls(r, "recv")
      PROVE  \E c \in Plan!AllCalls(w.peer, "send") : w \in Plan!Takers(w.peer, c)
  <2>1. PICK d \in {1, 2, 3}, g \in {0, 1} :
          g \in Plan!GroupsOf(r, d) /\ w = RecvCall(r, d, g)
    BY <1>1
  <2> DEFINE q == Peer(r, d, g)
  <2>2. /\ q \in Plan!Rank /\ 1 - g \in {0, 1}
        /\ 1 - g \in Plan!GroupsOf(q, d) /\ Peer(q, d, 1 - g) = r
    BY <2>1, NextAlong DEF PlanInv
  <2>3. w.peer = q
    BY <1>2, <2>1
  <2> HIDE DEF q
  <2>4. SendCall(q, d, 1 - g) \in Plan!AllCalls(q, "send")
    BY <1>1, <2>2
  <2>5. Plan!Takers(q, SendCall(q, d, 1 - g)) = {RecvCall(r, d, 1 - (1 - g))}
    BY <1>3, <2>2
  <2>6. 1 - (1 - g) = g
    OBVIOUS
  <2> QED
    BY <2>1, <2>3, <2>4, <2>5, <2>6
<1>6. \A r \in Plan!Rank : \A c \in Plan!AllCalls(r, "send") :
        /\ Plan!Cardinality(Plan!Takers(r, c)) = 1
        /\ \A w \in Plan!Takers(r, c) : \A k \in DOMAIN Plan!Buffer(c) :
             Plan!Point(c.peer, Plan!Buffer(w)[k]) = Plan!Point(r, Plan!Buffer(c)[k])
  BY <1>4, SameArithmetic, Zenon
<1>7. \A r \in Plan!Rank : \A w \in Plan!AllCalls(r, "recv") :
        \E c \in Plan!AllCalls(w.peer, "send") : w \in Plan!Takers(w.peer, c)
  BY <1>5, Zenon
<1> QED
  BY <1>6, <1>7, Zenon DEF Plan!PlansMatch

\* With the processes along z, the buffers of a process are different planes.
LEMMA Apart ==
  ASSUME PlanInv
  PROVE  Plan!BuffersApart
<1> SUFFICES ASSUME num[1] = 1, num[2] = 1, NEW r \in Plan!Rank,
                    NEW w \in Plan!AllCalls(r, "recv"),
                    NEW c \in (Plan!AllCalls(r, "recv") \cup Plan!AllCalls(r, "send")) \ {w},
                    NEW i \in Plan!Cells(w), i \in Plan!Cells(c)
             PROVE  FALSE
  BY DEF Plan!BuffersApart
<1> DEFINE l == local[3]
           At3(v, a) == v.dim = 3 /\ v.base = Plan!Base(3, a)
<1>1. /\ l \in Nat \ {0} /\ Plan!ld[3] = l + 2
      /\ Plan!SendAt(0, 3) = l /\ Plan!SendAt(1, 3) = 1
      /\ Plan!RecvAt(0, 3) = l + 1 /\ Plan!RecvAt(1, 3) = 0
  BY PlanePlaces
<1>2. \A d \in {1, 2, 3}, g \in {0, 1} : g \in Plan!GroupsOf(r, d) => d = 3
  BY DEF Plan!GroupsOf
<1>3. \E g \in {0, 1} : w = RecvCall(r, 3, g)
  BY <1>2, CallsPosted DEF Plan!AllCalls
<1>4. \E g \in {0, 1} : c = RecvCall(r, 3, g) \/ c = SendCall(r, 3, g)
  BY <1>2, CallsPosted DEF Plan!AllCalls
<1>5. \A g : /\ At3(RecvCall(r, 3, g), Plan!RecvAt(g, 3))
             /\ At3(SendCall(r, 3, g), Plan!SendAt(g, 3))
  BY DEF RecvCall, SendCall
<1>6. PICK a \in {0, l + 1}, b \in {0, 1, l, l + 1} : At3(w, a) /\ At3(c, b) /\ a # b
  <2>1. PICK g \in {0, 1} : w = RecvCall(r, 3, g)
    BY <1>3
  <2>2. PICK h \in {0, 1} : c = RecvCall(r, 3, h) \/ c = SendCall(r, 3, h)
    BY <1>4
  <2> HIDE DEF l, At3
  <2>3. CASE c = SendCall(r, 3, h)
    <3>1. At3(w, Plan!RecvAt(g, 3)) /\ At3(c, Plan!SendAt(h, 3))
      BY <1>5, <2>1, <2>3
    <3>2. Plan!RecvAt(g, 3) \in {0, l + 1} /\ Plan!SendAt(h, 3) \in {1, l}
      BY <1>1
    <3>3. Plan!RecvAt(g, 3) # Plan!SendAt(h, 3)
      BY <1>1, <3>2
    <3> QED
      BY <3>1, <3>2, <3>3
  <2>4. CASE c = RecvCall(r, 3, h)
    <3>1. At3(w, Plan!RecvAt(g, 3)) /\ At3(c, Plan!RecvAt(h, 3)) /\ g # h
      BY <1>5, <2>1, <2>4
    <3>2. Plan!RecvAt(g, 3) \in {0, l + 1} /\ Plan!RecvAt(h, 3) \in {0, l + 1}
      BY <1>1
    <3>3. Plan!RecvAt(g, 3) # Plan!RecvAt(h, 3)
      BY <1>1, <3>1
    <3> QED
      BY <3>1, <3>2, <3>3
  <2> QED
    BY <2>2, <2>3, <2>4
<1>7. a \in 0 .. Plan!ld[3] - 1 /\ b \in 0 .. Plan!ld[3] - 1
  <2> HIDE DEF l
  <2> QED
    BY <1>1
<1>8. ASSUME NEW v, NEW e \in 0 .. Plan!ld[3] - 1, At3(v, e), i \in Plan!Cells(v)
      PROVE  CellAt(i, Plan!ld)[3] = e
  <2>1. /\ DOMAIN Plan!Buffer(v) = DOMAIN Plan!Plane(3)
        /\ \A k \in DOMAIN Plan!Plane(3) :
             CellAt(Plan!Buffer(v)[k], Plan!ld) = PlaneCell(3, e, k, Plan!ld)
    BY <1>8, BufferAt
  <2>2. PICK k \in DOMAIN Plan!Plane(3) : Plan!Buffer(v)[k] = i
    BY <1>8, <2>1 DEF Plan!Cells
  <2> QED
    BY <2>1, <2>2, PlaneCellAt
<1>9. CellAt(i, Plan!ld)[3] = a /\ CellAt(i, Plan!ld)[3] = b
  <2> HIDE DEF At3
  <2> QED
    BY <1>6, <1>7, <1>8
<1> QED
  BY <1>6, <1>9

\* The receives of a group fill the halo plane next to it.
LEMMA Cover ==
  ASSUME PlanInv
  PROVE  Plan!GroupsCover
<1> SUFFICES ASSUME NEW r \in posted, NEW d \in {1, 2, 3}, NEW g \in Plan!GroupsOf(r, d),
                    NEW i \in 0 .. Plan!ld[1] * Plan!ld[2] * Plan!ld[3] - 1,
                    CellAt(i, Plan!ld)[d] = IF g = 0 THEN local[d] + 1 ELSE 0
             PROVE  \E c \in Plan!CallsOf(r, "recv", g) : i \in Plan!Cells(c)
  BY SameArithmetic DEF Plan!GroupsCover
<1> DEFINE w == Plan!ld
           c == RecvCall(r, d, g)
           a == Plan!RecvAt(g, d)
           e == CellAt(i, w)
<1>1. r \in Plan!Rank /\ g \in {0, 1}
  BY DEF PlanInv, Plan!GroupsOf
<1>2. c \in Plan!CallsOf(r, "recv", g)
  BY <1>1, CallsPosted
<1>3. e[d] = a /\ Solid(w) /\ Sides(w)
  <2>1. Plan!RecvAt(0, d) = local[d] + 1 /\ Plan!RecvAt(1, d) = 0 /\ Solid(w)
    BY PlanePlaces
  <2> QED
    BY <1>1, <2>1 DEF Solid, Sides
<1>4. CellIn(e, w) /\ INDEX(e, w) = i
  BY <1>3, IndexOfCell
<1>5. a \in 0 .. w[d] - 1
  BY <1>3, <1>4 DEF CellIn
<1>6. PICK k \in DOMAIN Plan!Plane(d) : PlaneCell(d, e[d], k, w) = <<e[1], e[2], e[3]>>
  BY <1>3, <1>4, PlaneHas
<1>7. c.dim = d /\ c.base = Plan!Base(d, a)
  BY DEF RecvCall
<1> HIDE DEF w, c, a, e
<1>8. Plan!Buffer(c) = [j \in DOMAIN Plan!Plane(d) |-> Plan!Base(d, a) + Plan!Plane(d)[j]]
  BY <1>7 DEF Plan!Buffer
<1>9. Plan!Buffer(c)[k] = i
  <2>1. INDEX(PlaneCell(d, a, k, w), w) = Plan!Base(d, a) + Plan!Plane(d)[k]
    BY <1>3, <1>5, PlaneAt DEF w
  <2>2. INDEX(<<e[1], e[2], e[3]>>, w) = INDEX(e, w)
    BY DEF INDEX
  <2> QED
    BY <1>3, <1>4, <1>6, <1>8, <2>1, <2>2
<1>10. i \in Plan!Cells(c)
  BY <1>8, <1>9 DEF Plan!Cells
<1> QED
  BY <1>2, <1>10

\* The calls a process has posted are those for its neighbours: the inductive
\* invariant, for every arrangement of the processes and every block.
THEOREM CallsAreForNeighbours == Plan!Spec => []PlanInv
<1>1. ASSUME Plan!Init PROVE PlanInv
  <2>1. PICK run \in Runs : procs = run[1] /\ num = run[2]
    BY <1>1 DEF Plan!Init
  <2>2. /\ num \in [{1, 2, 3} -> Nat \ {0}] /\ local \in [{1, 2, 3} -> Nat \ {0}]
        /\ procs = num[1] * num[2] * num[3]
    BY <1>1, <2>1, SameArithmetic, BlocksAssumption DEF Plan!HaloPlanConstants, Plan!Init
  <2>3. num[1] \in Nat \ {0} /\ num[2] \in Nat \ {0} /\ num[3] \in Nat \ {0}
    BY <2>2
  <2>4. /\ posted = {}
        /\ request = [r \in Plan!Rank |-> [g \in Plan!Group |->
             IF r \in posted THEN Posted(r, g) ELSE << >>]]
    BY <1>1 DEF Plan!Init
  <2> QED
    BY <2>2, <2>3, <2>4 DEF PlanInv, Arranged, Solid
<1>2. ASSUME PlanInv, [Plan!Next]_(Plan!vars) PROVE PlanInv'
  <2>1. CASE UNCHANGED Plan!vars
    <3>1. /\ procs' = procs /\ num' = num /\ local' = local
          /\ posted' = posted /\ request' = request
      BY <2>1 DEF Plan!vars
    <3>2. Arranged' /\ local' \in [{1, 2, 3} -> Nat \ {0}] /\ posted' \subseteq Plan!Rank'
      BY <1>2, <3>1 DEF PlanInv, Arranged, Solid, Plan!Rank
    <3>3. Plan!Rank' = Plan!Rank /\ Plan!Group' = Plan!Group
      BY <3>1 DEF Plan!Rank, Plan!Group
    <3>4. \A q, g : Posted(q, g)' = Posted(q, g)
      BY <3>1 DEF Posted, Plan!Calls, Plan!GroupsOf, Plan!Step, Plan!Base,
        Plan!SendAt, Plan!RecvAt, Plan!ld
    <3>5. request' = [q \in Plan!Rank |-> [g \in Plan!Group |->
            IF q \in posted' THEN Posted(q, g) ELSE << >>]]
      BY <1>2, <3>1 DEF PlanInv
    <3> QED
      BY <3>2, <3>3, <3>4, <3>5 DEF PlanInv
  <2>2. ASSUME NEW r \in Plan!Rank, Plan!Post(r) PROVE PlanInv'
    <3>1. /\ procs' = procs /\ num' = num /\ local' = local
          /\ posted' = posted \cup {r}
          /\ request' = [request EXCEPT ![r] = [g \in Plan!Group |-> Posted(r, g)]]
      BY <2>2 DEF Plan!Post, Posted
    <3>2. Arranged' /\ local' \in [{1, 2, 3} -> Nat \ {0}] /\ posted' \subseteq Plan!Rank
      BY <1>2, <3>1 DEF PlanInv, Arranged, Solid
    <3>3. Plan!Rank' = Plan!Rank /\ Plan!Group' = Plan!Group
      BY <3>1 DEF Plan!Rank, Plan!Group
    <3>4. \A q, g : Posted(q, g)' = Posted(q, g)
      BY <3>1 DEF Posted, Plan!Calls, Plan!GroupsOf, Plan!Step, Plan!Base,
        Plan!SendAt, Plan!RecvAt, Plan!ld
    <3>5. request' = [q \in Plan!Rank |-> [g \in Plan!Group |->
            IF q \in posted' THEN Posted(q, g) ELSE << >>]]
      BY <1>2, <3>1 DEF PlanInv
    <3> QED
      BY <3>2, <3>3, <3>4, <3>5 DEF PlanInv
  <2> QED
    BY <1>2, <2>1, <2>2 DEF Plan!Next
<1> QED
  BY <1>1, <1>2, PTL DEF Plan!Spec

\* Every plane that is sent is received once, into the cells of the same points;
\* request[2][6] is large enough; along z no buffers overlap.
THEOREM PlansAreRight == Plan!Spec => []PlansFit
<1>1. PlanInv => PlansFit
  <2> SUFFICES ASSUME PlanInv PROVE PlansFit
    OBVIOUS
  <2>1. Plan!RequestsFit
    BY CallsPosted DEF Plan!RequestsFit, Plan!Group
  <2> QED
    BY <2>1, Match, Apart DEF PlansFit, Plan!PlansFit
<1> QED
  BY <1>1, CallsAreForNeighbours, PTL

\* The requests of a group cover the halo plane the group releases.
THEOREM GroupsFillHalos == Plan!Spec => []GroupsCover
<1>1. PlanInv => GroupsCover
  BY Cover DEF GroupsCover
<1> QED
  BY <1>1, CallsAreForNeighbours, PTL

-----------------------------------------------------------------------------
(* CheckAnswer.                                                            *)

Inner == (1 .. Lx) \X (1 .. Ly) \X (1 .. Lz)

\* The loops of process r have been through these cells of the row, of the plane
\* and of the block.
RowCells(r) ==
  {c \in Inner : c[3] = at[r][3] /\ c[2] = at[r][2] /\ c[1] < at[r][1]}
PlaneCells(r) == {c \in Inner : c[3] = at[r][3] /\ c[2] < at[r][2]}
BlockCells(r) == {c \in Inner : c[3] < at[r][3]}

\* n are the norms of the errors of process r in the cells of S.
AreNorms(n, r, S) ==
  /\ n \in [inf : {Check!Zero, Check!Small, Check!Big}, number : BOOLEAN]
  /\ n.inf = Check!Big <=> \E c \in S : Check!Err(r, c) = Check!Big
  /\ n.number <=> \A c \in S : Check!Err(r, c) # Check!NaN

\* The cells and errors are those of the blocks.
Errors ==
  /\ DOMAIN odd \subseteq Check!Rank \X Check!Cell
  /\ \A o \in DOMAIN odd : odd[o] \in {Check!Big, Check!NaN}

\* at has cells; the loops begin at 1.
AtCells ==
  /\ at = [r \in Check!Rank |-> <<at[r][1], at[r][2], at[r][3]>>]
  /\ \A r \in Check!Rank :
       at[r][1] \in Nat \ {0} /\ at[r][2] \in Nat \ {0} /\ at[r][3] \in Nat \ {0}

Typed ==
  /\ processes \in [Check!Rank -> {"loops", "reduce", "report", "done"}]
  /\ AtCells
  /\ row \in [Check!Rank -> Check!Norms] /\ plane \in [Check!Rank -> Check!Norms]
  /\ block \in [Check!Rank -> Check!Norms] /\ norm \in [Check!Rank -> Check!Norms]
  /\ printed \in [Check!Rank -> {"nothing", "error", "norms", "nan norms"}]

\* Every process has the norms of the cells it has been through.
Compared(r) ==
  /\ AreNorms(row[r], r, RowCells(r))
  /\ AreNorms(plane[r], r, PlaneCells(r))
  /\ AreNorms(block[r], r, BlockCells(r))
  /\ processes[r] # "loops" => at[r][3] = Lz + 1

\* Some process has an error of class e in its block.
SomeError(e) == \E r \in Check!Rank, c \in Inner : Check!Err(r, c) = e

\* Process 0 has the norms of all, and prints what they say.
Answered ==
  /\ processes[0] \in {"report", "done"} =>
       /\ norm[0].inf \in {Check!Zero, Check!Small, Check!Big}
       /\ norm[0].inf = Check!Big <=> SomeError(Check!Big)
       /\ norm[0].number <=> ~SomeError(Check!NaN)
  /\ processes[0] = "done" =>
       printed[0] = IF SomeError(Check!Big) THEN "error"
                    ELSE IF SomeError(Check!NaN) THEN "nan norms" ELSE "norms"

CheckInv == Errors /\ Typed /\ (\A r \in Check!Rank : Compared(r)) /\ Answered

\* Adding norms joins the cells they are of.
LEMMA AddNorms ==
  ASSUME NEW r, NEW S, NEW T, NEW a, NEW b, AreNorms(a, r, S), AreNorms(b, r, T)
  PROVE  AreNorms(Check!Add(a, b), r, S \cup T)
<1>1. /\ a.inf \in {0, 1, 2} /\ b.inf \in {0, 1, 2}
      /\ a.number \in BOOLEAN /\ b.number \in BOOLEAN
  BY DEF AreNorms, Check!Zero, Check!Small, Check!Big
<1>2. /\ Check!Add(a, b).inf = Check!Keep(a.inf, b.inf)
      /\ Check!Add(a, b).number = (a.number /\ b.number)
      /\ Check!Add(a, b) = [inf |-> Check!Keep(a.inf, b.inf), number |-> a.number /\ b.number]
  BY DEF Check!Add
<1>3. /\ Check!Keep(a.inf, b.inf) \in {0, 1, 2}
      /\ Check!Keep(a.inf, b.inf) = 2 <=> a.inf = 2 \/ b.inf = 2
  BY <1>1 DEF Check!Keep, Check!Less, Check!NaN
<1>4. Check!Keep(a.inf, b.inf) = 2 <=> \E c \in S \cup T : Check!Err(r, c) = 2
  BY <1>3 DEF AreNorms, Check!Big
<1>5. (a.number /\ b.number) <=> \A c \in S \cup T : Check!Err(r, c) # Check!NaN
  BY DEF AreNorms
<1>6. Check!Add(a, b) \in [inf : {0, 1, 2}, number : BOOLEAN]
  BY <1>1, <1>2, <1>3
<1> QED
  BY <1>2, <1>4, <1>5, <1>6 DEF AreNorms, Check!Zero, Check!Small, Check!Big

\* So does an error; one that is not a number does not get into the maximum.
LEMMA AddError ==
  ASSUME NEW r, NEW S, NEW a, NEW c, AreNorms(a, r, S),
         Check!Err(r, c) \in {Check!Small, Check!Big, Check!NaN}
  PROVE  AreNorms(Check!Add(a, Check!NormsOf(Check!Err(r, c))), r, S \cup {c})
<1> DEFINE e == Check!Err(r, c)
           b == Check!NormsOf(e)
<1>1. /\ a.inf \in {0, 1, 2} /\ a.number \in BOOLEAN /\ e \in {1, 2, 3}
  BY DEF AreNorms, Check!Zero, Check!Small, Check!Big, Check!NaN
<1>2. b.inf = e /\ b.number = (e # 3)
  BY DEF Check!NormsOf, Check!NaN
<1> HIDE DEF b
<1>3. /\ Check!Add(a, b).inf = Check!Keep(a.inf, e)
      /\ Check!Add(a, b).number = (a.number /\ e # 3)
      /\ Check!Add(a, b) = [inf |-> Check!Keep(a.inf, e), number |-> a.number /\ e # 3]
  BY <1>2 DEF Check!Add
<1>4. /\ Check!Keep(a.inf, e) \in {0, 1, 2}
      /\ Check!Keep(a.inf, e) = 2 <=> a.inf = 2 \/ e = 2
  <2> HIDE DEF e
  <2> QED
    BY <1>1 DEF Check!Keep, Check!Less, Check!NaN
<1>5. Check!Keep(a.inf, e) = 2 <=> \E x \in S \cup {c} : Check!Err(r, x) = 2
  BY <1>4 DEF AreNorms, Check!Big
<1>6. (a.number /\ e # 3) <=> \A x \in S \cup {c} : Check!Err(r, x) # Check!NaN
  BY DEF AreNorms, Check!NaN
<1>7. Check!Add(a, b) \in [inf : {0, 1, 2}, number : BOOLEAN]
  BY <1>1, <1>3, <1>4
<1> QED
  BY <1>3, <1>5, <1>6, <1>7 DEF AreNorms, Check!Zero, Check!Small, Check!Big, b

\* No cells, no norms.
LEMMA NoCells == \A r : AreNorms(Check!NoNorms, r, {})
  BY DEF AreNorms, Check!NoNorms, Check!Zero, Check!Small, Check!Big

\* Every error is of one of three classes.
LEMMA Classes ==
  ASSUME Errors, NEW r, NEW c
  PROVE  Check!Err(r, c) \in {Check!Small, Check!Big, Check!NaN}
  BY DEF Errors, Check!Err

-----------------------------------------------------------------------------
(* The loops.                                                              *)

\* A step of one process through the cells.
LEMMA NextCell ==
  ASSUME AtCells, NEW r \in Check!Rank, NEW a \in Nat \ {0}, NEW b \in Nat \ {0},
         NEW c \in Nat \ {0}, at' = [at EXCEPT ![r] = <<a, b, c>>]
  PROVE  AtCells'
<1>1. /\ at' = [q \in Check!Rank |-> at'[q]] /\ at'[r] = <<a, b, c>>
      /\ \A q \in Check!Rank \ {r} : at'[q] = at[q]
  BY DEF AtCells
<1>2. \A q \in Check!Rank : at[q] = <<at[q][1], at[q][2], at[q][3]>>
  BY DEF AtCells
<1>3. \A q \in Check!Rank : at'[q] = <<at'[q][1], at'[q][2], at'[q][3]>>
  BY <1>1, <1>2
<1>4. \A q \in Check!Rank :
        at'[q][1] \in Nat \ {0} /\ at'[q][2] \in Nat \ {0} /\ at'[q][3] \in Nat \ {0}
  BY <1>1 DEF AtCells
<1>5. at' = [q \in Check!Rank |-> <<at'[q][1], at'[q][2], at'[q][3]>>]
  BY <1>1, <1>3
<1>6. Check!Rank' = Check!Rank
  BY DEF Check!Rank
<1> QED
  BY <1>4, <1>5, <1>6 DEF AtCells

\* What a step of process r does to Compared: to the norms and cells of r alone.
LEMMA OneCompares ==
  ASSUME Errors, Typed, \A q \in Check!Rank : Compared(q), NEW r \in Check!Rank,
         odd' = odd, \A q \in Check!Rank \ {r} :
           /\ at'[q] = at[q] /\ row'[q] = row[q] /\ plane'[q] = plane[q]
           /\ block'[q] = block[q] /\ processes'[q] = processes[q],
         AreNorms(row'[r], r, RowCells(r)'), AreNorms(plane'[r], r, PlaneCells(r)'),
         AreNorms(block'[r], r, BlockCells(r)'),
         processes'[r] # "loops" => at'[r][3] = Lz + 1
  PROVE  \A q \in Check!Rank : Compared(q)'
<1> SUFFICES ASSUME NEW q \in Check!Rank PROVE Compared(q)'
  OBVIOUS
<1>1. /\ AreNorms(row[q], q, RowCells(q))' <=> AreNorms(row'[q], q, RowCells(q)')
      /\ AreNorms(plane[q], q, PlaneCells(q))' <=> AreNorms(plane'[q], q, PlaneCells(q)')
      /\ AreNorms(block[q], q, BlockCells(q))' <=> AreNorms(block'[q], q, BlockCells(q)')
  BY DEF AreNorms, Check!Err, Check!Big, Check!NaN, Check!Zero, Check!Small
<1>2. CASE q = r
  BY <1>1, <1>2 DEF Compared
<1>3. CASE q # r
  <2>1. /\ at'[q] = at[q] /\ row'[q] = row[q] /\ plane'[q] = plane[q]
        /\ block'[q] = block[q] /\ processes'[q] = processes[q]
    BY <1>3
  <2>2. RowCells(q)' = RowCells(q) /\ PlaneCells(q)' = PlaneCells(q)
        /\ BlockCells(q)' = BlockCells(q)
    BY <2>1 DEF RowCells, PlaneCells, BlockCells, Inner
  <2> QED
    BY <1>1, <2>1, <2>2 DEF Compared
<1> QED
  BY <1>2, <1>3

\* The loop over x: one cell more of the row.
LEMMA ElementStep ==
  ASSUME CheckInv, NEW r \in Check!Rank, Check!Element(r)
  PROVE  Typed' /\ \A q \in Check!Rank : Compared(q)'
<1> DEFINE x == at[r][1]
           y1 == at[r][2]
           z1 == at[r][3]
           n == Check!Add(row[r], Check!NormsOf(Check!Err(r, at[r])))
<1>1. at[r] = <<x, y1, z1>> /\ x \in Nat \ {0} /\ y1 \in Nat \ {0} /\ z1 \in Nat \ {0}
  BY DEF CheckInv, Typed, AtCells
<1>2. /\ x <= Lx /\ y1 <= Ly /\ z1 <= Lz /\ odd' = odd /\ processes' = processes
      /\ plane' = plane /\ block' = block /\ norm' = norm /\ printed' = printed
      /\ row' = [row EXCEPT ![r] = n] /\ at' = [at EXCEPT ![r] = <<x + 1, y1, z1>>]
      /\ processes[r] = "loops"
  BY DEF Check!Element
<1>5. at'[r] = <<x + 1, y1, z1>> /\ row'[r] = n
  BY <1>2 DEF CheckInv, Typed, AtCells
<1>6. AreNorms(n, r, RowCells(r) \cup {at[r]})
  BY AddError, Classes DEF CheckInv, Compared
<1> HIDE DEF x, y1, z1, n
<1>7. RowCells(r)' = RowCells(r) \cup {at[r]}
  <2>1. at[r] \in Inner
    BY <1>1, <1>2, BlocksAssumption DEF Inner, Check!CheckAnswerConstants
  <2>2. \A c \in Inner : c = <<c[1], c[2], c[3]>> /\ c[1] \in Int
    BY DEF Inner
  <2>3. \A c \in Inner : c[3] = z1 /\ c[2] = y1 /\ c[1] < x + 1
                        <=> (c[3] = z1 /\ c[2] = y1 /\ c[1] < x) \/ c = at[r]
    BY <1>1, <2>2
  <2>4. RowCells(r) = {c \in Inner : c[3] = z1 /\ c[2] = y1 /\ c[1] < x}
    BY DEF RowCells, x, y1, z1
  <2>5. RowCells(r)' = {c \in Inner : c[3] = z1 /\ c[2] = y1 /\ c[1] < x + 1}
    BY <1>5 DEF RowCells, Inner
  <2> QED
    BY <2>1, <2>3, <2>4, <2>5
<1>8. PlaneCells(r)' = PlaneCells(r) /\ BlockCells(r)' = BlockCells(r)
  BY <1>1, <1>5 DEF PlaneCells, BlockCells, Inner, x, y1, z1
<1>9. n \in Check!Norms
  BY <1>6 DEF AreNorms, Check!Norms, Check!Error
<1>10. Typed'
  <2>1. AtCells'
    <3>1. x + 1 \in Nat \ {0} /\ y1 \in Nat \ {0} /\ z1 \in Nat \ {0}
      BY <1>1
    <3>2. AtCells
      BY DEF CheckInv, Typed
    <3> QED
      BY <1>2, <3>1, <3>2, NextCell
  <2>2. row' \in [Check!Rank -> Check!Norms]
    BY <1>2, <1>9 DEF CheckInv, Typed
  <2> QED
    BY <1>2, <2>1, <2>2 DEF CheckInv, Typed, Check!Rank, Check!Norms, Check!Error,
                            Check!Zero, Check!Small, Check!Big, Check!NaN
<1>11. \A q \in Check!Rank \ {r} :
         /\ at'[q] = at[q] /\ row'[q] = row[q] /\ plane'[q] = plane[q]
         /\ block'[q] = block[q] /\ processes'[q] = processes[q]
  BY <1>2 DEF CheckInv, Typed, AtCells
<1>12. AreNorms(plane'[r], r, PlaneCells(r)') /\ AreNorms(block'[r], r, BlockCells(r)')
  BY <1>2, <1>8 DEF CheckInv, Compared
<1> QED
  BY <1>2, <1>5, <1>6, <1>7, <1>10, <1>11, <1>12, OneCompares DEF CheckInv

\* The row is through and added to the plane.
LEMMA RowStep ==
  ASSUME CheckInv, NEW r \in Check!Rank, Check!EndRow(r)
  PROVE  Typed' /\ \A q \in Check!Rank : Compared(q)'
<1> DEFINE y1 == at[r][2]
           z1 == at[r][3]
           n == Check!Add(plane[r], row[r])
<1>1. at[r][1] = Lx + 1 /\ y1 \in Nat \ {0} /\ z1 \in Nat \ {0}
  BY DEF CheckInv, Typed, AtCells, Check!EndRow
<1>2. /\ odd' = odd /\ processes' = processes /\ block' = block /\ norm' = norm
      /\ printed' = printed /\ plane' = [plane EXCEPT ![r] = n]
      /\ row' = [row EXCEPT ![r] = Check!NoNorms]
      /\ at' = [at EXCEPT ![r] = <<1, y1 + 1, z1>>] /\ processes[r] = "loops"
  BY DEF Check!EndRow
<1>3. at'[r] = <<1, y1 + 1, z1>> /\ plane'[r] = n /\ row'[r] = Check!NoNorms
  BY <1>2 DEF CheckInv, Typed, AtCells
<1>4. AreNorms(n, r, PlaneCells(r) \cup RowCells(r))
  BY AddNorms DEF CheckInv, Compared
<1> HIDE DEF y1, z1, n
<1>5. PlaneCells(r)' = PlaneCells(r) \cup RowCells(r)
  <2>1. \A c \in Inner : c[1] < Lx + 1 /\ c[2] \in Int
    BY BlocksAssumption DEF Inner, Check!CheckAnswerConstants
  <2>2. \A c \in Inner : c[3] = z1 /\ c[2] < y1 + 1
                        <=> \/ c[3] = z1 /\ c[2] < y1
                            \/ c[3] = z1 /\ c[2] = y1 /\ c[1] < Lx + 1
    BY <1>1, <2>1
  <2>3. /\ PlaneCells(r) = {c \in Inner : c[3] = z1 /\ c[2] < y1}
        /\ RowCells(r) = {c \in Inner : c[3] = z1 /\ c[2] = y1 /\ c[1] < Lx + 1}
    BY <1>1 DEF PlaneCells, RowCells, y1, z1
  <2>4. PlaneCells(r)' = {c \in Inner : c[3] = z1 /\ c[2] < y1 + 1}
    BY <1>3 DEF PlaneCells, Inner
  <2> QED
    BY <2>2, <2>3, <2>4
<1>6. RowCells(r)' = {}
  BY <1>3 DEF RowCells, Inner
<1>7. BlockCells(r)' = BlockCells(r)
  BY <1>3 DEF BlockCells, Inner, z1
<1>8. n \in Check!Norms /\ Check!NoNorms \in Check!Norms
  BY <1>4, NoCells DEF AreNorms, Check!Norms, Check!Error
<1>9. Typed'
  <2>1. AtCells'
    <3>1. 1 \in Nat \ {0} /\ y1 + 1 \in Nat \ {0} /\ z1 \in Nat \ {0}
      BY <1>1
    <3>2. AtCells
      BY DEF CheckInv, Typed
    <3> QED
      BY <1>2, <3>1, <3>2, NextCell
  <2>2. row' \in [Check!Rank -> Check!Norms] /\ plane' \in [Check!Rank -> Check!Norms]
    BY <1>2, <1>8 DEF CheckInv, Typed
  <2> QED
    BY <1>2, <2>1, <2>2 DEF CheckInv, Typed, Check!Rank, Check!Norms, Check!Error,
                            Check!Zero, Check!Small, Check!Big, Check!NaN
<1>10. \A q \in Check!Rank \ {r} :
         /\ at'[q] = at[q] /\ row'[q] = row[q] /\ plane'[q] = plane[q]
         /\ block'[q] = block[q] /\ processes'[q] = processes[q]
  BY <1>2 DEF CheckInv, Typed, AtCells
<1>11. AreNorms(row'[r], r, RowCells(r)') /\ AreNorms(block'[r], r, BlockCells(r)')
  BY <1>2, <1>3, <1>6, <1>7, NoCells DEF CheckInv, Compared
<1> QED
  BY <1>2, <1>3, <1>4, <1>5, <1>9, <1>10, <1>11, OneCompares DEF CheckInv
\* The plane is through and added to the block.
LEMMA PlaneStep ==
  ASSUME CheckInv, NEW r \in Check!Rank, Check!EndPlane(r)
  PROVE  Typed' /\ \A q \in Check!Rank : Compared(q)'
<1> DEFINE z1 == at[r][3]
           n == Check!Add(block[r], plane[r])
<1>1. at[r][2] = Ly + 1 /\ z1 \in Nat \ {0}
  BY DEF CheckInv, Typed, AtCells, Check!EndPlane
<1>2. /\ odd' = odd /\ processes' = processes /\ row' = row /\ norm' = norm
      /\ printed' = printed /\ block' = [block EXCEPT ![r] = n]
      /\ plane' = [plane EXCEPT ![r] = Check!NoNorms]
      /\ at' = [at EXCEPT ![r] = <<1, 1, z1 + 1>>] /\ processes[r] = "loops"
  BY DEF Check!EndPlane
<1>3. at'[r] = <<1, 1, z1 + 1>> /\ block'[r] = n /\ plane'[r] = Check!NoNorms
  BY <1>2 DEF CheckInv, Typed, AtCells
<1>4. AreNorms(n, r, BlockCells(r) \cup PlaneCells(r))
  BY AddNorms DEF CheckInv, Compared
<1> HIDE DEF z1, n
<1>5. \A c \in Inner : c[2] < Ly + 1 /\ c[2] # Ly + 1 /\ c[3] \in Int /\ ~(c[2] < 1)
  BY BlocksAssumption DEF Inner, Check!CheckAnswerConstants
<1>6. BlockCells(r)' = BlockCells(r) \cup PlaneCells(r)
  <2>1. \A c \in Inner : c[3] < z1 + 1 <=> c[3] < z1 \/ (c[3] = z1 /\ c[2] < Ly + 1)
    BY <1>1, <1>5
  <2>2. /\ BlockCells(r) = {c \in Inner : c[3] < z1}
        /\ PlaneCells(r) = {c \in Inner : c[3] = z1 /\ c[2] < Ly + 1}
    BY <1>1 DEF BlockCells, PlaneCells, z1
  <2>3. BlockCells(r)' = {c \in Inner : c[3] < z1 + 1}
    BY <1>3 DEF BlockCells, Inner
  <2>4. \A c : c \in BlockCells(r)' <=> c \in Inner /\ c[3] < z1 + 1
    BY <2>3
  <2>5. \A c : c \in BlockCells(r) <=> c \in Inner /\ c[3] < z1
    BY <2>2
  <2>6. \A c : c \in PlaneCells(r) <=> c \in Inner /\ c[3] = z1 /\ c[2] < Ly + 1
    BY <2>2
  <2>7. \A c : c \in BlockCells(r)' <=> c \in BlockCells(r) \/ c \in PlaneCells(r)
    <3> SUFFICES ASSUME NEW c
                 PROVE  c \in BlockCells(r)' <=> c \in BlockCells(r) \/ c \in PlaneCells(r)
      OBVIOUS
    <3>1. c \in Inner => c[2] < Ly + 1
      BY <1>5
    <3>2. c \in Inner => (c[3] < z1 + 1 <=> c[3] < z1 \/ c[3] = z1)
      BY <2>1, <3>1
    <3> QED
      BY <2>4, <2>5, <2>6, <3>1, <3>2, Zenon
  <2> QED
    BY <2>7
<1>7. RowCells(r) = {}
  BY <1>1, <1>5 DEF RowCells
<1>8. RowCells(r)' = {} /\ PlaneCells(r)' = {}
  BY <1>3 DEF RowCells, PlaneCells, Inner
<1>9. n \in Check!Norms /\ Check!NoNorms \in Check!Norms
  BY <1>4, NoCells DEF AreNorms, Check!Norms, Check!Error
<1>10. Typed'
  <2>1. AtCells'
    <3>1. 1 \in Nat \ {0} /\ z1 + 1 \in Nat \ {0}
      BY <1>1
    <3>2. AtCells
      BY DEF CheckInv, Typed
    <3> QED
      BY <1>2, <3>1, <3>2, NextCell
  <2>2. block' \in [Check!Rank -> Check!Norms] /\ plane' \in [Check!Rank -> Check!Norms]
    BY <1>2, <1>9 DEF CheckInv, Typed
  <2> QED
    BY <1>2, <2>1, <2>2 DEF CheckInv, Typed, Check!Rank, Check!Norms, Check!Error,
                            Check!Zero, Check!Small, Check!Big, Check!NaN
<1>11. \A q \in Check!Rank \ {r} :
         /\ at'[q] = at[q] /\ row'[q] = row[q] /\ plane'[q] = plane[q]
         /\ block'[q] = block[q] /\ processes'[q] = processes[q]
  BY <1>2 DEF CheckInv, Typed, AtCells
<1>12. AreNorms(row'[r], r, RowCells(r)') /\ AreNorms(plane'[r], r, PlaneCells(r)')
  BY <1>2, <1>3, <1>7, <1>8, NoCells DEF CheckInv, Compared
<1> QED
  BY <1>2, <1>3, <1>4, <1>6, <1>10, <1>11, <1>12, OneCompares DEF CheckInv

\* A step that leaves the sums alone; a process that leaves the loops has been
\* through all planes.
LEMMA SumsStay ==
  ASSUME CheckInv, NEW r \in Check!Rank, NEW to \in {"reduce", "report", "done"},
         odd' = odd, at' = at, row' = row, plane' = plane, block' = block,
         processes' = [processes EXCEPT ![r] = to],
         norm' \in [Check!Rank -> Check!Norms],
         printed' \in [Check!Rank -> {"nothing", "error", "norms", "nan norms"}],
         at[r][3] = Lz + 1
  PROVE  Typed' /\ \A q \in Check!Rank : Compared(q)'
<1>1. processes' \in [Check!Rank -> {"loops", "reduce", "report", "done"}]
  BY DEF CheckInv, Typed
<1>2. Typed'
  <2>1. AtCells'
    BY DEF CheckInv, Typed, AtCells, Check!Rank
  <2>2. Check!Rank' = Check!Rank /\ Check!Norms' = Check!Norms
    BY DEF Check!Rank, Check!Norms, Check!Error, Check!Zero, Check!Small, Check!Big, Check!NaN
  <2> QED
    BY <1>1, <2>1, <2>2 DEF CheckInv, Typed
<1>3. \A q \in Check!Rank \ {r} : processes'[q] = processes[q]
  BY DEF CheckInv, Typed
<1>4. RowCells(r)' = RowCells(r) /\ PlaneCells(r)' = PlaneCells(r)
      /\ BlockCells(r)' = BlockCells(r)
  BY DEF RowCells, PlaneCells, BlockCells, Inner
<1> QED
  BY <1>2, <1>3, <1>4, OneCompares DEF CheckInv, Compared
-----------------------------------------------------------------------------
(* The answer.                                                             *)

\* A block that is through has been through all its cells.
LEMMA AllCells ==
  ASSUME NEW r, at[r][3] = Lz + 1 PROVE BlockCells(r) = Inner
<1>1. \A c \in Inner : c[3] < Lz + 1
  BY BlocksAssumption DEF Inner, Check!CheckAnswerConstants
<1> QED
  BY <1>1 DEF BlockCells

\* MPI_MAX and MPI_SUM of the norms of all blocks are norms of the grid.
LEMMA ReducedIsAnswer ==
  ASSUME CheckInv, \A s \in Check!Rank : processes[s] # "loops"
  PROVE  /\ Check!Reduced \in [inf : {Check!Zero, Check!Small, Check!Big}, number : BOOLEAN]
         /\ Check!Reduced.inf = Check!Big <=> SomeError(Check!Big)
         /\ Check!Reduced.number <=> ~SomeError(Check!NaN)
<1> DEFINE of(s) == block[s].inf
           S == {of(s) : s \in Check!Rank}
           m == CHOOSE m \in S : \A s \in Check!Rank : ~Check!Less(m, of(s))
<1>1. \A s \in Check!Rank : AreNorms(block[s], s, Inner)
  BY AllCells DEF CheckInv, Compared
<1>2. \A s \in Check!Rank : of(s) \in {0, 1, 2}
  BY <1>1 DEF AreNorms, Check!Zero, Check!Small, Check!Big
<1>3. 0 \in Check!Rank
  BY BlocksAssumption DEF Check!CheckAnswerConstants, Check!Rank
<1>4. \A a, b \in {0, 1, 2} : Check!Less(a, b) <=> a < b
  BY DEF Check!Less, Check!NaN
<1>5. Check!Reduced = [inf |-> m, number |-> \A s \in Check!Rank : block[s].number]
  BY DEF Check!Reduced
<1> HIDE DEF of
<1>6. \E k \in S : \A s \in Check!Rank : ~Check!Less(k, of(s))
  <2>1. CASE 2 \in S
    BY <1>2, <1>4, <2>1
  <2>2. CASE 2 \notin S /\ 1 \in S
    BY <1>2, <1>4, <2>2
  <2>3. CASE 2 \notin S /\ 1 \notin S
    <3>1. \A s \in Check!Rank : of(s) = 0
      BY <1>2, <2>3
    <3> QED
      BY <1>3, <1>4, <3>1
  <2> QED
    BY <2>1, <2>2, <2>3
<1>7. m \in S /\ \A s \in Check!Rank : ~Check!Less(m, of(s))
  BY <1>6
<1> HIDE DEF m
<1>8. m \in {0, 1, 2} /\ (m = 2 <=> \E s \in Check!Rank : of(s) = 2)
  BY <1>2, <1>4, <1>7
<1>9. m = Check!Big <=> SomeError(Check!Big)
  <2>1. \A s \in Check!Rank : of(s) = 2 <=> \E c \in Inner : Check!Err(s, c) = Check!Big
    BY <1>1 DEF AreNorms, of, Check!Big
  <2> QED
    BY <1>8, <2>1 DEF SomeError, Check!Big
<1>10. (\A s \in Check!Rank : block[s].number) <=> ~SomeError(Check!NaN)
  BY <1>1 DEF AreNorms, SomeError
<1> QED
  BY <1>5, <1>8, <1>9, <1>10 DEF Check!Zero, Check!Small, Check!Big

\* Errors of the answer are errors of a block.
LEMMA SameErrors ==
  ASSUME Errors, NEW e \in {Check!Big, Check!NaN}
  PROVE  Check!AnswerHas(e) <=> SomeError(e)
<1>1. e # Check!Small
  BY DEF Check!Big, Check!NaN, Check!Small
<1>2. ASSUME Check!AnswerHas(e) PROVE SomeError(e)
  <2>1. PICK o \in DOMAIN odd : odd[o] = e /\ o[2] \in Inner
    BY <1>2 DEF Check!AnswerHas, Inner
  <2>2. o = <<o[1], o[2]>> /\ o[1] \in Check!Rank
    BY <2>1 DEF Errors
  <2> QED
    BY <2>1, <2>2 DEF SomeError, Check!Err
<1>3. ASSUME SomeError(e) PROVE Check!AnswerHas(e)
  <2>1. PICK r \in Check!Rank, c \in Inner : Check!Err(r, c) = e
    BY <1>3 DEF SomeError
  <2>2. <<r, c>> \in DOMAIN odd /\ odd[<<r, c>>] = e
    BY <1>1, <2>1 DEF Check!Err
  <2>3. <<r, c>>[2] \in Inner
    BY <2>1
  <2> QED
    BY <2>2, <2>3 DEF Check!AnswerHas, Inner
<1> QED
  BY <1>2, <1>3
-----------------------------------------------------------------------------
(* The steps.                                                              *)

LEMMA RootIsRank == 0 \in Check!Rank
  BY BlocksAssumption DEF Check!CheckAnswerConstants, Check!Rank

LEMMA CheckInit == ASSUME Check!Init PROVE CheckInv
<1>1. Check!Rank # {} /\ 0 \in Check!Rank /\ OddSets \subseteq SUBSET (Check!Rank \X Check!Cell)
  BY BlocksAssumption DEF Check!CheckAnswerConstants, Check!Rank
<1>2. Errors
  <2>1. PICK C \in OddSets : odd \in [C -> {Check!Big, Check!NaN}]
    BY DEF Check!Init
  <2>2. C \subseteq Check!Rank \X Check!Cell
    BY <1>1, <2>1
  <2> QED
    BY <2>1, <2>2 DEF Errors
<1>3. Check!NoNorms \in Check!Norms
  BY DEF Check!NoNorms, Check!Norms, Check!Error, Check!Zero
<1>4. /\ at = [r \in Check!Rank |-> <<1, 1, 1>>]
      /\ processes = [r \in Check!Rank |-> "loops"]
      /\ row = [r \in Check!Rank |-> Check!NoNorms]
      /\ plane = [r \in Check!Rank |-> Check!NoNorms]
      /\ block = [r \in Check!Rank |-> Check!NoNorms]
      /\ norm = [r \in Check!Rank |-> Check!NoNorms]
      /\ printed = [r \in Check!Rank |-> "nothing"]
  BY DEF Check!Init
<1>5. \A r \in Check!Rank : at[r] = <<1, 1, 1>>
  BY <1>4
<1>6. AtCells
  <2>1. \A r \in Check!Rank : <<at[r][1], at[r][2], at[r][3]>> = <<1, 1, 1>>
    BY <1>5
  <2> QED
    BY <1>4, <1>5, <2>1 DEF AtCells
<1>7. Typed
  BY <1>3, <1>4, <1>6 DEF Typed
<1>8. \A r \in Check!Rank : RowCells(r) = {} /\ PlaneCells(r) = {} /\ BlockCells(r) = {}
  <2>1. \A c \in Inner : ~(c[1] < 1) /\ ~(c[2] < 1) /\ ~(c[3] < 1)
    BY BlocksAssumption DEF Inner, Check!CheckAnswerConstants
  <2> QED
    BY <1>5, <2>1 DEF RowCells, PlaneCells, BlockCells
<1>9. \A r \in Check!Rank : Compared(r)
  BY <1>4, <1>8, NoCells DEF Compared
<1>10. Answered
  BY <1>1, <1>4 DEF Answered
<1> QED
  BY <1>2, <1>7, <1>9, <1>10 DEF CheckInv

\* What does not concern process 0, or leaves it before the answer.
LEMMA NoAnswerYet ==
  ASSUME CheckInv, odd' = odd, norm'[0] = norm[0], printed'[0] = printed[0],
         \/ processes'[0] = processes[0]
         \/ processes'[0] = "reduce"
  PROVE  Answered'
<1>1. /\ SomeError(Check!Big)' <=> SomeError(Check!Big)
      /\ SomeError(Check!NaN)' <=> SomeError(Check!NaN)
  BY DEF SomeError, Check!Err, Check!Rank, Inner, Check!Small, Check!Big, Check!NaN
<1> QED
  BY <1>1 DEF CheckInv, Answered, Check!Big, Check!Zero, Check!Small
LEMMA ReduceStep ==
  ASSUME CheckInv, NEW r \in Check!Rank, Check!Reduce(r)
  PROVE  CheckInv'
<1>1. /\ odd' = odd /\ at' = at /\ row' = row /\ plane' = plane /\ block' = block
      /\ printed' = printed /\ processes[r] = "reduce"
      /\ processes' = [processes EXCEPT ![r] = "report"]
      /\ r = 0 => \A s \in Check!Rank : processes[s] # "loops"
  BY DEF Check!Reduce, Check!sums
<1>2. PICK n \in IF r = 0 THEN {Check!Reduced} ELSE [inf : Check!Error, number : {TRUE}] :
        norm' = [norm EXCEPT ![r] = n]
  BY DEF Check!Reduce
<1>3. n \in Check!Norms
  <2>1. CASE r = 0
    <3>1. Check!Reduced \in [inf : {Check!Zero, Check!Small, Check!Big}, number : BOOLEAN]
      BY <1>1, <2>1, ReducedIsAnswer
    <3> QED
      BY <1>2, <2>1, <3>1 DEF Check!Norms, Check!Error
  <2>2. CASE r # 0
    BY <1>2, <2>2 DEF Check!Norms
  <2> QED
    BY <2>1, <2>2
<1>4. norm' \in [Check!Rank -> Check!Norms] /\ norm'[r] = n
  BY <1>2, <1>3 DEF CheckInv, Typed
<1>5. at[r][3] = Lz + 1
  BY <1>1 DEF CheckInv, Compared
<1>6. Typed' /\ \A q \in Check!Rank : Compared(q)'
  BY <1>1, <1>4, <1>5, SumsStay DEF CheckInv, Typed
<1>7. Errors'
  BY <1>1 DEF CheckInv, Errors, Check!Rank, Check!Cell, Check!Big, Check!NaN
<1>8. Answered'
  <2>1. CASE r = 0
    <3>1. n = Check!Reduced
      BY <1>2, <2>1
    <3>2. /\ n.inf \in {Check!Zero, Check!Small, Check!Big}
          /\ n.inf = Check!Big <=> SomeError(Check!Big)
          /\ n.number <=> ~SomeError(Check!NaN)
      BY <1>1, <2>1, <3>1, ReducedIsAnswer
    <3>3. /\ SomeError(Check!Big)' <=> SomeError(Check!Big)
          /\ SomeError(Check!NaN)' <=> SomeError(Check!NaN)
      BY <1>1 DEF SomeError, Check!Err, Check!Rank, Inner, Check!Small, Check!Big, Check!NaN
    <3>4. processes'[0] = "report"
      BY <1>1, <2>1 DEF CheckInv, Typed
    <3> QED
      BY <1>4, <2>1, <3>2, <3>3, <3>4 DEF Answered, Check!Zero, Check!Small, Check!Big
  <2>2. CASE r # 0
    <3>1. processes'[0] = processes[0] /\ norm'[0] = norm[0]
      BY <1>1, <1>2, <2>2, RootIsRank DEF CheckInv, Typed
    <3> QED
      BY <1>1, <3>1, NoAnswerYet
  <2> QED
    BY <2>1, <2>2
<1> QED
  BY <1>6, <1>7, <1>8 DEF CheckInv, Check!Rank

LEMMA ReportStep ==
  ASSUME CheckInv, NEW r \in Check!Rank, Check!Report(r)
  PROVE  CheckInv'
<1> DEFINE what == IF Check!Less(Check!Small, norm[r].inf) THEN "error"
                   ELSE IF r # 0 THEN "nothing"
                   ELSE IF norm[r].number THEN "norms" ELSE "nan norms"
<1>1. /\ odd' = odd /\ at' = at /\ row' = row /\ plane' = plane /\ block' = block
      /\ norm' = norm /\ processes[r] = "report"
      /\ processes' = [processes EXCEPT ![r] = "done"]
      /\ printed' = [printed EXCEPT ![r] = what]
  BY DEF Check!Report, Check!sums
<1>2. what \in {"nothing", "error", "norms", "nan norms"}
  OBVIOUS
<1>3. Answered'
  <2>1. CASE r = 0
    <3>1. /\ norm[0].inf \in {Check!Zero, Check!Small, Check!Big}
          /\ norm[0].inf = Check!Big <=> SomeError(Check!Big)
          /\ norm[0].number <=> ~SomeError(Check!NaN)
      BY <1>1, <2>1 DEF CheckInv, Answered
    <3>2. Check!Less(Check!Small, norm[0].inf) <=> SomeError(Check!Big)
      BY <3>1 DEF Check!Less, Check!Zero, Check!Small, Check!Big, Check!NaN
    <3>3. what = IF SomeError(Check!Big) THEN "error"
                 ELSE IF SomeError(Check!NaN) THEN "nan norms" ELSE "norms"
      BY <2>1, <3>1, <3>2
    <3> HIDE DEF what
    <3>4. processes'[0] = "done" /\ printed'[0] = what
      BY <1>1, <2>1 DEF CheckInv, Typed
    <3>5. /\ SomeError(Check!Big)' <=> SomeError(Check!Big)
          /\ SomeError(Check!NaN)' <=> SomeError(Check!NaN)
      BY <1>1 DEF SomeError, Check!Err, Check!Rank, Inner, Check!Small, Check!Big, Check!NaN
    <3> QED
      BY <1>1, <3>1, <3>3, <3>4, <3>5 DEF Answered, Check!Zero, Check!Small, Check!Big
  <2>2. CASE r # 0
    <3>1. processes'[0] = processes[0] /\ printed'[0] = printed[0]
      BY <1>1, <2>2, RootIsRank DEF CheckInv, Typed
    <3> QED
      BY <1>1, <3>1, NoAnswerYet
  <2> QED
    BY <2>1, <2>2
<1> HIDE DEF what
<1>4. printed' \in [Check!Rank -> {"nothing", "error", "norms", "nan norms"}]
  BY <1>1, <1>2 DEF CheckInv, Typed
<1>5. at[r][3] = Lz + 1
  BY <1>1 DEF CheckInv, Compared
<1>6. Typed' /\ \A q \in Check!Rank : Compared(q)'
  BY <1>1, <1>4, <1>5, SumsStay DEF CheckInv, Typed
<1>7. Errors'
  BY <1>1 DEF CheckInv, Errors, Check!Rank, Check!Cell, Check!Big, Check!NaN
<1> QED
  BY <1>3, <1>6, <1>7 DEF CheckInv, Check!Rank
LEMMA CompareStep ==
  ASSUME CheckInv, NEW r \in Check!Rank, Check!Compare(r)
  PROVE  CheckInv'
<1>1. /\ odd' = odd /\ norm' = norm /\ printed' = printed
      /\ processes' = processes \/ processes' = [processes EXCEPT ![r] = "reduce"]
  BY DEF Check!Compare, Check!Element, Check!EndRow, Check!EndPlane, Check!EndBlock
<1>2. Typed' /\ \A q \in Check!Rank : Compared(q)'
  <2>1. CASE Check!EndBlock(r)
    <3>1. /\ at' = at /\ row' = row /\ plane' = plane /\ block' = block
          /\ processes' = [processes EXCEPT ![r] = "reduce"] /\ at[r][3] = Lz + 1
      BY <2>1 DEF Check!EndBlock, Check!sums
    <3> QED
      BY <1>1, <3>1, SumsStay DEF CheckInv, Typed
  <2> QED
    BY <2>1, ElementStep, RowStep, PlaneStep DEF Check!Compare
<1>3. Errors'
  BY <1>1 DEF CheckInv, Errors, Check!Rank, Check!Cell, Check!Big, Check!NaN
<1>4. processes'[0] = processes[0] \/ processes'[0] = "reduce"
  BY <1>1, RootIsRank DEF CheckInv, Typed
<1>5. Answered'
  BY <1>1, <1>4, NoAnswerYet
<1> QED
  BY <1>2, <1>3, <1>5 DEF CheckInv, Check!Rank

\* The norms are those of the cells the loops have been through, and the norms
\* of process 0 those of all blocks.
THEOREM NormsAreOfErrors == Check!Spec => []CheckInv
<1>1. ASSUME CheckInv, [Check!Next]_(Check!vars) PROVE CheckInv'
  <2>1. CASE UNCHANGED Check!vars
    <3>1. /\ odd' = odd /\ processes' = processes /\ at' = at /\ row' = row
          /\ plane' = plane /\ block' = block /\ norm' = norm /\ printed' = printed
      BY <2>1 DEF Check!vars, Check!sums
    <3>2. Typed' /\ Errors'
      BY <1>1, <3>1 DEF CheckInv, Typed, AtCells, Errors, Check!Rank, Check!Norms, Check!Cell,
                        Check!Error, Check!Zero, Check!Small, Check!Big, Check!NaN
    <3>3. \A r \in Check!Rank : Compared(r)'
      <4> SUFFICES ASSUME NEW r \in Check!Rank PROVE Compared(r)'
        OBVIOUS
      <4>1. RowCells(r)' = RowCells(r) /\ PlaneCells(r)' = PlaneCells(r)
            /\ BlockCells(r)' = BlockCells(r)
        BY <3>1 DEF RowCells, PlaneCells, BlockCells, Inner
      <4> QED
        BY <1>1, <3>1, <4>1, OneCompares DEF CheckInv, Compared
    <3>4. Answered'
      BY <1>1, <3>1, NoAnswerYet
    <3> QED
      BY <3>2, <3>3, <3>4 DEF CheckInv, Check!Rank
  <2>2. ASSUME NEW r \in Check!Rank, Check!Compare(r) \/ Check!Reduce(r) \/ Check!Report(r)
        PROVE  CheckInv'
    BY <1>1, <2>2, CompareStep, ReduceStep, ReportStep
  <2> QED
    BY <1>1, <2>1, <2>2 DEF Check!Next
<1> QED
  BY <1>1, CheckInit, PTL DEF Check!Spec

\* Process 0 reports an error exactly if the answer has a large one.
THEOREM VerdictIsRight == Check!Spec => []RootRight
<1>1. CheckInv => RootRight
  <2>1. Check!Big \in {Check!Big, Check!NaN}
    OBVIOUS
  <2> QED
    BY <2>1, SameErrors DEF CheckInv, Answered, RootRight, Check!RootRight
<1> QED
  BY <1>1, NormsAreOfErrors, PTL

\* A NaN error shows in the norms unless another error is large.
THEOREM NaNErrorsShow == Check!Spec => []NaNShows
<1>1. CheckInv => NaNShows
  <2>1. Check!Big \in {Check!Big, Check!NaN} /\ Check!NaN \in {Check!Big, Check!NaN}
    OBVIOUS
  <2> QED
    BY <2>1, SameErrors DEF CheckInv, Answered, NaNShows, Check!NaNShows
<1> QED
  BY <1>1, NormsAreOfErrors, PTL
=============================================================================
