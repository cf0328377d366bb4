---------------------------- MODULE RowSplitProof ---------------------------
(***************************************************************************)
(* Proofs about RowSplit, for every number of slaves and every size of     *)
(* block the division is made for: RowsOnce, InsideBlock and AllWritten.   *)
(*                                                                         *)
(* Number the interior rows plane by plane.  The share of slave i is the   *)
(* numbers from PerSize * i up to PerSize * (i + 1): shares do not overlap *)
(* and end with the last row.  The rest is that segments 0 and 1 of a      *)
(* slave are the rows with these numbers, in at most two planes.           *)
(***************************************************************************)
EXTENDS RowSplit, TLAPS

\* The division is made for all sizes of blocks.
AllSupported == \A s \in Sizes : Supported(s[1], s[2])

-----------------------------------------------------------------------------
(* Arithmetic.                                                             *)

\* Division with remainder of natural numbers.
LEMMA DivMod ==
  ASSUME NEW a \in Nat, NEW b \in Nat \ {0}
  PROVE  /\ Div(a, b) \in Nat /\ Mod(a, b) \in 0 .. b - 1
         /\ a = b * Div(a, b) + Mod(a, b)
<1>1. a \div b \in Nat /\ a % b \in 0 .. b - 1 /\ a % b = a - b * (a \div b)
  OBVIOUS
<1>2. Div(a, b) = a \div b
  BY DEF Div
<1>3. Mod(a, b) = a % b
  BY <1>1, <1>2 DEF Mod
<1> DEFINE d == Div(a, b)
           m == Mod(a, b)
<1>4. d \in Nat /\ m \in 0 .. b - 1 /\ m = a - b * d
  BY <1>1, <1>2, <1>3
<1> HIDE DEF d, m
<1>5. b * d \in Nat
  BY <1>4
<1>6. a = b * d + m
  BY <1>4, <1>5
<1> QED
  BY <1>4, <1>6 DEF d, m

\* Products of natural numbers are ordered as their factors.
LEMMA Products ==
  ASSUME NEW p \in Nat, NEW i \in Nat, NEW j \in Nat, i < j
  PROVE  p * i + p <= p * j
<1>1. p * (j - i - 1) \in Nat
  <2>1. j - i - 1 \in Nat
    OBVIOUS
  <2> QED
    BY <2>1
<1>2. p * j = p * i + p + p * (j - i - 1)
  OBVIOUS
<1> QED
  BY <1>1, <1>2

\* Which of equal pieces of length p a number is in, is determined.
LEMMA SamePiece ==
  ASSUME NEW p \in Nat, NEW i \in Nat, NEW j \in Nat, NEW n \in Int,
         p * i <= n, n < p * i + p, p * j <= n, n < p * j + p
  PROVE  i = j
<1>1. /\ p * i \in Nat /\ p * j \in Nat
  OBVIOUS
<1>2. ~(i < j)
  <2> SUFFICES ASSUME i < j PROVE FALSE
    OBVIOUS
  <2>1. p * i + p <= p * j
    BY Products
  <2> QED
    BY <1>1, <2>1
<1>3. ~(j < i)
  <2> SUFFICES ASSUME j < i PROVE FALSE
    OBVIOUS
  <2>1. p * j + p <= p * i
    BY Products
  <2> QED
    BY <1>1, <2>1
<1> QED
  BY <1>2, <1>3

\* A number below p * k is in one of the first k pieces.
LEMMA SomePiece ==
  ASSUME NEW p \in Nat \ {0}, NEW k \in Nat, NEW n \in Nat, n < p * k
  PROVE  \E i \in 0 .. k - 1 : p * i <= n /\ n < p * i + p
<1> DEFINE i == Div(n, p)
<1>1. i \in Nat /\ p * i <= n /\ n < p * i + p
  <2>1. i \in Nat /\ Mod(n, p) \in 0 .. p - 1 /\ n = p * i + Mod(n, p)
    BY DivMod
  <2> HIDE DEF i
  <2>2. p * i \in Nat
    BY <2>1
  <2> QED
    BY <2>1, <2>2
<1> HIDE DEF i
<1>2. i < k
  <2> SUFFICES ASSUME k <= i PROVE FALSE
    BY <1>1
  <2>1. CASE k = i
    BY <1>1, <2>1
  <2>2. CASE k < i
    <3>1. p * k + p <= p * i
      BY <1>1, <2>2, Products
    <3>2. p * k \in Nat /\ p * i \in Nat
      BY <1>1
    <3> QED
      BY <1>1, <3>1, <3>2
  <2> QED
    BY <1>1, <2>1, <2>2
<1> QED
  BY <1>1, <1>2

-----------------------------------------------------------------------------
(* The division.                                                           *)

\* The block is of one of the sizes.
SizeOK == AllSupported /\ <<ly, lz>> \in Sizes

\* Rows of the bottom or top plane per slave.
PerPlane == Div(ly, ThreadNum)

\* Planes and interior divide without a remainder, and a share of the interior
\* is shorter than a plane.
LEMMA Division ==
  ASSUME SizeOK
  PROVE  /\ ThreadNum \in Nat \ {0} /\ ly \in Nat \ {0} /\ lz \in Nat /\ lz >= 2
         /\ PerPlane \in Nat \ {0} /\ ly = PerPlane * ThreadNum
         /\ PerSize \in Nat /\ PerSize < ly
         /\ PerSize * ThreadNum = ly * (lz - 2)
<1> DEFINE m == lz - 2
           q == PerPlane
<1>1. /\ ThreadNum \in Nat \ {0} /\ ly \in Nat \ {0} /\ lz \in Nat
      /\ ly % ThreadNum = 0 /\ lz >= 2 /\ m \in Nat /\ m < ThreadNum
  <2>1. /\ Supported(<<ly, lz>>[1], <<ly, lz>>[2])
        /\ <<ly, lz>> \in (Nat \ {0}) \X (Nat \ {0})
    BY RowSplitAssumption DEF SizeOK, AllSupported
  <2> QED
    BY <2>1, RowSplitAssumption DEF Supported
<1>2. q \in Nat \ {0} /\ ly = q * ThreadNum
  <2>1. /\ q \in Nat /\ Mod(ly, ThreadNum) \in Nat
        /\ ly = ThreadNum * q + Mod(ly, ThreadNum)
    BY <1>1, DivMod DEF PerPlane
  <2>2. Mod(ly, ThreadNum) = ly % ThreadNum
    <3>1. Div(ly, ThreadNum) = ly \div ThreadNum
      BY <1>1 DEF Div
    <3>2. ly % ThreadNum = ly - ThreadNum * (ly \div ThreadNum)
      BY <1>1
    <3> QED
      BY <3>1, <3>2 DEF Mod
  <2> HIDE DEF q
  <2>3. ly = ThreadNum * q
    BY <1>1, <2>1, <2>2
  <2> QED
    BY <1>1, <2>1, <2>3
<1> HIDE DEF m, q
<1>3. PerSize = q * m
  <2> DEFINE a == ly * m
             r == Mod(a, ThreadNum)
  <2>1. a \in Nat
    BY <1>1
  <2>2. /\ PerSize \in Nat /\ r \in 0 .. ThreadNum - 1
        /\ a = ThreadNum * PerSize + r
    BY <1>1, <2>1, DivMod DEF PerSize, m
  <2> DEFINE w == q * m
  <2>3. a = ThreadNum * w /\ w \in Nat
    BY <1>1, <1>2
  <2> HIDE DEF a, r, w
  <2>4. ThreadNum * w \in Nat /\ ThreadNum * PerSize \in Nat
    BY <1>1, <2>2, <2>3
  <2>5. /\ ThreadNum * PerSize <= a /\ a < ThreadNum * PerSize + ThreadNum
        /\ ThreadNum * w <= a /\ a < ThreadNum * w + ThreadNum
    BY <1>1, <2>1, <2>2, <2>3, <2>4
  <2>6. PerSize = w
    BY <1>1, <2>1, <2>2, <2>3, <2>5, SamePiece
  <2> QED
    BY <2>6 DEF w
<1>4. PerSize \in Nat /\ PerSize < ly
  <2>1. q * m + q <= q * ThreadNum /\ q * m \in Nat
    BY <1>1, <1>2, Products
  <2> QED
    BY <1>2, <1>3, <2>1
<1>5. PerSize * ThreadNum = ly * m
  BY <1>1, <1>2, <1>3
<1> QED
  BY <1>1, <1>2, <1>4, <1>5 DEF m, q

\* The share of slave i starts in a plane at First(i) and is PerSize rows long;
\* if it runs over the end of the plane it ends before it comes to the next.
LEMMA Share ==
  ASSUME SizeOK, NEW i \in Slave
  PROVE  /\ First(i) \in 1 .. ly /\ Last(i) \in 1 .. ly
         /\ Div(PerSize * i, ly) \in Nat
         /\ PerSize * i = ly * Div(PerSize * i, ly) + (First(i) - 1)
         /\ Wraps(i) => Last(i) + ly = First(i) + PerSize
         /\ ~Wraps(i) => Last(i) = First(i) + PerSize
<1> DEFINE a  == PerSize * i
           e  == PerSize * (i + 1)
           k  == Div(a, ly)
           k2 == Div(e, ly)
           f  == Mod(a, ly)
           l  == Mod(e, ly)
<1>1. i \in Nat /\ ly \in Nat \ {0} /\ PerSize \in Nat /\ PerSize < ly
  BY Division DEF Slave
<1>2. a \in Nat /\ e \in Nat /\ e = a + PerSize
  BY <1>1
<1>3. First(i) = f + 1 /\ Last(i) = l + 1 /\ (Wraps(i) <=> l < f)
  <2>1. First(i) = f + 1 /\ Last(i) = l + 1
    BY DEF First, Last, Halo
  <2>2. f \in Int /\ l \in Int
    BY <1>1, <1>2, DivMod
  <2> HIDE DEF f, l
  <2> QED
    BY <2>1, <2>2 DEF Wraps
<1> HIDE DEF a, e
<1>4. /\ k \in Nat /\ f \in 0 .. ly - 1 /\ a = ly * k + f
      /\ k2 \in Nat /\ l \in 0 .. ly - 1 /\ e = ly * k2 + l
  BY <1>1, <1>2, DivMod
<1> HIDE DEF k, k2, f, l
<1>5. ly * k \in Nat /\ ly * k2 \in Nat
  BY <1>1, <1>4
<1>6. k2 = k \/ k2 = k + 1
  <2>1. ~(k2 < k)
    <3> SUFFICES ASSUME k2 < k PROVE FALSE
      OBVIOUS
    <3>1. ly * k2 + ly <= ly * k
      BY <1>1, <1>4, Products
    <3> QED
      BY <1>1, <1>2, <1>4, <1>5, <3>1
  <2>2. ~(k + 1 < k2)
    <3> SUFFICES ASSUME k + 1 < k2 PROVE FALSE
      OBVIOUS
    <3>1. ly * (k + 1) + ly <= ly * k2 /\ ly * (k + 1) = ly * k + ly
      BY <1>1, <1>4, Products
    <3> QED
      BY <1>1, <1>2, <1>4, <1>5, <3>1
  <2> QED
    BY <1>4, <2>1, <2>2
<1>7. CASE k2 = k
  BY <1>1, <1>2, <1>3, <1>4, <1>5, <1>7 DEF a, k
<1>8. CASE k2 = k + 1
  <2>1. ly * k2 = ly * k + ly
    BY <1>1, <1>4, <1>8
  <2> QED
    BY <1>1, <1>2, <1>3, <1>4, <1>5, <2>1 DEF a, k
<1> QED
  BY <1>6, <1>7, <1>8

\* The rows of segments 0 and 1 have their numbers in the share of the slave.
LEMMA InteriorRow ==
  ASSUME SizeOK, NEW i \in Slave, NEW s \in {0, 1}, NEW y \in Int,
         YBegin(i, s) <= y, y < YEnd(i, s)
  PROVE  /\ y \in 1 .. ly /\ ZLoc(i, s) \in 2 .. lz - 1
         /\ PerSize * i <= ly * (ZLoc(i, s) - 2) + (y - 1)
         /\ ly * (ZLoc(i, s) - 2) + (y - 1) < PerSize * i + PerSize
<1> DEFINE a == PerSize * i
           k == Div(a, ly)
           z == ZLoc(i, s)
<1>1. /\ i \in Nat /\ i < ThreadNum /\ ThreadNum \in Nat
      /\ ly \in Nat \ {0} /\ lz \in Nat /\ lz >= 2
      /\ PerSize \in Nat /\ PerSize * ThreadNum = ly * (lz - 2)
  BY Division, RowSplitAssumption DEF Slave
<1>2. /\ First(i) \in 1 .. ly /\ Last(i) \in 1 .. ly
      /\ k \in Nat /\ a = ly * k + (First(i) - 1)
      /\ Wraps(i) => Last(i) + ly = First(i) + PerSize
      /\ ~Wraps(i) => Last(i) = First(i) + PerSize
  BY Share
<1>3. z = IF s = 0 THEN k + 2 ELSE k + 3
  BY <1>2 DEF ZLoc, Halo
<1>4. a \in Nat
  BY <1>1
<1> HIDE DEF a, k, z
<1>5. ly * k \in Nat /\ ly * (k + 1) = ly * k + ly
  BY <1>1, <1>2
<1>6. y \in 1 .. ly /\ a <= ly * (z - 2) + (y - 1)
        /\ ly * (z - 2) + (y - 1) < a + PerSize
  <2>1. CASE s = 0
    <3>1. z - 2 = k
      BY <1>2, <1>3, <2>1
    <3>2. First(i) <= y /\ y < (IF Wraps(i) THEN ly + 1 ELSE Last(i))
      BY <2>1 DEF YBegin, YEnd, Halo
    <3> QED
      BY <1>1, <1>2, <1>5, <3>1, <3>2
  <2>2. CASE s = 1
    <3>1. z - 2 = k + 1
      BY <1>2, <1>3, <2>2
    <3>2. 1 <= y /\ y < (IF Wraps(i) THEN Last(i) ELSE 1)
      BY <2>2 DEF YBegin, YEnd, Halo
    <3> QED
      BY <1>1, <1>2, <1>5, <3>1, <3>2
  <2> QED
    BY <2>1, <2>2
<1>7. z - 2 < lz - 2
  <2> DEFINE c == z - 2
             m == lz - 2
  <2>1. c \in Nat /\ m \in Nat /\ y \in Nat
    BY <1>1, <1>2, <1>3, <1>6
  <2>2. a + PerSize <= ly * m
    BY <1>1, Products DEF a
  <2>3. ly * c < ly * m
    BY <1>1, <1>4, <1>6, <2>1, <2>2
  <2> HIDE DEF c, m
  <2>4. ~(m < c)
    BY <1>1, <2>1, <2>3, Products
  <2>5. c # m
    BY <1>1, <2>1, <2>3
  <2>6. c < m
    BY <2>1, <2>4, <2>5
  <2> QED
    BY <2>6 DEF c, m
<1> QED
  BY <1>1, <1>2, <1>3, <1>6, <1>7 DEF a, z

\* Every row with its number in the share of a slave is in one of the two
\* segments.
LEMMA ShareRow ==
  ASSUME SizeOK, NEW i \in Slave, NEW z \in 2 .. lz, NEW y \in 1 .. ly,
         PerSize * i <= ly * (z - 2) + (y - 1),
         ly * (z - 2) + (y - 1) < PerSize * i + PerSize
  PROVE  \E s \in {0, 1} :
           z = ZLoc(i, s) /\ YBegin(i, s) <= y /\ y < YEnd(i, s)
<1> DEFINE a == PerSize * i
           k == Div(a, ly)
           c == z - 2
<1>1. /\ i \in Nat /\ ly \in Nat \ {0} /\ lz \in Nat
      /\ PerSize \in Nat /\ PerSize < ly
  BY Division DEF Slave
<1>2. /\ First(i) \in 1 .. ly /\ Last(i) \in 1 .. ly
      /\ k \in Nat /\ a = ly * k + (First(i) - 1)
      /\ Wraps(i) => Last(i) + ly = First(i) + PerSize
      /\ ~Wraps(i) => Last(i) = First(i) + PerSize
  BY Share
<1>3. /\ ZLoc(i, 0) = k + 2 /\ ZLoc(i, 1) = k + 3
      /\ YBegin(i, 0) = First(i) /\ YBegin(i, 1) = 1
      /\ YEnd(i, 0) = IF Wraps(i) THEN ly + 1 ELSE Last(i)
      /\ YEnd(i, 1) = IF Wraps(i) THEN Last(i) ELSE 1
  BY <1>2 DEF ZLoc, YBegin, YEnd, Halo
<1>4. c \in Nat /\ a <= ly * c + (y - 1) /\ ly * c + (y - 1) < a + PerSize
  BY <1>1
<1>5. a \in Nat
  BY <1>1
<1> HIDE DEF a, k, c
<1>6. ly * k \in Nat /\ ly * c \in Nat /\ ly * (k + 1) = ly * k + ly
  BY <1>1, <1>2, <1>4
<1>7. c = k \/ c = k + 1
  <2>1. ~(c < k)
    <3> SUFFICES ASSUME c < k PROVE FALSE
      OBVIOUS
    <3>1. ly * c + ly <= ly * k
      BY <1>1, <1>2, <1>4, Products
    <3> QED
      BY <1>1, <1>2, <1>4, <1>6, <3>1
  <2>2. ~(k + 1 < c)
    <3> SUFFICES ASSUME k + 1 < c PROVE FALSE
      OBVIOUS
    <3>1. ly * (k + 1) + ly <= ly * c
      BY <1>1, <1>2, <1>4, Products
    <3> QED
      BY <1>1, <1>2, <1>4, <1>6, <3>1
  <2> QED
    BY <1>2, <1>4, <2>1, <2>2
<1>8. CASE c = k
  <2>1. z = ZLoc(i, 0)
    BY <1>2, <1>3, <1>8 DEF c
  <2>2. First(i) <= y /\ y < First(i) + PerSize
    BY <1>1, <1>2, <1>4, <1>6, <1>8
  <2> QED
    BY <1>1, <1>2, <1>3, <2>1, <2>2
<1>9. CASE c = k + 1
  <2>1. z = ZLoc(i, 1)
    BY <1>2, <1>3, <1>9 DEF c
  <2>2. y + ly < First(i) + PerSize
    BY <1>1, <1>2, <1>4, <1>6, <1>9
  <2>3. Wraps(i)
    BY <1>1, <1>2, <2>2
  <2> QED
    BY <1>1, <1>2, <1>3, <2>1, <2>2, <2>3
<1> QED
  BY <1>7, <1>8, <1>9

-----------------------------------------------------------------------------
(* The rows that are written.                                              *)

\* Row y of segment s of slave i.
RowAt(i, s, y) == [row |-> <<ZLoc(i, s), y>>, slave |-> i, segment |-> s]

\* What is written are rows of segments, and of a segment that is done all.
IInv ==
  /\ <<ly, lz>> \in Sizes
  /\ todo \in [Slave -> SUBSET Segment]
  /\ seg \in [Slave -> Segment \cup {None}]
  /\ yy \in [Slave -> Int]
  /\ \A w \in put : \E i \in Slave, s \in Segment, y \in Int :
       w = RowAt(i, s, y) /\ YBegin(i, s) <= y /\ y < YEnd(i, s)
  /\ \A i \in Slave : \A s \in Segment : \A y \in Int :
       /\ YBegin(i, s) <= y
       /\ IF seg[i] = s THEN y < yy[i] ELSE s \notin todo[i] /\ y < YEnd(i, s)
       => RowAt(i, s, y) \in put
  /\ \A i \in Slave : seg[i] # None =>
       seg[i] \notin todo[i] /\ YBegin(i, seg[i]) <= yy[i]

\* The bounds of the segments are integers.
LEMMA Bounds ==
  ASSUME SizeOK, NEW i \in Slave, NEW s \in Segment
  PROVE  /\ YBegin(i, s) \in Int /\ YEnd(i, s) \in Int /\ ZLoc(i, s) \in Int
<1>1. i \in Nat /\ ly \in Nat /\ lz \in Nat /\ PerPlane \in Nat
  BY Division DEF Slave
<1>2. /\ First(i) \in Int /\ Last(i) \in Int /\ Div(PerSize * i, ly) \in Int
  BY Share
<1>3. PerPlane * i \in Int /\ PerPlane * (i + 1) \in Int
  BY <1>1
<1> QED
  BY <1>1, <1>2, <1>3
  DEF YBegin, YEnd, ZLoc, PerPlane, Halo, Segment

\* Initially nothing is written and nothing has to be.
LEMMA InvInit == AllSupported /\ Init => IInv
<1> SUFFICES ASSUME AllSupported, Init PROVE IInv
  OBVIOUS
<1>1. PICK s \in Sizes : ly = s[1] /\ lz = s[2]
  BY DEF Init
<1>2. <<ly, lz>> \in Sizes
  BY <1>1, RowSplitAssumption
<1> QED
  BY <1>2 DEF Init, IInv, None, Segment

\* Begin, Put and End keep the invariant.
LEMMA InvStep == AllSupported /\ IInv /\ [Next]_vars => IInv'
<1> SUFFICES ASSUME AllSupported, IInv, [Next]_vars PROVE IInv'
  OBVIOUS
<1>1. SizeOK
  BY DEF SizeOK, IInv
<1>2. UNCHANGED <<ly, lz>>
  BY DEF Next, Begin, Put, End, vars
<1>3. /\ PerSize' = PerSize
      /\ \A i, s : YBegin(i, s)' = YBegin(i, s) /\ YEnd(i, s)' = YEnd(i, s)
      /\ \A i, s, y : RowAt(i, s, y)' = RowAt(i, s, y)
  BY <1>2 DEF PerSize, YBegin, YEnd, First, Last, Wraps, RowAt, ZLoc
<1>4. \A i \in Slave : \A s \in Segment : YBegin(i, s) \in Int /\ YEnd(i, s) \in Int
  BY <1>1, Bounds
<1>5. ASSUME NEW i \in Slave, NEW z \in Segment, Begin(i, z) PROVE IInv'
  <2>1. /\ seg[i] = None /\ z \in todo[i] /\ put' = put
        /\ todo' = [todo EXCEPT ![i] = @ \ {z}]
        /\ seg' = [seg EXCEPT ![i] = z]
        /\ yy' = [yy EXCEPT ![i] = YBegin(i, z)]
    BY <1>5 DEF Begin
  <2>2. \A j \in Slave :
          /\ todo'[j] = IF j = i THEN todo[j] \ {z} ELSE todo[j]
          /\ seg'[j] = IF j = i THEN z ELSE seg[j]
          /\ yy'[j] = IF j = i THEN YBegin(i, z) ELSE yy[j]
    BY <2>1 DEF IInv
  <2>3. /\ todo' \in [Slave -> SUBSET Segment]
        /\ seg' \in [Slave -> Segment \cup {None}]
        /\ yy' \in [Slave -> Int]
    BY <1>4, <2>1 DEF IInv
  <2>4. ASSUME NEW j \in Slave, NEW s \in Segment, NEW y \in Int,
               YBegin(j, s) <= y,
               IF seg'[j] = s THEN y < yy'[j]
                              ELSE s \notin todo'[j] /\ y < YEnd(j, s)
        PROVE  RowAt(j, s, y) \in put
    <3>1. CASE j = i
      <4>1. s # z
        <5> SUFFICES ASSUME s = z PROVE FALSE
          OBVIOUS
        <5>1. YBegin(i, z) <= y /\ y < YBegin(i, z) /\ YBegin(i, z) \in Int
          BY <1>4, <2>2, <2>4, <3>1
        <5> QED
          BY <5>1
      <4> QED
        BY <2>1, <2>2, <2>4, <3>1, <4>1 DEF IInv, None, Segment
    <3>2. CASE j # i
      BY <2>2, <2>4, <3>2 DEF IInv
    <3> QED
      BY <3>1, <3>2
  <2>5. ASSUME NEW j \in Slave, seg'[j] # None
        PROVE  seg'[j] \notin todo'[j] /\ YBegin(j, seg'[j]) <= yy'[j]
    <3>1. CASE j = i
      <4>1. YBegin(i, z) \in Int
        BY <1>4
      <4>2. seg'[j] = z /\ todo'[j] = todo[i] \ {z} /\ yy'[j] = YBegin(i, z)
        BY <2>2, <3>1
      <4> QED
        BY <3>1, <4>1, <4>2
    <3>2. CASE j # i
      BY <2>2, <2>5, <3>2 DEF IInv
    <3> QED
      BY <3>1, <3>2
  <2> QED
    BY <1>2, <1>3, <2>1, <2>3, <2>4, <2>5 DEF IInv
<1>6. ASSUME NEW i \in Slave, Put(i) PROVE IInv'
  <2> DEFINE z == seg[i]
  <2>1. /\ z # None /\ z \in Segment /\ yy[i] \in Int /\ yy[i] < YEnd(i, z)
        /\ YBegin(i, z) <= yy[i]
        /\ put' = put \cup {RowAt(i, z, yy[i])}
        /\ yy' = [yy EXCEPT ![i] = @ + 1]
        /\ UNCHANGED <<todo, seg>>
    BY <1>6 DEF Put, IInv, RowAt
  <2>2. \A j \in Slave : yy'[j] = IF j = i THEN yy[j] + 1 ELSE yy[j]
    BY <2>1 DEF IInv
  <2>3. yy' \in [Slave -> Int]
    BY <2>1 DEF IInv
  <2>4. \A w \in put' : \E j \in Slave, s \in Segment, y \in Int :
          w = RowAt(j, s, y) /\ YBegin(j, s) <= y /\ y < YEnd(j, s)
    BY <2>1 DEF IInv
  <2>5. ASSUME NEW j \in Slave, NEW s \in Segment, NEW y \in Int,
               YBegin(j, s) <= y,
               IF seg[j] = s THEN y < yy'[j]
                             ELSE s \notin todo[j] /\ y < YEnd(j, s)
        PROVE  RowAt(j, s, y) \in put'
    <3>1. CASE j = i /\ s = z /\ y = yy[i]
      BY <2>1, <3>1
    <3>2. CASE ~(j = i /\ s = z /\ y = yy[i])
      <4>1. IF seg[j] = s THEN y < yy[j] ELSE s \notin todo[j] /\ y < YEnd(j, s)
        BY <2>1, <2>2, <2>5, <3>2
      <4> QED
        BY <2>1, <2>5, <4>1 DEF IInv
    <3> QED
      BY <3>1, <3>2
  <2>6. ASSUME NEW j \in Slave, seg[j] # None
        PROVE  seg[j] \notin todo[j] /\ YBegin(j, seg[j]) <= yy'[j]
    <3>1. seg[j] \in Segment /\ YBegin(j, seg[j]) <= yy[j] /\ yy[j] \in Int
      BY <2>6 DEF IInv
    <3> QED
      BY <1>4, <2>2, <2>6, <3>1 DEF IInv
  <2> QED
    BY <1>2, <1>3, <2>1, <2>3, <2>4, <2>5, <2>6 DEF IInv
<1>7. ASSUME NEW i \in Slave, End(i) PROVE IInv'
  <2>1. /\ seg[i] \in Segment /\ yy[i] >= YEnd(i, seg[i]) /\ yy[i] \in Int
        /\ seg' = [seg EXCEPT ![i] = None]
        /\ UNCHANGED <<todo, yy, put>>
    BY <1>7 DEF End, IInv
  <2>2. \A j \in Slave : seg'[j] = IF j = i THEN None ELSE seg[j]
    BY <2>1 DEF IInv
  <2>3. seg' \in [Slave -> Segment \cup {None}]
    BY <2>1 DEF IInv
  <2>4. ASSUME NEW j \in Slave, NEW s \in Segment, NEW y \in Int,
               YBegin(j, s) <= y,
               IF seg'[j] = s THEN y < yy[j]
                              ELSE s \notin todo[j] /\ y < YEnd(j, s)
        PROVE  RowAt(j, s, y) \in put
    <3>1. CASE j = i /\ s = seg[i]
      <4>1. y < YEnd(j, s)
        BY <2>2, <2>4, <3>1 DEF None, Segment
      <4>2. y < yy[i]
        BY <1>4, <2>1, <3>1, <4>1
      <4> QED
        BY <2>4, <3>1, <4>2 DEF IInv
    <3>2. CASE ~(j = i /\ s = seg[i])
      BY <2>2, <2>4, <3>2 DEF IInv, None, Segment
    <3> QED
      BY <3>1, <3>2
  <2>5. ASSUME NEW j \in Slave, seg'[j] # None
        PROVE  seg'[j] \notin todo[j] /\ YBegin(j, seg'[j]) <= yy[j]
    BY <2>2, <2>5 DEF IInv
  <2> QED
    BY <1>2, <1>3, <2>1, <2>3, <2>4, <2>5 DEF IInv
<1>8. CASE UNCHANGED vars
  BY <1>2, <1>3, <1>8 DEF vars, IInv
<1> QED
  BY <1>5, <1>6, <1>7, <1>8 DEF Next

-----------------------------------------------------------------------------
(* The theorems.                                                           *)

\* The invariant holds in every reachable state.
THEOREM Divided == ASSUME AllSupported PROVE Spec => []IInv
<1>1. Init => IInv
  BY InvInit
<1>2. IInv /\ [Next]_vars => IInv'
  BY InvStep
<1> QED
  BY <1>1, <1>2, PTL DEF Spec

\* The number of a row of segment 2 or 3 is in the share of its slave, too.
LEMMA PlaneRow ==
  ASSUME SizeOK, NEW i \in Slave, NEW s \in {2, 3}, NEW y \in Int
  PROVE  /\ ZLoc(i, s) = IF s = 2 THEN 1 ELSE lz
         /\ YBegin(i, s) <= y /\ y < YEnd(i, s) <=>
              PerPlane * i <= y - 1 /\ y - 1 < PerPlane * i + PerPlane
         /\ YBegin(i, s) <= y /\ y < YEnd(i, s) => y \in 1 .. ly
<1>1. /\ i \in Nat /\ i < ThreadNum /\ ThreadNum \in Nat /\ ly \in Nat
      /\ PerPlane \in Nat /\ ly = PerPlane * ThreadNum
  BY Division DEF Slave
<1>2. /\ YBegin(i, s) = PerPlane * i + 1
      /\ YEnd(i, s) = PerPlane * (i + 1) + 1
  BY DEF YBegin, YEnd, PerPlane, Halo
<1>3. /\ PerPlane * i \in Nat /\ PerPlane * (i + 1) = PerPlane * i + PerPlane
  BY <1>1
<1>4. PerPlane * i + PerPlane <= ly
  BY <1>1, Products
<1> QED
  BY <1>1, <1>2, <1>3, <1>4 DEF ZLoc

\* A row of the block belongs to one segment of one slave.
LEMMA OneOwner ==
  ASSUME SizeOK, NEW i \in Slave, NEW j \in Slave,
         NEW r \in Segment, NEW s \in Segment, NEW y \in Int,
         YBegin(i, r) <= y, y < YEnd(i, r), YBegin(j, s) <= y, y < YEnd(j, s),
         ZLoc(i, r) = ZLoc(j, s)
  PROVE  i = j /\ r = s
<1>1. /\ i \in Nat /\ j \in Nat /\ ly \in Nat /\ lz \in Nat /\ lz >= 2
      /\ PerPlane \in Nat /\ PerSize \in Nat
  BY Division DEF Slave
<1>2. \/ r \in {0, 1} /\ s \in {0, 1}
      \/ r \in {2, 3} /\ s = r
  BY <1>1, InteriorRow, PlaneRow DEF Segment
<1>3. CASE r \in {2, 3} /\ s = r
  <2>1. /\ PerPlane * i <= y - 1 /\ y - 1 < PerPlane * i + PerPlane
        /\ PerPlane * j <= y - 1 /\ y - 1 < PerPlane * j + PerPlane
    BY <1>3, PlaneRow
  <2> QED
    BY <1>1, <1>3, <2>1, SamePiece
<1>4. CASE r \in {0, 1} /\ s \in {0, 1}
  <2> DEFINE n == ly * (ZLoc(i, r) - 2) + (y - 1)
  <2>1. /\ PerSize * i <= n /\ n < PerSize * i + PerSize
        /\ PerSize * j <= n /\ n < PerSize * j + PerSize
        /\ ZLoc(i, r) \in 2 .. lz - 1
    BY <1>4, InteriorRow
  <2>2. n \in Int
    BY <1>1, <2>1
  <2> HIDE DEF n
  <2>3. i = j
    BY <1>1, <2>1, <2>2, SamePiece
  <2>4. r = s
    <3>1. Div(PerSize * i, ly) \in Nat
      BY Share
    <3> QED
      BY <1>4, <2>3, <3>1 DEF ZLoc, Halo
  <2> QED
    BY <2>3, <2>4
<1> QED
  BY <1>2, <1>3, <1>4

\* No row is written twice, whatever the order in which the slaves work.
THEOREM NoRowTwice == ASSUME AllSupported PROVE Spec => []RowsOnce
<1>1. IInv => RowsOnce
  <2> SUFFICES ASSUME IInv, NEW v \in put, NEW w \in put, v.row = w.row
               PROVE  v = w
    BY DEF RowsOnce
  <2>1. SizeOK
    BY DEF SizeOK, IInv
  <2>2. PICK i \in Slave, r \in Segment, x \in Int :
          v = RowAt(i, r, x) /\ YBegin(i, r) <= x /\ x < YEnd(i, r)
    BY DEF IInv
  <2>3. PICK j \in Slave, s \in Segment, y \in Int :
          w = RowAt(j, s, y) /\ YBegin(j, s) <= y /\ y < YEnd(j, s)
    BY DEF IInv
  <2>4. x = y /\ ZLoc(i, r) = ZLoc(j, s)
    BY <2>2, <2>3 DEF RowAt
  <2>5. i = j /\ r = s
    BY <2>1, <2>2, <2>3, <2>4, OneOwner
  <2> QED
    BY <2>2, <2>3, <2>4, <2>5
<1> QED
  BY <1>1, Divided, PTL

\* Only rows of the block are written.
THEOREM OnlyBlockRows == ASSUME AllSupported PROVE Spec => []InsideBlock
<1>1. IInv => InsideBlock
  <2> SUFFICES ASSUME IInv, NEW w \in put PROVE w.row \in Rows
    BY DEF InsideBlock
  <2>1. SizeOK
    BY DEF SizeOK, IInv
  <2>2. PICK i \in Slave, s \in Segment, y \in Int :
          w = RowAt(i, s, y) /\ YBegin(i, s) <= y /\ y < YEnd(i, s)
    BY DEF IInv
  <2>3. lz \in Nat /\ lz >= 2
    BY <2>1, Division
  <2>4. ZLoc(i, s) \in 1 .. lz /\ y \in 1 .. ly
    <3>1. CASE s \in {0, 1}
      BY <2>1, <2>2, <2>3, <3>1, InteriorRow
    <3>2. CASE s \in {2, 3}
      BY <2>1, <2>2, <2>3, <3>2, PlaneRow
    <3> QED
      BY <3>1, <3>2 DEF Segment
  <2> QED
    BY <2>2, <2>4 DEF RowAt, Rows
<1> QED
  BY <1>1, Divided, PTL

\* Every row of the block is in a segment of a slave.
LEMMA SomeOwner ==
  ASSUME SizeOK, NEW z \in 1 .. lz, NEW y \in 1 .. ly
  PROVE  \E i \in Slave, s \in Segment :
           z = ZLoc(i, s) /\ YBegin(i, s) <= y /\ y < YEnd(i, s)
<1>1. /\ ThreadNum \in Nat /\ ly \in Nat \ {0} /\ lz \in Nat /\ lz >= 2
      /\ PerPlane \in Nat \ {0} /\ ly = PerPlane * ThreadNum
      /\ PerSize \in Nat /\ PerSize * ThreadNum = ly * (lz - 2)
  BY Division
<1>2. CASE z \in {1, lz}
  <2> DEFINE n == y - 1
  <2>1. n \in Nat /\ n < PerPlane * ThreadNum
    BY <1>1
  <2>2. PICK i \in 0 .. ThreadNum - 1 :
          PerPlane * i <= n /\ n < PerPlane * i + PerPlane
    <3> HIDE DEF n
    <3> QED
      BY <1>1, <2>1, SomePiece
  <2>3. PICK s \in {2, 3} : z = IF s = 2 THEN 1 ELSE lz
    BY <1>2
  <2> QED
    BY <2>2, <2>3, PlaneRow DEF Slave, Segment
<1>3. CASE z \notin {1, lz}
  <2> DEFINE c == z - 2
             m == lz - 2
             n == ly * c + (y - 1)
  <2>1. c \in Nat /\ m \in Nat /\ c < m /\ y \in Nat /\ y >= 1 /\ y <= ly
    BY <1>1, <1>3
  <2>2. ly * c + ly <= ly * m /\ ly * c \in Nat
    <3> HIDE DEF c, m
    <3> QED
      BY <1>1, <2>1, Products
  <2>3. n \in Nat /\ n < PerSize * ThreadNum
    <3>1. PerSize * ThreadNum = ly * m
      BY <1>1
    <3>2. ly * m \in Nat
      BY <1>1, <2>1
    <3> HIDE DEF c, m
    <3> QED
      BY <1>1, <2>1, <2>2, <3>1, <3>2
  <2>4. PerSize # 0
    BY <1>1, <2>3
  <2> HIDE DEF n
  <2>5. PICK i \in 0 .. ThreadNum - 1 :
          PerSize * i <= n /\ n < PerSize * i + PerSize
    BY <1>1, <2>3, <2>4, SomePiece
  <2>6. z \in 2 .. lz /\ i \in Slave
    BY <1>1, <1>3 DEF Slave
  <2>7. \E s \in {0, 1} :
          z = ZLoc(i, s) /\ YBegin(i, s) <= y /\ y < YEnd(i, s)
    BY <2>5, <2>6, ShareRow DEF n
  <2> QED
    BY <2>6, <2>7 DEF Segment
<1> QED
  BY <1>2, <1>3

\* When all slaves have come to the barrier every row of the block is written.
THEOREM EveryRowWritten == ASSUME AllSupported PROVE Spec => []AllWritten
<1>1. IInv => AllWritten
  <2> SUFFICES ASSUME IInv, Finished, NEW r \in Rows
               PROVE  \E w \in put : w.row = r
    BY DEF AllWritten
  <2>1. SizeOK
    BY DEF SizeOK, IInv
  <2>2. PICK z \in 1 .. lz, y \in 1 .. ly : r = <<z, y>>
    BY DEF Rows
  <2>3. PICK i \in Slave, s \in Segment :
          z = ZLoc(i, s) /\ YBegin(i, s) <= y /\ y < YEnd(i, s)
    BY <2>1, SomeOwner
  <2>4. RowAt(i, s, y) \in put
    BY <2>3 DEF IInv, Finished, None, Segment
  <2>5. RowAt(i, s, y).row = r
    BY <2>2, <2>3 DEF RowAt
  <2> QED
    BY <2>4, <2>5
<1> QED
  BY <1>1, Divided, PTL

=============================================================================
