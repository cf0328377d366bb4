------------------------------ MODULE RowSplit ------------------------------
(***************************************************************************)
(* How the slaves of a core group divide the rows of a block among         *)
(* themselves in one time step (the head of stencil_7_com, repeated in     *)
(* stencil_27_com, and the loops over z and yy that use it).               *)
(*                                                                         *)
(* A row is a pair <<z, y>>, 1 .. local_size_z by 1 .. local_size_y in the *)
(* block, with the halo around it.  Every slave has four segments of rows: *)
(* 0 and 1 are its share of the interior planes, taken as one long list of *)
(* rows that may run over the end of one plane, 2 and 3 its shares of the  *)
(* bottom and of the top plane.  Between two barriers nothing but this     *)
(* division keeps the slaves from writing the same row.                    *)
(***************************************************************************)
EXTENDS Integers

CONSTANTS
  ThreadNum,  \* THREAD_NUM
  Sizes       \* the pairs <<local_size_y, local_size_z>> considered

ASSUME RowSplitAssumption ==
  /\ ThreadNum \in Nat \ {0}
  /\ Sizes \subseteq (Nat \ {0}) \X (Nat \ {0})

Slave   == 0 .. ThreadNum - 1
Segment == 0 .. 3
None    == -1  \* no segment
Halo    == 1   \* halo_size_y, halo_size_z

VARIABLES
  ly, lz,  \* local_size_y, local_size_z
  todo,    \* todo[i]: the segments slave i has not begun
  seg,     \* seg[i]: the segment it is in, or None
  yy,      \* yy[i]: the row of the segment it is at
  put      \* the rows written, with the slave and the segment

vars == <<ly, lz, todo, seg, yy, put>>

-----------------------------------------------------------------------------
(* The division, with the integer division of C, which rounds to zero.     *)

Div(a, b) == IF a >= 0 THEN a \div b ELSE -((-a) \div b)
Mod(a, b) == a - b * Div(a, b)

\* Rows of the interior planes per slave.
PerSize == Div(ly * (lz - 2), ThreadNum)

First(i) == Mod(PerSize * i, ly) + Halo
Last(i)  == Mod(PerSize * (i + 1), ly) + Halo

\* Mutant: an empty share counts as one that wraps.
WrapsIfEmpty(i) == Last(i) <= First(i)

\* The share runs over the end of the plane it begins in.
Wraps(i) == Last(i) < First(i)

YBegin(i, z) ==
  CASE z = 0 -> First(i)
    [] z = 1 -> Halo
    [] OTHER -> Div(ly, ThreadNum) * i + Halo

\* Mutant: the rows past the end of the plane are forgotten.
YEndNoWrap(i, z) ==
  CASE z = 0 -> IF Wraps(i) THEN ly + Halo ELSE Last(i)
    [] z = 1 -> Halo
    [] OTHER -> Div(ly, ThreadNum) * (i + 1) + Halo

\* One past the last row.
YEnd(i, z) ==
  CASE z = 0 -> IF Wraps(i) THEN ly + Halo ELSE Last(i)
    [] z = 1 -> IF Wraps(i) THEN Last(i) ELSE Halo
    [] OTHER -> Div(ly, ThreadNum) * (i + 1) + Halo

\* Mutant: the top plane is taken to be the halo above it.
ZLocHalo(i, z) ==
  CASE z = 0 -> Div(PerSize * i, ly) + Halo + 1
    [] z = 1 -> Div(PerSize * i, ly) + Halo + 2
    [] z = 2 -> 1
    [] z = 3 -> lz + 1

ZLoc(i, z) ==
  CASE z = 0 -> Div(PerSize * i, ly) + Halo + 1
    [] z = 1 -> Div(PerSize * i, ly) + Halo + 2
    [] z = 2 -> 1
    [] z = 3 -> lz

-----------------------------------------------------------------------------
Init ==
  /\ \E s \in Sizes : ly = s[1] /\ lz = s[2]
  /\ todo = [i \in Slave |-> Segment]
  /\ seg = [i \in Slave |-> None]
  /\ yy = [i \in Slave |-> 0]
  /\ put = {}

\* Segments 0 and 1 in this order, then 3 and 2 as their halos arrive.
Begin(i, z) ==
  /\ seg[i] = None
  /\ z \in todo[i]
  /\ z > 0 => 0 \notin todo[i]
  /\ z > 1 => 1 \notin todo[i]
  /\ todo' = [todo EXCEPT ![i] = @ \ {z}]
  /\ seg' = [seg EXCEPT ![i] = z]
  /\ yy' = [yy EXCEPT ![i] = YBegin(i, z)]
  /\ UNCHANGED <<ly, lz, put>>

\* One turn of the yy loop: athread_put of a row.
Put(i) ==
  /\ seg[i] # None
  /\ yy[i] < YEnd(i, seg[i])
  /\ put' = put \cup {[row |-> <<ZLoc(i, seg[i]), yy[i]>>,
                       slave |-> i, segment |-> seg[i]]}
  /\ yy' = [yy EXCEPT ![i] = @ + 1]
  /\ UNCHANGED <<ly, lz, todo, seg>>

\* The end of the yy loop.
End(i) ==
  /\ seg[i] # None
  /\ yy[i] >= YEnd(i, seg[i])
  /\ seg' = [seg EXCEPT ![i] = None]
  /\ UNCHANGED <<ly, lz, todo, yy, put>>

Next ==
  \E i \in Slave :
    \/ \E z \in Segment : Begin(i, z)
    \/ Put(i)
    \/ End(i)

Spec == Init /\ [][Next]_vars

-----------------------------------------------------------------------------
Rows == (1 .. lz) \X (1 .. ly)

\* All slaves are at the barrier.
Finished == \A i \in Slave : todo[i] = {} /\ seg[i] = None

\* The sizes the division is made for: the planes divide evenly among the
\* slaves, and a slave's share of the interior is shorter than a plane.
Supported(y, z) == y % ThreadNum = 0 /\ z >= 2 /\ z - 2 < ThreadNum

\* The variables have values of their types.
TypeOK ==
  /\ <<ly, lz>> \in Sizes
  /\ todo \in [Slave -> SUBSET Segment]
  /\ seg \in [Slave -> Segment \cup {None}]
  /\ yy \in [Slave -> Int]
  /\ \A w \in put : w.slave \in Slave /\ w.segment \in Segment

\* No row is written twice in a time step, by two slaves or by one.
RowsOnce == \A v, w \in put : v.row = w.row => v = w

\* Only rows of the block are written, never the halo or beyond.
InsideBlock == \A w \in put : w.row \in Rows

\* When all slaves have come to the barrier every row of the block is written.
AllWritten == Finished => \A r \in Rows : \E w \in put : w.row = r

=============================================================================
