---------------------------- MODULE RowPipeline ----------------------------
(***************************************************************************)
(* How a slave computes its rows (the loops over z, yy and x of            *)
(* stencil_7_com and stencil_27_com), against the sums of stencil-naive.c. *)
(*                                                                         *)
(* A slave holds three rows of three planes in local memory (origin), in a *)
(* ring whose places y0, y1, y2 rotate.  It fetches rows with athread_get, *)
(* which returns at once: a transfer ends at any later time, in any order, *)
(* and counts one in get_reply.  It computes one row (answer) and writes   *)
(* it with athread_put in the same way.                                    *)
(*                                                                         *)
(* One slave computes a small block by itself: RowSplit is about sharing.  *)
(* The value of a row is the time step of its cells, whether its two ends, *)
(* which lie in the x halo, are zero, and whether its cells are finite.  A *)
(* sum is the set of its terms: name of the weight, shift along x, row.    *)
(***************************************************************************)
EXTENDS Integers, Sequences, FiniteSets

CONSTANTS
  LY, LZ,    \* local_size_y, local_size_z
  NT,        \* nt
  Segments   \* the segments of the slave: z_loc, y_begin and y_end

BlockRow == (1 .. LY) \X (1 .. LZ)

\* Every row of the block is in one segment.
ASSUME RowPipelineAssumption ==
  /\ LY \in Nat \ {0} /\ LZ \in Nat \ {0} /\ NT \in Nat \ {0}
  /\ Segments \in Seq([z : 1 .. LZ, begin : 1 .. LY, end : 1 .. LY + 1])
  /\ \A r \in BlockRow :
       Cardinality({s \in DOMAIN Segments :
         /\ Segments[s].z = r[2]
         /\ r[1] \in Segments[s].begin .. Segments[s].end - 1}) = 1

Garbage == -1  \* cells that are of no time step
Place   == (0 .. 2) \X (0 .. 2)  \* a row of origin: index in y, index in z

VARIABLES
  type,      \* 7 or 27
  pc,        \* "row", "first", "get", "put", "wait" or "end"
  t, seg, yy,
  ring,      \* y0, y1, y2
  getReply, putReply,
  dma,       \* the transfers under way
  origin,    \* origin[p]: the row at place p
  answer,    \* the terms of the row computed last
  mem,       \* mem[b][r]: row r of grid (0) or aux (1)
  ends,      \* what local memory held in answer[0] and answer[ldx - 1]
  lane27     \* whether data[27] was a finite number

vars == <<type, pc, t, seg, yy, ring, getReply, putReply, dma, origin, answer,
          mem, ends, lane27>>

-----------------------------------------------------------------------------
(* The reference: the sums of stencil-naive.c.                             *)

\* Where the cell lies that a weight of common.h is multiplied with.
Offsets7 ==
  [ZZZ |-> <<0, 0, 0>>, NZZ |-> <<-1, 0, 0>>, PZZ |-> <<1, 0, 0>>,
   ZNZ |-> <<0, -1, 0>>, ZPZ |-> <<0, 1, 0>>,
   ZZN |-> <<0, 0, -1>>, ZZP |-> <<0, 0, 1>>]

Offsets27 ==
  [ZZZ |-> <<0, 0, 0>>, NZZ |-> <<-1, 0, 0>>, PZZ |-> <<1, 0, 0>>,
   ZNZ |-> <<0, -1, 0>>, ZPZ |-> <<0, 1, 0>>,
   ZZN |-> <<0, 0, -1>>, ZZP |-> <<0, 0, 1>>,
   NNZ |-> <<-1, -1, 0>>, PNZ |-> <<1, -1, 0>>,
   NPZ |-> <<-1, 1, 0>>, PPZ |-> <<1, 1, 0>>,
   NZN |-> <<-1, 0, -1>>, PZN |-> <<1, 0, -1>>,
   NZP |-> <<-1, 0, 1>>, PZP |-> <<1, 0, 1>>,
   ZNN |-> <<0, -1, -1>>, ZPN |-> <<0, 1, -1>>,
   ZNP |-> <<0, -1, 1>>, ZPP |-> <<0, 1, 1>>,
   NNN |-> <<-1, -1, -1>>, PNN |-> <<1, -1, -1>>,
   NPN |-> <<-1, 1, -1>>, PPN |-> <<1, 1, -1>>,
   NNP |-> <<-1, -1, 1>>, PNP |-> <<1, -1, 1>>,
   NPP |-> <<-1, 1, 1>>, PPP |-> <<1, 1, 1>>]

NaiveTerms(off, y, z) ==
  {<<a, off[a][1], <<y + off[a][2], z + off[a][3]>>>> : a \in DOMAIN off}

Naive(y, z) == NaiveTerms(IF type = 7 THEN Offsets7 ELSE Offsets27, y, z)

-----------------------------------------------------------------------------
Segment == Segments[seg]

Clean(s) == [step |-> s, ends |-> "zero", finite |-> TRUE]

\* src and dest of a step.
Src  == t % 2
Dest == (t + 1) % 2

\* A row of src; the halo rows have been exchanged or zeroed by others.
Fetched(r) ==
  LET m == IF r \in BlockRow THEN mem[Src][r] ELSE Clean(t)
  IN [row |-> r, step |-> m.step, ends |-> m.ends, finite |-> m.finite]

Get(y, z, place, n) == [op |-> "get", row |-> <<y, z>>, place |-> place, n |-> n]

\* The transfers before the first row of a segment: two rows each.
FirstGets ==
  IF type = 7 THEN {Get(yy - 1, Segment.z, <<0, 1>>, 2)}
  ELSE {Get(yy - 1, Segment.z + k - 1, <<0, k>>, 2) : k \in 0 .. 2}

\* The transfers before every row.
NextGets ==
  LET y1 == ring[2]
      y2 == ring[3]
  IN IF type = 7
       THEN {Get(yy + 1, Segment.z, <<y2, 1>>, 1),
             Get(yy, Segment.z - 1, <<y1, 0>>, 1),
             Get(yy, Segment.z + 1, <<y1, 2>>, 1)}
       ELSE {Get(yy + 1, Segment.z + k - 1, <<y2, k>>, 1) : k \in 0 .. 2}

\* Seven weights times the cells of the ring.
Sum7 ==
  LET y0 == ring[1]
      y1 == ring[2]
      y2 == ring[3]
  IN {<<"ZZZ", 0, origin[<<y1, 1>>]>>, <<"NZZ", -1, origin[<<y1, 1>>]>>,
      <<"PZZ", 1, origin[<<y1, 1>>]>>, <<"ZNZ", 0, origin[<<y0, 1>>]>>,
      <<"ZPZ", 0, origin[<<y2, 1>>]>>, <<"ZZN", 0, origin[<<y1, 0>>]>>,
      <<"ZZP", 0, origin[<<y1, 2>>]>>}

\* The lanes of alpha_vector.
Alpha ==
  <<"NNN", "ZNN", "PNN", "NZN", "ZZN", "PZN", "NPN", "ZPN", "PPN", "NNZ",
    "ZNZ", "PNZ", "NZZ", "ZZZ", "PZZ", "NPZ", "ZPZ", "PPZ", "NNP", "ZNP",
    "PNP", "NZP", "ZZP", "PZP", "NPP", "ZPP", "PPP">>

\* Lane k of data: x - 1, x, x + 1 of y0, y1, y2 of the planes 0, 1, 2.  Lane
\* 27, which nobody sets, has the weight zero.
Sum27 ==
  {<<Alpha[k + 1], (k % 3) - 1,
     origin[<<ring[((k \div 3) % 3) + 1], k \div 9>>]>> : k \in 0 .. 26}
  \cup {<<"0", 0, [row |-> <<0, 0>>, step |-> t, ends |-> "zero",
                  finite |-> lane27]>>}

\* Terms as the reference names them, all of them read in step t.
Right(sum) ==
  /\ {<<x[1], x[2], x[3].row>> : x \in {w \in sum : w[1] # "0"}}
       = Naive(yy, Segment.z)
  /\ \A x \in sum : x[3].step = t

-----------------------------------------------------------------------------
Init ==
  /\ type \in {7, 27}
  /\ pc = "row" /\ t = 0 /\ seg = 1
  /\ yy = Segments[1].begin
  /\ ring = <<0, 1, 2>>
  /\ getReply = 0 /\ putReply = 0
  /\ dma = {}
  /\ origin = [p \in Place |-> [row |-> <<0, 0>>, step |-> Garbage,
                                ends |-> "junk", finite |-> FALSE]]
  /\ answer = {}
  /\ mem = [b \in {0, 1} |-> [r \in BlockRow |->
              Clean(IF b = 0 THEN 0 ELSE Garbage)]]
  /\ ends \in {"zero", "junk"}
  /\ lane27 \in BOOLEAN

\* Mutant: the reply counter keeps its count.
IssueOn(gets) ==
  /\ dma' = dma \cup gets
  /\ getReply' = getReply

Issue(gets) ==
  /\ dma' = dma \cup gets
  /\ getReply' = 0

GetFirst ==
  /\ pc = "row"
  /\ yy = Segment.begin /\ yy < Segment.end
  /\ Issue(FirstGets)
  /\ pc' = "first"
  /\ UNCHANGED <<type, t, seg, yy, ring, putReply, origin, answer, mem, ends,
                 lane27>>

GetNext ==
  /\ \/ pc = "row" /\ yy # Segment.begin /\ yy < Segment.end
     \/ pc = "first" /\ getReply = Cardinality(FirstGets)
  /\ Issue(NextGets)
  /\ pc' = "get"
  /\ UNCHANGED <<type, t, seg, yy, ring, putReply, origin, answer, mem, ends,
                 lane27>>

\* Mutant: one reply too few.
TwoGetsDone == getReply >= 2

GetsDone == getReply = 3

Compute ==
  /\ pc = "get"
  /\ GetsDone
  /\ answer' = IF type = 7 THEN Sum7 ELSE Sum27
  /\ pc' = "put"
  /\ UNCHANGED <<type, t, seg, yy, ring, getReply, putReply, dma, origin, mem,
                 ends, lane27>>

Rotated == [i \in 1 .. 3 |-> (ring[i] + 1) % 3]

Put ==
  /\ pc = "put"
  /\ putReply' = 0
  /\ dma' = dma \cup {[op |-> "put", row |-> <<yy, Segment.z>>]}
  /\ ring' = Rotated
  /\ pc' = "wait"
  /\ UNCHANGED <<type, t, seg, yy, getReply, origin, answer, mem, ends, lane27>>

\* Mutant: the put is not waited for.
PutForgotten == TRUE

PutDone == putReply = 1

WaitPut ==
  /\ pc = "wait"
  /\ PutDone
  /\ yy' = yy + 1
  /\ pc' = "row"
  /\ UNCHANGED <<type, t, seg, ring, getReply, putReply, dma, origin, answer,
                 mem, ends, lane27>>

\* The next segment; after the last one the next step (the barriers).
EndSegment ==
  LET last == seg = Len(Segments)
  IN /\ pc = "row"
     /\ yy >= Segment.end
     /\ seg' = IF last THEN 1 ELSE seg + 1
     /\ t' = IF last THEN t + 1 ELSE t
     /\ yy' = Segments[seg'].begin
     /\ ring' = <<0, 1, 2>>
     /\ pc' = IF t' = NT THEN "end" ELSE "row"
     /\ UNCHANGED <<type, getReply, putReply, dma, origin, answer, mem, ends,
                    lane27>>

\* A get ends: its one or two rows are in place and the reply is counted.
TransferIn(q) ==
  /\ q.op = "get"
  /\ origin' = [p \in Place |->
       IF p[2] = q.place[2] /\ p[1] - q.place[1] \in 0 .. q.n - 1
         THEN Fetched(<<q.row[1] + p[1] - q.place[1], q.row[2]>>)
         ELSE origin[p]]
  /\ getReply' = getReply + 1
  /\ UNCHANGED <<mem, putReply>>

\* A put ends: answer goes to dest, its two ends included.
TransferOut(q) ==
  /\ q.op = "put"
  /\ mem' = [mem EXCEPT ![Dest][q.row] =
       [step |-> IF Right(answer) THEN t + 1 ELSE Garbage, ends |-> ends,
        finite |-> \A x \in answer : x[3].finite]]
  /\ putReply' = putReply + 1
  /\ UNCHANGED <<origin, getReply>>

Transfer ==
  \E q \in dma :
    /\ TransferIn(q) \/ TransferOut(q)
    /\ dma' = dma \ {q}
    /\ UNCHANGED <<type, pc, t, seg, yy, ring, answer, ends, lane27>>

Next ==
  \/ GetFirst \/ GetNext \/ Compute \/ Put \/ WaitPut \/ EndSegment
  \/ Transfer

Spec == Init /\ [][Next]_vars

\* The slave runs, and every transfer comes to its end.
FairSpec == Spec /\ WF_vars(Next) /\ WF_vars(Transfer)

-----------------------------------------------------------------------------
\* The variables have values of their types.
TypeOK ==
  /\ pc \in {"row", "first", "get", "put", "wait", "end"}
  /\ t \in 0 .. NT /\ seg \in DOMAIN Segments /\ yy \in 1 .. LY + 1
  /\ ring \in [1 .. 3 -> 0 .. 2]
  /\ getReply \in 0 .. 3 /\ putReply \in 0 .. 1
  /\ DOMAIN origin = Place
  /\ \A b \in {0, 1}, r \in BlockRow : mem[b][r].step \in 0 .. NT \cup {Garbage}

\* The sum of a row has the weights, the shifts and the rows of the reference,
\* each row as it was at the beginning of the step: no row of the ring is read
\* before its transfer has ended or at the place of another.
SumIsNaive == pc = "put" => Right(answer)

\* The array a step reads is whole and of that step, from the first row of the
\* step to the last; and a row that is being put is the one that answer holds,
\* until it is there.
SourceWhole ==
  /\ \A r \in BlockRow : mem[Src][r].step = t
  /\ \A q \in dma : q.op = "put" => q.row = <<yy, Segment.z>>

\* The slave comes to the end: it waits for as many replies as it will get.
Termination == <>(pc = "end")

\* Local memory nobody has set reaches the result in two ways only.  The cells
\* a sum takes from the x halo are zero, as README.md wants the boundary, unless
\* the two ends of answer were not; and the grid stays finite, as it began,
\* unless they or data[27] were not: rows of the ring that have not arrived, which hold
\* anything, never reach it.
CleanUnlessUnset ==
  /\ ends = "zero" => \A x \in answer : x[2] # 0 => x[3].ends = "zero"
  /\ ends = "zero" /\ (type = 7 \/ lane27) => \A r \in BlockRow : mem[Src][r].finite

=============================================================================
