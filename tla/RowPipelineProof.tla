-------------------------- MODULE RowPipelineProof --------------------------
(***************************************************************************)
(* Proofs about RowPipeline, for blocks of every size, every number of     *)
(* steps, both stencils and every list of segments that has each row of    *)
(* the block once: type correctness, SourceWhole, SumIsNaive and           *)
(* CleanUnlessUnset.                                                       *)
(*                                                                         *)
(* The inductive invariant says where the rows are.  Two places of the     *)
(* ring hold the row before the one to compute and that row itself         *)
(* (Window), whichever transfers of the next three have ended (InFlight);  *)
(* the array that is read is whole and of the step (SourceRight), and the  *)
(* other has every row that was put in this step (DestRight).              *)
(***************************************************************************)
EXTENDS RowPipeline, FiniteSetTheorems, TLAPS

\* The planes of which the ring holds three rows.
Planes == IF type = 7 THEN {1} ELSE 0 .. 2

\* Nothing unset has reached row x, unless it was unset in the two ends of
\* answer or in data[27].
CleanRow(x) ==
  /\ ends = "zero" => x.ends = "zero"
  /\ type = 7 \/ lane27 => x.finite

\* Place p has row y of plane k of the three, of this step.
Holds(p, y, k) ==
  /\ origin[p].row = <<y, Segment.z + k - 1>>
  /\ origin[p].step = t
  /\ CleanRow(origin[p])

\* The i-th place of the ring has row y - 1 and the j-th row y.
Window(i, j, y) ==
  \A k \in Planes :
    Holds(<<ring[i], k>>, y - 1, k) /\ Holds(<<ring[j], k>>, y, k)

\* The rows of get q are in their places.
Landed(q) ==
  \A j \in 0 .. q.n - 1 :
    Holds(<<q.place[1] + j, q.place[2]>>, q.row[1] + j, q.place[2])

\* Of these gets some have ended, and getReply counts them.
InFlight(gets) ==
  /\ dma \subseteq gets
  /\ getReply + Cardinality(dma) = Cardinality(gets)
  /\ \A q \in gets \ dma : Landed(q)

ThePut == [op |-> "put", row |-> <<yy, Segment.z>>]

InSegment(r, s) ==
  /\ r[2] = Segments[s].z
  /\ r[1] \in Segments[s].begin .. Segments[s].end - 1

\* Row r has been put in this step.
Written(r) ==
  \/ \E s \in 1 .. seg - 1 : InSegment(r, s)
  \/ /\ InSegment(r, seg)
     /\ r[1] < yy \/ (r[1] = yy /\ pc = "wait" /\ putReply = 1)

-----------------------------------------------------------------------------
(* The parts of the inductive invariant.                                   *)

Row == [step : 0 .. NT \cup {Garbage}, ends : {"zero", "junk"}, finite : BOOLEAN]

Types ==
  /\ TypeOK
  /\ type \in {7, 27} /\ ends \in {"zero", "junk"} /\ lane27 \in BOOLEAN
  /\ mem \in [{0, 1} -> [BlockRow -> Row]]

\* Where the slave is in its segment.
Control ==
  /\ Segment.begin <= yy
  /\ pc \in {"first", "get", "put", "wait"} => yy < Segment.end
  /\ pc = "first" => yy = Segment.begin
  /\ pc = "end" <=> t = NT

\* y0, y1 and y2 are three places, in the order of the ring.
RingTurns ==
  /\ ring[2] = (ring[1] + 1) % 3 /\ ring[3] = (ring[2] + 1) % 3
  /\ pc \in {"row", "first"} /\ yy = Segment.begin => ring[1] = 0

\* The transfers under way, and the rows that have arrived.
Transfers ==
  /\ pc \in {"row", "put", "end"} => dma = {}
  /\ pc = "first" => InFlight(FirstGets)
  /\ pc = "get" => InFlight(NextGets)
  /\ pc = "wait" => \/ dma = {ThePut} /\ putReply = 0
                    \/ dma = {} /\ putReply = 1

Windows ==
  /\ pc = "row" /\ yy # Segment.begin => Window(1, 2, yy)
  /\ pc = "get" => Window(1, 2, yy)
  /\ pc = "put" => Window(2, 3, yy + 1)
  /\ pc = "wait" => Window(1, 2, yy + 1)

AnswerRight ==
  /\ pc \in {"put", "wait"} => Right(answer)
  /\ \A x \in answer : CleanRow(x[3])

SourceRight ==
  \A r \in BlockRow : mem[Src][r].step = t /\ CleanRow(mem[Src][r])

DestRight ==
  \A r \in BlockRow :
    Written(r) => mem[Dest][r].step = t + 1 /\ CleanRow(mem[Dest][r])

IInv ==
  /\ Types /\ Control /\ RingTurns /\ Transfers /\ Windows
  /\ AnswerRight /\ SourceRight /\ DestRight

-----------------------------------------------------------------------------
(* The constants, and the gets.                                            *)

\* A segment is in the block.
LEMMA SegmentTypes ==
  ASSUME NEW s \in DOMAIN Segments
  PROVE  /\ Segments[s].z \in 1 .. LZ /\ Segments[s].begin \in 1 .. LY
         /\ Segments[s].end \in 1 .. LY + 1
         /\ s \in Nat \ {0} /\ s <= Len(Segments) /\ Len(Segments) \in Nat
         /\ LY \in Nat \ {0} /\ LZ \in Nat \ {0} /\ NT \in Nat \ {0}
         /\ 1 \in DOMAIN Segments /\ DOMAIN Segments = 1 .. Len(Segments)
<1> DEFINE S == [z : 1 .. LZ, begin : 1 .. LY, end : 1 .. LY + 1]
<1>1. /\ Segments \in Seq(S)
      /\ LY \in Nat \ {0} /\ LZ \in Nat \ {0} /\ NT \in Nat \ {0}
  BY RowPipelineAssumption DEF RowPipelineAssumption
<1> HIDE DEF S
<1>2. DOMAIN Segments = 1 .. Len(Segments) /\ Len(Segments) \in Nat
  BY <1>1
<1>3. Segments[s] \in S
  BY <1>1, <1>2
<1> USE DEF S
<1> QED
  BY <1>1, <1>2, <1>3

\* Every row of the block is in a segment.
LEMMA RowsHaveSegments ==
  ASSUME NEW r \in BlockRow
  PROVE  \E s \in DOMAIN Segments : InSegment(r, s)
<1> DEFINE S == {s \in DOMAIN Segments :
         /\ Segments[s].z = r[2]
         /\ r[1] \in Segments[s].begin .. Segments[s].end - 1}
<1>1. Cardinality(S) = 1
  BY RowPipelineAssumption DEF RowPipelineAssumption
<1>2. S # {}
  BY <1>1, FS_EmptySet
<1> QED
  BY <1>2 DEF InSegment

\* Segments is not empty: the block has a row.
LEMMA SomeSegment == 1 \in DOMAIN Segments
<1>1. <<1, 1>> \in BlockRow
  BY RowPipelineAssumption DEF RowPipelineAssumption, BlockRow
<1>2. PICK s \in DOMAIN Segments : InSegment(<<1, 1>>, s)
  BY <1>1, RowsHaveSegments
<1> QED
  BY <1>2, SegmentTypes

\* Three different things are three.
LEMMA Three ==
  ASSUME NEW a, NEW b, NEW c, a # b, a # c, b # c
  PROVE  IsFiniteSet({a, b, c}) /\ Cardinality({a, b, c}) = 3
<1>1. IsFiniteSet({a}) /\ Cardinality({a}) = 1
  BY FS_Singleton
<1>2. IsFiniteSet({a} \cup {b}) /\ Cardinality({a} \cup {b}) = 2
  BY <1>1, FS_AddElement
<1>3. IsFiniteSet(({a} \cup {b}) \cup {c}) /\ Cardinality(({a} \cup {b}) \cup {c}) = 3
  <2>1. c \notin {a} \cup {b}
    OBVIOUS
  <2> QED
    BY <1>2, <2>1, FS_AddElement
<1>4. ({a} \cup {b}) \cup {c} = {a, b, c}
  OBVIOUS
<1> QED
  BY <1>3, <1>4

\* A get of one or two rows of one of the three planes, in the ring.
IsGet(q) ==
  /\ q.op = "get" /\ q.n \in {1, 2}
  /\ q.place[1] \in 0 .. 3 - q.n /\ q.place[2] \in 0 .. 2
  /\ q.row[1] \in Int /\ q.row[2] = Segment.z + q.place[2] - 1

\* The places a get writes.
Touched(q) ==
  {p \in Place : p[2] = q.place[2] /\ p[1] - q.place[1] \in 0 .. q.n - 1}

\* The gets of a set write different places.
Apart(gets) ==
  \A q, r \in gets : q # r => Touched(q) \cap Touched(r) = {}

\* The gets before a segment: one or three of them, into the places 0 and 1.
LEMMA FirstGetsRight ==
  ASSUME Types
  PROVE  /\ IsFiniteSet(FirstGets) /\ Cardinality(FirstGets) \in 1 .. 3
         /\ \A q \in FirstGets : IsGet(q)
         /\ Apart(FirstGets)
<1> DEFINE g(k) == Get(yy - 1, Segment.z + k - 1, <<0, k>>, 2)
<1>1. seg \in DOMAIN Segments /\ yy \in Int /\ Segment.z \in Int
  BY SegmentTypes DEF Types, TypeOK, Segment
<1>2. \A k \in 0 .. 2 : IsGet(g(k))
  BY <1>1 DEF IsGet, Get
<1>3. \A k \in 0 .. 2 : Touched(g(k)) = {p \in Place : p[2] = k /\ p[1] \in {0, 1}}
  BY DEF Touched, Get, Place
<1>4. CASE type = 7
  <2>1. FirstGets = {g(1)}
    BY <1>1, <1>4 DEF FirstGets
  <2>2. IsFiniteSet({g(1)}) /\ Cardinality({g(1)}) = 1
    BY FS_Singleton
  <2> QED
    BY <2>1, <2>2, <1>2 DEF Apart
<1>5. CASE type = 27
  <2>1. FirstGets = {g(0), g(1), g(2)}
    BY <1>1, <1>5 DEF FirstGets
  <2>2. g(0) # g(1) /\ g(0) # g(2) /\ g(1) # g(2)
    BY DEF Get
  <2> HIDE DEF g
  <2>3. IsFiniteSet(FirstGets) /\ Cardinality(FirstGets) = 3
    BY <2>1, <2>2, Three
  <2> QED
    BY <2>1, <2>3, <1>2, <1>3 DEF Apart
<1> QED
  BY <1>4, <1>5 DEF Types

\* The three places of the ring.
LEMMA RingPlaces ==
  ASSUME Types, RingTurns
  PROVE  /\ ring[1] \in 0 .. 2 /\ ring[2] \in 0 .. 2 /\ ring[3] \in 0 .. 2
         /\ ring[1] # ring[2] /\ ring[1] # ring[3] /\ ring[2] # ring[3]
         /\ (ring[3] + 1) % 3 = ring[1]
BY DEF Types, TypeOK, RingTurns

\* The gets before a row: three of one row each, into different places.
LEMMA NextGetsRight ==
  ASSUME Types, RingTurns
  PROVE  /\ IsFiniteSet(NextGets) /\ Cardinality(NextGets) = 3
         /\ \A q \in NextGets : IsGet(q) /\ Touched(q) = {q.place}
         /\ Apart(NextGets)
<1> DEFINE g(y, k, i) == Get(y, Segment.z + k - 1, <<i, k>>, 1)
           G == IF type = 7
                  THEN {g(yy + 1, 1, ring[3]), g(yy, 0, ring[2]), g(yy, 2, ring[2])}
                  ELSE {g(yy + 1, 0, ring[3]), g(yy + 1, 1, ring[3]), g(yy + 1, 2, ring[3])}
<1>1. /\ seg \in DOMAIN Segments /\ yy \in Int /\ Segment.z \in Int
      /\ type \in {7, 27}
  BY SegmentTypes DEF Types, TypeOK, Segment
<1>2. \A y \in Int, k \in 0 .. 2, i \in 0 .. 2 :
        IsGet(g(y, k, i)) /\ Touched(g(y, k, i)) = {g(y, k, i).place}
  BY <1>1 DEF IsGet, Get, Touched, Place
<1>3. NextGets = G
  <2>1. g(yy, 0, ring[2]) = Get(yy, Segment.z - 1, <<ring[2], 0>>, 1)
    BY <1>1 DEF Get
  <2>2. g(yy, 2, ring[2]) = Get(yy, Segment.z + 1, <<ring[2], 2>>, 1)
    BY <1>1 DEF Get
  <2>3. g(yy + 1, 1, ring[3]) = Get(yy + 1, Segment.z, <<ring[3], 1>>, 1)
    BY <1>1 DEF Get
  <2>4. CASE type = 7
    BY <2>1, <2>2, <2>3, <2>4 DEF NextGets
  <2>5. CASE type = 27
    BY <2>5 DEF NextGets
  <2> QED
    BY <1>1, <2>4, <2>5
<1>4. \A y1, y2 \in Int, k1, k2, i1, i2 \in 0 .. 2 :
        k1 # k2 \/ i1 # i2 => g(y1, k1, i1).place # g(y2, k2, i2).place
  BY DEF Get
<1> HIDE DEF g
<1>5. IsFiniteSet(G) /\ Cardinality(G) = 3
  <2> DEFINE a == IF type = 7 THEN g(yy + 1, 1, ring[3]) ELSE g(yy + 1, 0, ring[3])
             b == IF type = 7 THEN g(yy, 0, ring[2]) ELSE g(yy + 1, 1, ring[3])
             c == IF type = 7 THEN g(yy, 2, ring[2]) ELSE g(yy + 1, 2, ring[3])
  <2>1. a # b /\ a # c /\ b # c
    BY <1>1, <1>4, RingPlaces
  <2>2. G = {a, b, c}
    BY <1>1
  <2> HIDE DEF a, b, c, G
  <2> QED
    BY <2>1, <2>2, Three
<1>6. \A q, r \in G : q # r => q.place # r.place
  BY <1>1, <1>4, RingPlaces
<1>7. \A q \in G : IsGet(q) /\ Touched(q) = {q.place}
  BY <1>1, <1>2, RingPlaces
<1> QED
  BY <1>3, <1>5, <1>6, <1>7 DEF Apart

-----------------------------------------------------------------------------
(* What arrives, and what is computed of it.                               *)

\* A transfer brings the row it was asked for, as the step finds it.
LEMMA FetchedRight ==
  ASSUME Types, SourceRight, NEW y \in Int, NEW z \in Int
  PROVE  LET x == Fetched(<<y, z>>)
         IN x.row = <<y, z>> /\ x.step = t /\ CleanRow(x)
<1>1. CASE <<y, z>> \in BlockRow
  BY <1>1 DEF SourceRight, Fetched, CleanRow
<1>2. CASE <<y, z>> \notin BlockRow
  BY <1>2 DEF Fetched, Clean, CleanRow
<1> QED
  BY <1>1, <1>2

\* One of the gets ends: it is in place, nothing else is overwritten, and
\* getReply counts it.
LEMMA GetArrives ==
  ASSUME Types, SourceRight, NEW gets, IsFiniteSet(gets), InFlight(gets),
         \A q \in gets : IsGet(q), Apart(gets),
         NEW q \in dma, TransferIn(q), dma' = dma \ {q},
         UNCHANGED <<type, pc, t, seg, yy, ring, answer, ends, lane27>>
  PROVE  /\ dma' \subseteq gets
         /\ getReply' + Cardinality(dma') = Cardinality(gets)
         /\ \A r \in gets \ dma' : Landed(r)'
         /\ \A p \in Place \ Touched(q) : origin'[p] = origin[p]
         /\ DOMAIN origin' = Place
<1>1. q \in gets /\ IsGet(q) /\ getReply' = getReply + 1
  BY DEF InFlight, TransferIn
<1>2. IsFiniteSet(dma) /\ Cardinality(dma') = Cardinality(dma) - 1
  BY FS_Subset, FS_RemoveElement DEF InFlight
<1>3. Cardinality(dma) \in Nat /\ Cardinality(gets) \in Nat /\ getReply \in Nat
  BY <1>2, FS_CardinalityType DEF Types, TypeOK
<1>4. /\ \A p \in Place \ Touched(q) : origin'[p] = origin[p]
      /\ DOMAIN origin' = Place
      /\ \A p \in Touched(q) :
           origin'[p] = Fetched(<<q.row[1] + p[1] - q.place[1], q.row[2]>>)
  BY DEF TransferIn, Touched
<1>5. \A p, y, k : Holds(p, y, k) /\ origin'[p] = origin[p] => Holds(p, y, k)'
  BY DEF Holds, CleanRow, Segment
<1>6. \A r \in gets : IsGet(r) =>
        \A j \in 0 .. r.n - 1 : <<r.place[1] + j, r.place[2]>> \in Touched(r)
  BY DEF IsGet, Touched, Place
<1>7. Landed(q)'
  <2> SUFFICES ASSUME NEW j \in 0 .. q.n - 1
               PROVE  Holds(<<q.place[1] + j, q.place[2]>>, q.row[1] + j, q.place[2])'
    BY DEF Landed
  <2> DEFINE p == <<q.place[1] + j, q.place[2]>>
             x == Fetched(<<q.row[1] + j, q.row[2]>>)
  <2>1. p \in Touched(q) /\ q.row[1] + p[1] - q.place[1] = q.row[1] + j
    BY <1>1, <1>6 DEF IsGet
  <2>2. origin'[p] = x
    BY <1>4, <2>1
  <2>3. Segment.z \in Int
    BY SegmentTypes DEF Segment, Types, TypeOK
  <2>4. q.row[1] + j \in Int /\ q.row[2] \in Int
    BY <1>1, <2>3 DEF IsGet
  <2>5. x.row = <<q.row[1] + j, q.row[2]>> /\ x.step = t /\ CleanRow(x)
    BY <2>4, FetchedRight
  <2>6. q.row[2] = Segment.z + q.place[2] - 1
    BY <1>1 DEF IsGet
  <2> HIDE DEF p, x
  <2>7. Holds(p, q.row[1] + j, q.place[2])'
    BY <2>2, <2>5, <2>6 DEF Holds, CleanRow, Segment
  <2> QED
    BY <2>7 DEF p
<1>8. ASSUME NEW r \in gets \ dma, r # q
      PROVE  Landed(r)'
  <2> SUFFICES ASSUME NEW j \in 0 .. r.n - 1
               PROVE  Holds(<<r.place[1] + j, r.place[2]>>, r.row[1] + j, r.place[2])'
    BY DEF Landed
  <2> DEFINE p == <<r.place[1] + j, r.place[2]>>
  <2>1. p \in Touched(r)
    BY <1>6
  <2>2. p \notin Touched(q) /\ p \in Place
    BY <1>1, <1>8, <2>1 DEF Apart, Touched
  <2>3. Holds(p, r.row[1] + j, r.place[2])
    BY <1>8 DEF InFlight, Landed
  <2> QED
    BY <1>4, <1>5, <2>2, <2>3
<1> QED
  BY <1>1, <1>2, <1>3, <1>4, <1>7, <1>8 DEF InFlight

\* The rows of stencil_7 when its gets have ended.
LEMMA Seven ==
  ASSUME Types, RingTurns, type = 7, Window(1, 2, yy),
         \A q \in NextGets : Landed(q)
  PROVE  /\ \A i \in 1 .. 3 : Holds(<<ring[i], 1>>, yy + i - 2, 1)
         /\ Holds(<<ring[2], 0>>, yy, 0) /\ Holds(<<ring[2], 2>>, yy, 2)
<1>1. yy \in Int
  BY DEF Types, TypeOK
<1>2. Landed(Get(yy + 1, Segment.z, <<ring[3], 1>>, 1))
  BY DEF NextGets
<1>3. Landed(Get(yy, Segment.z - 1, <<ring[2], 0>>, 1))
  BY DEF NextGets
<1>4. Landed(Get(yy, Segment.z + 1, <<ring[2], 2>>, 1))
  BY DEF NextGets
<1>5. \A y, z \in Int, i, k \in 0 .. 2 :
        Landed(Get(y, z, <<i, k>>, 1)) => Holds(<<i, k>>, y, k)
  BY DEF Landed, Get
<1>6. Segment.z \in Int
  BY SegmentTypes DEF Segment, Types, TypeOK
<1>7. /\ Holds(<<ring[3], 1>>, yy + 1, 1)
      /\ Holds(<<ring[2], 0>>, yy, 0) /\ Holds(<<ring[2], 2>>, yy, 2)
  BY <1>1, <1>2, <1>3, <1>4, <1>5, <1>6, RingPlaces
<1>8. Holds(<<ring[1], 1>>, yy - 1, 1) /\ Holds(<<ring[2], 1>>, yy, 1)
  BY DEF Window, Planes
<1>9. yy - 1 = yy + 1 - 2 /\ yy = yy + 2 - 2 /\ yy + 1 = yy + 3 - 2
  BY <1>1
<1> QED
  BY <1>7, <1>8, <1>9

\* The rows of stencil_27 when its gets have ended.
LEMMA TwentySeven ==
  ASSUME Types, RingTurns, type = 27, Window(1, 2, yy),
         \A q \in NextGets : Landed(q)
  PROVE  \A i \in 1 .. 3, k \in 0 .. 2 : Holds(<<ring[i], k>>, yy + i - 2, k)
<1>1. yy \in Int
  BY DEF Types, TypeOK
<1>2. \A k \in 0 .. 2 : Landed(Get(yy + 1, Segment.z + k - 1, <<ring[3], k>>, 1))
  BY DEF NextGets
<1>3. \A y, z \in Int, i, k \in 0 .. 2 :
        Landed(Get(y, z, <<i, k>>, 1)) => Holds(<<i, k>>, y, k)
  BY DEF Landed, Get
<1>4. Segment.z \in Int
  BY SegmentTypes DEF Segment, Types, TypeOK
<1>5. \A k \in 0 .. 2 : Holds(<<ring[3], k>>, yy + 1, k)
  BY <1>1, <1>2, <1>3, <1>4, RingPlaces
<1>6. \A k \in 0 .. 2 : Holds(<<ring[1], k>>, yy - 1, k) /\ Holds(<<ring[2], k>>, yy, k)
  BY DEF Window, Planes
<1>7. yy - 1 = yy + 1 - 2 /\ yy = yy + 2 - 2 /\ yy + 1 = yy + 3 - 2
  BY <1>1
<1> QED
  BY <1>5, <1>6, <1>7

Off == IF type = 7 THEN Offsets7 ELSE Offsets27

\* A term of the sum that is one of the reference, of this step.
TermRight(x) ==
  /\ x[1] \in DOMAIN Off
  /\ x[2] = Off[x[1]][1]
  /\ Holds(<<ring[Off[x[1]][2] + 2], Off[x[1]][3] + 1>>, yy + Off[x[1]][2],
           Off[x[1]][3] + 1)
  /\ x[3] = origin[<<ring[Off[x[1]][2] + 2], Off[x[1]][3] + 1>>]

\* A sum is right that has one right term per weight, and besides at most
\* one with the weight zero.
LEMMA TermsMakeSum ==
  ASSUME Types, NEW sum,
         \A x \in sum : \/ TermRight(x)
                        \/ x[1] = "0" /\ x[3].step = t /\ CleanRow(x[3]),
         \A a \in DOMAIN Off :
           /\ a # "0"
           /\ Off[a][3] \in -1 .. 1
           /\ \E x \in sum : x[1] = a
  PROVE  Right(sum) /\ \A x \in sum : CleanRow(x[3])
<1> DEFINE term(x) == <<x[1], x[2], x[3].row>>
           naive(a) == <<a, Off[a][1], <<yy + Off[a][2], Segment.z + Off[a][3]>>>>
           named == {w \in sum : w[1] # "0"}
<1>1. Segment.z \in Int
  BY SegmentTypes DEF Segment, Types, TypeOK
<1>2. \A x \in sum : TermRight(x) =>
        x[1] \in DOMAIN Off /\ x[1] # "0" /\ term(x) = naive(x[1])
  <2> SUFFICES ASSUME NEW x \in sum, TermRight(x)
               PROVE  x[3].row = <<yy + Off[x[1]][2], Segment.z + Off[x[1]][3]>>
    BY DEF TermRight
  <2>1. x[3].row = <<yy + Off[x[1]][2], Segment.z + (Off[x[1]][3] + 1) - 1>>
    BY DEF TermRight, Holds
  <2>2. Off[x[1]][3] \in Int
    BY DEF TermRight
  <2> QED
    BY <1>1, <2>1, <2>2
<1>3. {term(x) : x \in named} = {naive(a) : a \in DOMAIN Off}
  <2> HIDE DEF term, naive
  <2>1. ASSUME NEW x \in named PROVE \E a \in DOMAIN Off : term(x) = naive(a)
    BY <1>2
  <2>2. ASSUME NEW a \in DOMAIN Off PROVE \E x \in named : term(x) = naive(a)
    BY <1>2
  <2> QED
    BY <2>1, <2>2
<1>4. \A x \in sum : x[3].step = t /\ CleanRow(x[3])
  BY DEF TermRight, Holds
<1> QED
  BY <1>3, <1>4 DEF Right, Naive, NaiveTerms, Off

\* The sum of stencil_7.
LEMMA SumOfSeven ==
  ASSUME Types, RingTurns, type = 7, Window(1, 2, yy),
         \A q \in NextGets : Landed(q)
  PROVE  Right(Sum7) /\ \A x \in Sum7 : CleanRow(x[3])
<1>1. yy \in Int /\ Off = Offsets7
  BY DEF Types, TypeOK, Off
<1>2. /\ Holds(<<ring[1], 1>>, yy - 1, 1) /\ Holds(<<ring[2], 1>>, yy, 1)
      /\ Holds(<<ring[3], 1>>, yy + 1, 1)
      /\ Holds(<<ring[2], 0>>, yy, 0) /\ Holds(<<ring[2], 2>>, yy, 2)
  <2>1. yy + 1 - 2 = yy - 1 /\ yy + 2 - 2 = yy /\ yy + 3 - 2 = yy + 1
    BY <1>1
  <2> QED
    BY <2>1, Seven
<1>3. \A x \in Sum7 : TermRight(x)
  <2>1. yy + 0 = yy /\ yy + -1 = yy - 1
    BY <1>1
  <2> QED
    BY <1>1, <1>2, <2>1 DEF Sum7, TermRight, Offsets7
<1>4. \A a \in DOMAIN Off : /\ a # "0" /\ Off[a][3] \in -1 .. 1
                            /\ \E x \in Sum7 : x[1] = a
  BY <1>1 DEF Sum7, Offsets7
<1> QED
  BY <1>3, <1>4, TermsMakeSum

\* The lane k has the weight, the shift and the row of one cell around.
Lane(k) ==
  /\ Alpha[k + 1] \in DOMAIN Offsets27 /\ Alpha[k + 1] # "0"
  /\ Offsets27[Alpha[k + 1]] =
       <<(k % 3) - 1, ((k \div 3) % 3) - 1, (k \div 9) - 1>>

\* All lanes do, and no weight is missing.
LEMMA Lanes ==
  /\ \A k \in 0 .. 26 : Lane(k)
  /\ \A a \in DOMAIN Offsets27 : \E k \in 0 .. 26 : Alpha[k + 1] = a
<1>1. Lane(0) /\ Lane(1) /\ Lane(2) /\ Lane(3) /\ Lane(4) /\ Lane(5)
  BY DEF Alpha, Offsets27, Lane
<1>2. Lane(6) /\ Lane(7) /\ Lane(8) /\ Lane(9) /\ Lane(10) /\ Lane(11)
  BY DEF Alpha, Offsets27, Lane
<1>3. Lane(12) /\ Lane(13) /\ Lane(14) /\ Lane(15) /\ Lane(16) /\ Lane(17)
  BY DEF Alpha, Offsets27, Lane
<1>4. Lane(18) /\ Lane(19) /\ Lane(20) /\ Lane(21) /\ Lane(22) /\ Lane(23)
  BY DEF Alpha, Offsets27, Lane
<1>5. Lane(24) /\ Lane(25) /\ Lane(26)
  BY DEF Alpha, Offsets27, Lane
<1>6. \A k \in 0 .. 26 : Lane(k)
  BY <1>1, <1>2, <1>3, <1>4, <1>5
<1>7. \A a \in DOMAIN Offsets27 : \E k \in 0 .. 26 : Alpha[k + 1] = a
  BY DEF Alpha, Offsets27
<1> QED
  BY <1>6, <1>7

\* The sum of stencil_27.
LEMMA SumOfTwentySeven ==
  ASSUME Types, RingTurns, type = 27, Window(1, 2, yy),
         \A q \in NextGets : Landed(q)
  PROVE  Right(Sum27) /\ \A x \in Sum27 : CleanRow(x[3])
<1> DEFINE lane(k) ==
             <<Alpha[k + 1], (k % 3) - 1,
               origin[<<ring[((k \div 3) % 3) + 1], k \div 9>>]>>
           last == <<"0", 0, [row |-> <<0, 0>>, step |-> t, ends |-> "zero",
                              finite |-> lane27]>>
<1>1. yy \in Int /\ Off = Offsets27
  BY DEF Types, TypeOK, Off
<1>2. Sum27 = {lane(k) : k \in 0 .. 26} \cup {last}
  BY DEF Sum27
<1>3. ASSUME NEW k \in 0 .. 26
      PROVE  TermRight(lane(k)) /\ Off[Alpha[k + 1]][3] \in -1 .. 1
  <2> DEFINE i == (k \div 3) % 3
             j == k \div 9
             a == Alpha[k + 1]
  <2>1. i \in 0 .. 2 /\ j \in 0 .. 2
    OBVIOUS
  <2>2. /\ a \in DOMAIN Off
        /\ Off[a][1] = (k % 3) - 1 /\ Off[a][2] = i - 1 /\ Off[a][3] = j - 1
    <3>1. Lane(k)
      BY Lanes
    <3>2. a \in DOMAIN Off /\ Off[a] = <<(k % 3) - 1, i - 1, j - 1>>
      BY <1>1, <3>1 DEF Lane
    <3> HIDE DEF a, i, j
    <3> QED
      BY <3>2
  <2> HIDE DEF i, j
  <2>3. Off[a][2] + 2 = i + 1 /\ Off[a][3] + 1 = j /\ yy + Off[a][2] = yy + (i + 1) - 2
    BY <1>1, <2>1, <2>2
  <2>4. Holds(<<ring[i + 1], j>>, yy + (i + 1) - 2, j)
    BY <2>1, TwentySeven
  <2>5. lane(k)[3] = origin[<<ring[i + 1], j>>]
    BY DEF i, j
  <2>6. lane(k)[1] = a /\ lane(k)[2] = (k % 3) - 1
    OBVIOUS
  <2> HIDE DEF lane, a
  <2> QED
    BY <2>1, <2>2, <2>3, <2>4, <2>5, <2>6 DEF TermRight, a
<1>4. last[1] = "0" /\ last[3].step = t /\ CleanRow(last[3])
  BY DEF CleanRow
<1>5. \A k \in 0 .. 26 : lane(k)[1] = Alpha[k + 1]
  OBVIOUS
<1>6. \A a \in DOMAIN Off : \E k \in 0 .. 26 : Alpha[k + 1] = a /\ a # "0"
  BY <1>1, Lanes DEF Lane
<1> HIDE DEF lane, last
<1>7. \A a \in DOMAIN Off : /\ a # "0" /\ Off[a][3] \in -1 .. 1
                            /\ \E x \in Sum27 : x[1] = a
  BY <1>2, <1>3, <1>5, <1>6
<1>8. \A x \in Sum27 : \/ TermRight(x)
                       \/ x[1] = "0" /\ x[3].step = t /\ CleanRow(x[3])
  BY <1>2, <1>3, <1>4
<1> QED
  BY <1>7, <1>8, TermsMakeSum

-----------------------------------------------------------------------------
(* The steps.                                                              *)

\* The slave begins with the input whole in grid, and nothing written.
LEMMA InitInv == Init => IInv
<1> SUFFICES ASSUME Init PROVE IInv
  OBVIOUS
<1> USE DEF Init
<1>0. /\ 1 \in DOMAIN Segments /\ NT \in Nat \ {0} /\ LY \in Nat \ {0}
      /\ Segments[1].begin \in 1 .. LY
  BY SegmentTypes, RowPipelineAssumption, SomeSegment
<1>1. Types
  BY <1>0 DEF Types, TypeOK, Row, Clean, Garbage, Place
<1>2. Control
  BY <1>0 DEF Control, Segment
<1>3. RingTurns
  BY DEF RingTurns
<1>4. Transfers /\ Windows /\ AnswerRight
  BY DEF Transfers, Windows, AnswerRight, Segment
<1>5. SourceRight
  BY DEF SourceRight, Src, Clean, CleanRow
<1>6. DestRight
  <2>1. \A r : ~ Written(r)
    BY <1>0 DEF Written, InSegment
  <2> QED
    BY <2>1 DEF DestRight
<1> QED
  BY <1>1, <1>2, <1>3, <1>4, <1>5, <1>6 DEF IInv

\* What a step keeps that changes neither arrays nor the place in the loops.
LEMMA Quiet ==
  ASSUME IInv, UNCHANGED <<type, t, seg, yy, mem, ends, lane27>>,
         pc' # "wait", pc' # "end" <=> pc # "end"
  PROVE  SourceRight' /\ DestRight' /\ Segment' = Segment
<1>1. SourceRight'
  BY DEF IInv, SourceRight, CleanRow, Src
<1>2. \A r : Written(r)' => Written(r)
  BY DEF Written, InSegment
<1>3. DestRight'
  BY <1>2 DEF IInv, DestRight, CleanRow, Dest
<1> QED
  BY <1>1, <1>3 DEF Segment

\* The places keep their rows while nothing arrives.
LEMMA StillHeld ==
  ASSUME UNCHANGED <<type, t, seg, origin, ends, lane27>>
  PROVE  /\ \A p, y, k : Holds(p, y, k) => Holds(p, y, k)'
         /\ \A x : CleanRow(x) => CleanRow(x)'
BY DEF Holds, CleanRow, Segment

\* The transfers before a segment are started.
LEMMA GetFirstInv == IInv /\ GetFirst => IInv'
<1> SUFFICES ASSUME IInv, GetFirst PROVE IInv'
  OBVIOUS
<1> USE DEF GetFirst, Issue
<1>1. Types /\ Types'
  BY DEF IInv, Types, TypeOK
<1>2. SourceRight' /\ DestRight' /\ Segment' = Segment
  BY Quiet
<1>3. Control'
  BY <1>2 DEF IInv, Control
<1>4. RingTurns'
  BY <1>2 DEF IInv, RingTurns
<1>5. Transfers'
  <2>1. FirstGets' = FirstGets
    BY <1>2 DEF FirstGets, Get
  <2>2. dma' = FirstGets /\ getReply' = 0
    BY DEF IInv, Transfers
  <2>3. Cardinality(FirstGets) \in Nat
    BY <1>1, FirstGetsRight
  <2>4. InFlight(FirstGets)'
    BY <2>1, <2>2, <2>3 DEF InFlight
  <2> QED
    BY <2>4 DEF Transfers
<1>6. Windows'
  BY DEF Windows
<1>7. AnswerRight'
  BY DEF IInv, AnswerRight, CleanRow
<1> QED
  BY <1>1, <1>2, <1>3, <1>4, <1>5, <1>6, <1>7 DEF IInv

\* The transfers before a row are started: two rows of the ring are there, from
\* the row before or from the first transfers, which have ended.
LEMMA GetNextInv == IInv /\ GetNext => IInv'
<1> SUFFICES ASSUME IInv, GetNext PROVE IInv'
  OBVIOUS
<1> USE DEF GetNext, Issue
<1>1. Types /\ Types' /\ RingTurns
  BY DEF IInv, Types, TypeOK
<1>2. SourceRight' /\ DestRight' /\ Segment' = Segment
  BY Quiet
<1>3. Control'
  BY <1>2 DEF IInv, Control
<1>4. RingTurns'
  BY <1>2 DEF IInv, RingTurns
<1>5. dma = {} /\ (pc = "first" => \A q \in FirstGets : Landed(q))
  <2>1. CASE pc = "row"
    BY <2>1 DEF IInv, Transfers
  <2>2. CASE pc = "first"
    <3>1. InFlight(FirstGets) /\ getReply = Cardinality(FirstGets)
      BY <2>2 DEF IInv, Transfers
    <3>2. IsFiniteSet(dma)
      BY <1>1, <3>1, FirstGetsRight, FS_Subset DEF InFlight
    <3>3. getReply \in Nat /\ Cardinality(dma) \in Nat
      BY <1>1, <3>2, FS_CardinalityType DEF Types, TypeOK
    <3>4. Cardinality(dma) = 0
      BY <3>1, <3>3 DEF InFlight
    <3>5. dma = {}
      BY <3>2, <3>4, FS_EmptySet
    <3> QED
      BY <3>1, <3>5 DEF InFlight
  <2> QED
    BY <2>1, <2>2
<1>6. Transfers'
  <2>1. NextGets' = NextGets
    BY <1>2 DEF NextGets, Get
  <2>2. dma' = NextGets /\ getReply' = 0
    BY <1>5
  <2>3. Cardinality(NextGets) = 3
    BY <1>1, NextGetsRight
  <2>4. InFlight(NextGets)'
    BY <2>1, <2>2, <2>3 DEF InFlight
  <2> QED
    BY <2>4 DEF Transfers
<1>7. Window(1, 2, yy)
  <2>1. CASE pc = "row"
    BY <2>1 DEF IInv, Windows
  <2>2. CASE pc = "first"
    <3>1. ring[1] = 0 /\ ring[2] = 1
      BY <1>1, <2>2 DEF IInv, RingTurns, Control
    <3>2. yy \in Int
      BY <1>1 DEF Types, TypeOK
    <3>3. \A k \in Planes : Get(yy - 1, Segment.z + k - 1, <<0, k>>, 2) \in FirstGets
      <4>1. Segment.z \in Int
        BY <1>1, SegmentTypes DEF Segment, Types, TypeOK
      <4> QED
        BY <4>1 DEF Planes, FirstGets, Get
    <3>4. \A k : Landed(Get(yy - 1, Segment.z + k - 1, <<0, k>>, 2)) =>
            Holds(<<0, k>>, yy - 1, k) /\ Holds(<<1, k>>, yy, k)
      <4> SUFFICES ASSUME NEW k,
                          Landed(Get(yy - 1, Segment.z + k - 1, <<0, k>>, 2))
                   PROVE  Holds(<<0, k>>, yy - 1, k) /\ Holds(<<1, k>>, yy, k)
        OBVIOUS
      <4>1. \A j \in 0 .. 1 : Holds(<<0 + j, k>>, yy - 1 + j, k)
        BY DEF Landed, Get
      <4>2. Holds(<<0 + 0, k>>, yy - 1 + 0, k) /\ Holds(<<0 + 1, k>>, yy - 1 + 1, k)
        BY <4>1
      <4> QED
        BY <3>2, <4>2
    <3>5. \A k \in Planes : Holds(<<0, k>>, yy - 1, k) /\ Holds(<<1, k>>, yy, k)
      BY <1>5, <2>2, <3>3, <3>4
    <3> QED
      BY <3>1, <3>5 DEF Window
  <2> QED
    BY <2>1, <2>2
<1>8. Windows'
  <2>1. Window(1, 2, yy)'
    BY <1>7, StillHeld DEF Window, Planes
  <2> QED
    BY <2>1 DEF Windows
<1>9. AnswerRight'
  BY DEF IInv, AnswerRight, CleanRow
<1> QED
  BY <1>1, <1>2, <1>3, <1>4, <1>6, <1>8, <1>9 DEF IInv

\* A row is computed when its three transfers have ended.
LEMMA ComputeInv == IInv /\ Compute => IInv'
<1> SUFFICES ASSUME IInv, Compute PROVE IInv'
  OBVIOUS
<1> USE DEF Compute, GetsDone
<1>1. Types /\ Types' /\ RingTurns
  BY DEF IInv, Types, TypeOK
<1>2. SourceRight' /\ DestRight' /\ Segment' = Segment
  BY Quiet
<1>3. Control'
  BY <1>2 DEF IInv, Control
<1>4. RingTurns'
  BY <1>2 DEF IInv, RingTurns
<1>5. InFlight(NextGets) /\ Window(1, 2, yy)
  BY DEF IInv, Transfers, Windows
<1>6. dma = {}
  <2>1. IsFiniteSet(dma) /\ Cardinality(NextGets) = 3
    BY <1>1, <1>5, NextGetsRight, FS_Subset DEF InFlight
  <2>2. Cardinality(dma) \in Nat
    BY <2>1, FS_CardinalityType
  <2>3. Cardinality(dma) = 0
    BY <1>5, <2>1, <2>2 DEF InFlight
  <2> QED
    BY <2>1, <2>3, FS_EmptySet
<1>7. \A q \in NextGets : Landed(q)
  BY <1>5, <1>6 DEF InFlight
<1>8. Transfers'
  BY <1>6 DEF Transfers
<1>9. Windows'
  <2>1. CASE type = 7
    <3>1. /\ Holds(<<ring[2], 1>>, yy, 1) /\ Holds(<<ring[3], 1>>, yy + 1, 1)
      <4>1. yy \in Int
        BY <1>1 DEF Types, TypeOK
      <4>2. yy + 2 - 2 = yy /\ yy + 3 - 2 = yy + 1
        BY <4>1
      <4> QED
        BY <1>1, <1>5, <1>7, <2>1, <4>2, Seven
    <3>2. (yy + 1) - 1 = yy
      BY <1>1 DEF Types, TypeOK
    <3>3. \A k \in Planes : /\ Holds(<<ring[2], k>>, yy, k)
                            /\ Holds(<<ring[3], k>>, yy + 1, k)
      BY <2>1, <3>1 DEF Planes
    <3>4. Window(2, 3, yy + 1)
      BY <3>2, <3>3 DEF Window
    <3>5. Window(2, 3, yy + 1)'
      BY <3>4, StillHeld DEF Window, Planes
    <3> QED
      BY <3>5 DEF Windows
  <2>2. CASE type = 27
    <3>1. \A k \in 0 .. 2 : /\ Holds(<<ring[2], k>>, yy, k)
                            /\ Holds(<<ring[3], k>>, yy + 1, k)
      <4>1. yy \in Int
        BY <1>1 DEF Types, TypeOK
      <4>2. yy + 2 - 2 = yy /\ yy + 3 - 2 = yy + 1
        BY <4>1
      <4> QED
        BY <1>1, <1>5, <1>7, <2>2, <4>2, TwentySeven
    <3>2. (yy + 1) - 1 = yy
      BY <1>1 DEF Types, TypeOK
    <3>3. \A k \in Planes : /\ Holds(<<ring[2], k>>, yy, k)
                            /\ Holds(<<ring[3], k>>, yy + 1, k)
      BY <2>2, <3>1 DEF Planes
    <3>4. Window(2, 3, yy + 1)
      BY <3>2, <3>3 DEF Window
    <3>5. Window(2, 3, yy + 1)'
      BY <3>4, StillHeld DEF Window, Planes
    <3> QED
      BY <3>5 DEF Windows
  <2> QED
    BY <1>1, <2>1, <2>2 DEF Types
<1>10. AnswerRight'
  <2>1. Right(answer') /\ \A x \in answer' : CleanRow(x[3])
    <3>1. CASE type = 7
      BY <1>1, <1>5, <1>7, <3>1, SumOfSeven
    <3>2. CASE type = 27
      BY <1>1, <1>5, <1>7, <3>2, SumOfTwentySeven
    <3> QED
      BY <1>1, <3>1, <3>2 DEF Types
  <2>3. Right(answer)'
    BY <1>2, <2>1 DEF Right, Naive, NaiveTerms
  <2>4. \A x \in answer' : CleanRow(x[3])'
    BY <2>1, StillHeld
  <2> QED
    BY <2>3, <2>4 DEF AnswerRight
<1> QED
  BY <1>1, <1>2, <1>3, <1>4, <1>8, <1>9, <1>10 DEF IInv

\* The row is put, and the ring turns.
LEMMA PutInv == IInv /\ Put => IInv'
<1> SUFFICES ASSUME IInv, Put PROVE IInv'
  OBVIOUS
<1> USE DEF Put
<1>1. /\ Types /\ RingTurns
      /\ ring'[1] = ring[2] /\ ring'[2] = ring[3] /\ ring'[3] = ring[1]
      /\ ring' \in [1 .. 3 -> 0 .. 2]
  <2>1. Types /\ RingTurns
    BY DEF IInv
  <2>2. \A i \in 1 .. 3 : ring'[i] = (ring[i] + 1) % 3
    BY DEF Rotated
  <2>3. ring[2] = (ring[1] + 1) % 3 /\ ring[3] = (ring[2] + 1) % 3
    BY <2>1 DEF RingTurns
  <2>4. ring' \in [1 .. 3 -> 0 .. 2]
    BY <2>1 DEF Rotated, Types, TypeOK
  <2> QED
    BY <2>1, <2>2, <2>3, <2>4, RingPlaces
<1>2. Types'
  BY <1>1 DEF Types, TypeOK
<1>3. Segment' = Segment /\ Control'
  BY DEF IInv, Control, Segment
<1>4. RingTurns'
  BY <1>1 DEF RingTurns
<1>5. Transfers'
  BY <1>3 DEF IInv, Transfers, ThePut
<1>6. Windows'
  <2>1. Window(2, 3, yy + 1)
    BY DEF IInv, Windows
  <2>2. ring'[1] = ring[2] /\ ring'[2] = ring[3]
    BY <1>1
  <2>3. Window(1, 2, yy + 1)'
    BY <2>1, <2>2, StillHeld DEF Window, Planes
  <2> QED
    BY <2>3 DEF Windows
<1>7. AnswerRight'
  <2>1. Right(answer)'
    BY <1>3 DEF IInv, AnswerRight, Right, Naive, NaiveTerms
  <2> QED
    BY <2>1 DEF IInv, AnswerRight, CleanRow
<1>8. SourceRight'
  BY DEF IInv, SourceRight, CleanRow, Src
<1>9. DestRight'
  <2>1. \A r : Written(r)' => Written(r)
    BY DEF Written, InSegment
  <2> QED
    BY <2>1 DEF IInv, DestRight, CleanRow, Dest
<1> QED
  BY <1>2, <1>3, <1>4, <1>5, <1>6, <1>7, <1>8, <1>9 DEF IInv

\* The row has been put; the next one.
LEMMA WaitPutInv == IInv /\ WaitPut => IInv'
<1> SUFFICES ASSUME IInv, WaitPut PROVE IInv'
  OBVIOUS
<1> USE DEF WaitPut, PutDone
<1>1. Types /\ seg \in DOMAIN Segments /\ yy \in 1 .. LY + 1
  BY DEF IInv, Types, TypeOK
<1>2. /\ Segment.begin \in Int /\ Segment.end \in 1 .. LY + 1
      /\ Segment.begin <= yy /\ yy < Segment.end /\ Segment' = Segment /\ LY \in Nat
  BY <1>1, SegmentTypes DEF IInv, Control, Segment
<1>3. Types'
  <2>1. yy + 1 \in 1 .. LY + 1
    BY <1>1, <1>2
  <2> QED
    BY <1>1, <2>1 DEF Types, TypeOK
<1>4. Control'
  BY <1>1, <1>2 DEF IInv, Control
<1>5. RingTurns'
  BY <1>1, <1>2 DEF IInv, RingTurns
<1>6. Transfers'
  BY DEF IInv, Transfers
<1>7. Windows'
  <2>1. Window(1, 2, yy + 1)
    BY DEF IInv, Windows
  <2>2. Window(1, 2, yy)'
    BY <2>1, StillHeld DEF Window, Planes
  <2> QED
    BY <2>2 DEF Windows
<1>8. AnswerRight'
  BY DEF IInv, AnswerRight, CleanRow
<1>9. SourceRight'
  BY DEF IInv, SourceRight, CleanRow, Src
<1>10. DestRight'
  <2>1. ASSUME NEW r \in BlockRow, Written(r)'
        PROVE  Written(r)
    <3>1. r[1] \in Int
      BY DEF BlockRow
    <3>2. \A s : InSegment(r, s)' <=> InSegment(r, s)
      BY DEF InSegment
    <3>3. r[1] < yy + 1 => r[1] < yy \/ r[1] = yy
      BY <1>1, <3>1
    <3> QED
      BY <2>1, <3>2, <3>3 DEF Written
  <2> QED
    BY <2>1 DEF IInv, DestRight, CleanRow, Dest
<1> QED
  BY <1>3, <1>4, <1>5, <1>6, <1>7, <1>8, <1>9, <1>10 DEF IInv

\* A segment ends.  After the last one every row has been put: the array that
\* was written becomes the one that is read.
LEMMA EndSegmentInv == IInv /\ EndSegment => IInv'
<1> SUFFICES ASSUME IInv, EndSegment PROVE IInv'
  OBVIOUS
<1> USE DEF EndSegment
<1>1. /\ Types /\ Control /\ seg \in DOMAIN Segments /\ t \in 0 .. NT /\ t # NT
      /\ yy \in 1 .. LY + 1 /\ pc = "row" /\ Segment.end <= yy
      /\ DOMAIN Segments = 1 .. Len(Segments) /\ Len(Segments) \in Nat
      /\ NT \in Nat /\ LY \in Nat /\ 1 \in DOMAIN Segments
      /\ \A s \in DOMAIN Segments : Segments[s].begin \in 1 .. LY
                                    /\ Segments[s].end \in 1 .. LY + 1
  <2>1. Types /\ Control /\ seg \in DOMAIN Segments /\ t \in 0 .. NT /\ yy \in 1 .. LY + 1
    BY DEF IInv, Types, TypeOK
  <2>2. t # NT
    BY DEF IInv, Control
  <2>3. Segment.end \in 1 .. LY + 1 /\ LY \in Nat
    BY <2>1, SegmentTypes DEF Segment
  <2>4. Segment.end <= yy
    BY <2>1, <2>3
  <2> QED
    BY <2>1, <2>2, <2>4, SegmentTypes
<1>2. /\ seg' \in DOMAIN Segments /\ t' \in 0 .. NT
      /\ yy' = Segments[seg'].begin /\ yy' \in 1 .. LY
      /\ pc' = "end" <=> t' = NT
      /\ pc' \in {"row", "end"}
  BY <1>1
<1>3. Types'
  BY <1>1, <1>2 DEF Types, TypeOK
<1>4. Control'
  BY <1>1, <1>2 DEF Control, Segment
<1>5. RingTurns'
  BY DEF RingTurns
<1>6. Transfers'
  BY <1>1, <1>2 DEF IInv, Transfers
<1>7. Windows'
  BY <1>2 DEF Windows, Segment
<1>8. AnswerRight'
  BY <1>2 DEF IInv, AnswerRight, CleanRow
<1>9. \A r \in BlockRow, s \in 1 .. seg : InSegment(r, s) => Written(r)
  <2> SUFFICES ASSUME NEW r \in BlockRow, NEW s \in 1 .. seg, InSegment(r, s)
               PROVE  Written(r)
    OBVIOUS
  <2>1. CASE s = seg
    <3>1. r[1] \in Int /\ r[1] <= Segment.end - 1 /\ Segment.end \in Int
      BY <1>1, <2>1 DEF InSegment, Segment, BlockRow
    <3>2. r[1] < yy
      BY <1>1, <3>1
    <3> QED
      BY <2>1, <3>2 DEF Written
  <2>2. CASE s # seg
    <3>1. s \in 1 .. seg - 1
      BY <1>1, <2>2
    <3> QED
      BY <3>1 DEF Written
  <2> QED
    BY <2>1, <2>2
<1>10. CASE seg = Len(Segments)
  <2>1. t' = t + 1 /\ seg' = 1 /\ Src' = Dest
    BY <1>1, <1>10 DEF Src, Dest
  <2>2. SourceRight'
    <3> SUFFICES ASSUME NEW r \in BlockRow
                 PROVE  mem'[Src'][r].step = t' /\ CleanRow(mem'[Src'][r])
      BY DEF SourceRight, CleanRow
    <3>1. Written(r)
      BY <1>1, <1>9, <1>10, RowsHaveSegments
    <3>2. mem[Dest][r].step = t + 1 /\ CleanRow(mem[Dest][r])
      BY <3>1 DEF IInv, DestRight
    <3> QED
      BY <2>1, <3>2
  <2>3. \A r \in BlockRow : ~ Written(r)'
    BY <1>1, <1>2, <2>1 DEF Written, InSegment, BlockRow
  <2>4. DestRight'
    BY <2>3 DEF DestRight
  <2> QED
    BY <1>3, <1>4, <1>5, <1>6, <1>7, <1>8, <2>2, <2>4 DEF IInv
<1>11. CASE seg # Len(Segments)
  <2>1. t' = t /\ seg' = seg + 1
    BY <1>11
  <2>2. SourceRight'
    BY <2>1 DEF IInv, SourceRight, CleanRow, Src
  <2>3. \A r \in BlockRow : Written(r)' => Written(r)
    <3> SUFFICES ASSUME NEW r \in BlockRow, Written(r)' PROVE Written(r)
      OBVIOUS
    <3>1. \E s \in 1 .. seg : InSegment(r, s)
      BY <1>1, <1>2, <2>1 DEF Written, InSegment, BlockRow
    <3> QED
      BY <1>9, <3>1
  <2>4. DestRight'
    BY <2>1, <2>3 DEF IInv, DestRight, CleanRow, Dest
  <2> QED
    BY <1>3, <1>4, <1>5, <1>6, <1>7, <1>8, <2>2, <2>4 DEF IInv
<1> QED
  BY <1>10, <1>11

\* A get ends.  The places it writes are not among those the ring keeps.
LEMMA TransferInInv ==
  ASSUME IInv, NEW q \in dma, TransferIn(q), dma' = dma \ {q},
         UNCHANGED <<type, pc, t, seg, yy, ring, answer, ends, lane27>>
  PROVE  IInv'
<1>1. Types /\ RingTurns /\ SourceRight /\ Segment' = Segment
  BY DEF IInv, Segment
<1>2. pc \in {"first", "get"}
  <2>1. q.op = "get" /\ ThePut.op = "put"
    BY DEF TransferIn, ThePut
  <2>2. pc \in {"row", "first", "get", "put", "wait", "end"}
    BY <1>1 DEF Types, TypeOK
  <2> QED
    BY <2>1, <2>2 DEF IInv, Transfers
<1>3. mem' = mem /\ putReply' = putReply
  BY DEF TransferIn
<1>4. Control' /\ RingTurns'
  BY <1>1 DEF IInv, Control, RingTurns
<1>5. AnswerRight'
  BY <1>2 DEF IInv, AnswerRight, CleanRow
<1>6. SourceRight'
  BY <1>3 DEF IInv, SourceRight, CleanRow, Src
<1>7. DestRight'
  <2>1. \A r : Written(r)' => Written(r)
    BY <1>3 DEF Written, InSegment
  <2> QED
    BY <1>3, <2>1 DEF IInv, DestRight, CleanRow, Dest
<1> DEFINE Arrived(gets) ==
             /\ dma' \subseteq gets
             /\ getReply' + Cardinality(dma') = Cardinality(gets)
             /\ \A r \in gets \ dma' : Landed(r)'
             /\ \A p \in Place \ Touched(q) : origin'[p] = origin[p]
             /\ DOMAIN origin' = Place
<1>8. ASSUME NEW gets, Arrived(gets), IsFiniteSet(gets), Cardinality(gets) \in 0 .. 3
      PROVE  Types'
  <2>1. IsFiniteSet(dma')
    BY <1>8, FS_Subset
  <2>2. Cardinality(dma') \in Nat
    BY <2>1, FS_CardinalityType
  <2>3. getReply' = getReply + 1 /\ getReply \in Nat
    BY <1>1 DEF TransferIn, Types, TypeOK
  <2>4. getReply' \in 0 .. 3
    BY <1>8, <2>2, <2>3
  <2> QED
    BY <1>1, <1>3, <1>8, <2>4 DEF Types, TypeOK
<1>9. CASE pc = "first"
  <2>1. InFlight(FirstGets)
    BY <1>9 DEF IInv, Transfers
  <2>2. /\ IsFiniteSet(FirstGets) /\ Cardinality(FirstGets) \in 1 .. 3
        /\ \A r \in FirstGets : IsGet(r)
        /\ Apart(FirstGets)
    BY <1>1, FirstGetsRight
  <2>3. Arrived(FirstGets)
    BY <1>1, <2>1, <2>2, GetArrives
  <2>4. Types'
    BY <1>8, <2>2, <2>3
  <2>5. FirstGets' = FirstGets
    BY <1>1 DEF FirstGets, Get
  <2>6. InFlight(FirstGets)'
    BY <2>3, <2>5 DEF InFlight
  <2>7. Transfers' /\ Windows'
    BY <1>9, <2>6 DEF Transfers, Windows
  <2> QED
    BY <1>4, <1>5, <1>6, <1>7, <2>4, <2>7 DEF IInv
<1>10. CASE pc = "get"
  <2>1. InFlight(NextGets) /\ Window(1, 2, yy)
    BY <1>10 DEF IInv, Transfers, Windows
  <2>2. /\ IsFiniteSet(NextGets) /\ Cardinality(NextGets) = 3
        /\ \A r \in NextGets : IsGet(r) /\ Touched(r) = {r.place}
        /\ Apart(NextGets)
    BY <1>1, NextGetsRight
  <2>3. Arrived(NextGets)
    BY <1>1, <2>1, <2>2, GetArrives
  <2>4. Types'
    BY <1>8, <2>2, <2>3
  <2>5. NextGets' = NextGets
    BY <1>1 DEF NextGets, Get
  <2>6. InFlight(NextGets)'
    BY <2>3, <2>5 DEF InFlight
  <2>7. \A k \in Planes : <<ring[1], k>> # q.place /\ <<ring[2], k>> # q.place
    <3>1. q \in NextGets
      BY <2>1 DEF InFlight
    <3> QED
      BY <1>1, <3>1, RingPlaces DEF NextGets, Get, Planes, Types
  <2>8. \A k \in Planes : /\ origin'[<<ring[1], k>>] = origin[<<ring[1], k>>]
                          /\ origin'[<<ring[2], k>>] = origin[<<ring[2], k>>]
    <3>1. q \in NextGets
      BY <2>1 DEF InFlight
    <3>2. \A k \in Planes : <<ring[1], k>> \in Place /\ <<ring[2], k>> \in Place
      BY <1>1, RingPlaces DEF Planes, Place
    <3> QED
      BY <2>2, <2>3, <2>7, <3>1, <3>2
  <2>9. Window(1, 2, yy)'
    BY <1>1, <2>1, <2>8 DEF Window, Planes, Holds, CleanRow
  <2>10. Transfers' /\ Windows'
    BY <1>10, <2>6, <2>9 DEF Transfers, Windows
  <2> QED
    BY <1>4, <1>5, <1>6, <1>7, <2>4, <2>10 DEF IInv
<1> QED
  BY <1>2, <1>9, <1>10

\* A put ends: the row that is there is the one answer holds.
LEMMA TransferOutInv ==
  ASSUME IInv, NEW q \in dma, TransferOut(q), dma' = dma \ {q},
         UNCHANGED <<type, pc, t, seg, yy, ring, answer, ends, lane27>>
  PROVE  IInv'
<1>1. Types /\ RingTurns /\ SourceRight /\ Segment' = Segment /\ Control
  BY DEF IInv, Segment
<1>2. pc \in {"row", "first", "get", "put", "wait", "end"} /\ q.op = "put"
  BY <1>1 DEF Types, TypeOK, TransferOut
<1>3. pc = "wait" /\ q = ThePut /\ dma = {ThePut} /\ putReply = 0
  <2>1. pc # "first"
    <3>1. pc = "first" => q \in FirstGets
      BY DEF IInv, Transfers, InFlight
    <3> QED
      BY <1>1, <1>2, <3>1, FirstGetsRight DEF IsGet
  <2>2. pc # "get"
    <3>1. pc = "get" => q \in NextGets
      BY DEF IInv, Transfers, InFlight
    <3> QED
      BY <1>1, <1>2, <3>1, NextGetsRight DEF IsGet
  <2> QED
    BY <1>2, <2>1, <2>2 DEF IInv, Transfers
<1>4. /\ origin' = origin /\ getReply' = getReply /\ putReply' = 1 /\ dma' = {}
  BY <1>3 DEF TransferOut
<1> DEFINE new == [step |-> t + 1, ends |-> ends,
                   finite |-> \A x \in answer : x[3].finite]
<1>5. mem' = [mem EXCEPT ![Dest][<<yy, Segment.z>>] = new]
  <2>1. Right(answer)
    BY <1>3 DEF IInv, AnswerRight
  <2> QED
    BY <1>3, <2>1 DEF TransferOut, ThePut
<1>6. t \in 0 .. NT /\ t # NT /\ NT \in Nat /\ LY \in Nat
  <2>1. seg \in DOMAIN Segments /\ t \in 0 .. NT
    BY <1>1 DEF Types, TypeOK
  <2>2. t # NT
    BY <1>1, <1>3 DEF Control
  <2> QED
    BY <2>1, <2>2, SegmentTypes
<1>7. new \in Row
  BY <1>1, <1>6 DEF Row, Types
<1>8. Src \in {0, 1} /\ Dest \in {0, 1} /\ Src # Dest
  BY <1>6 DEF Src, Dest
<1>9. /\ mem' \in [{0, 1} -> [BlockRow -> Row]]
      /\ mem'[Src] = mem[Src]
      /\ \A r \in BlockRow : mem'[Dest][r] = IF r = <<yy, Segment.z>> THEN new
                                             ELSE mem[Dest][r]
  <2>1. mem \in [{0, 1} -> [BlockRow -> Row]]
    BY <1>1 DEF Types
  <2> HIDE DEF new
  <2> QED
    BY <1>5, <1>7, <1>8, <2>1
<1>10. Types'
  BY <1>1, <1>4, <1>9 DEF Types, TypeOK, Row
<1>11. Control' /\ RingTurns'
  BY <1>1 DEF Control, RingTurns
<1>12. Transfers'
  BY <1>3, <1>4 DEF Transfers
<1>13. Windows'
  <2>1. Window(1, 2, yy + 1)
    BY <1>3 DEF IInv, Windows
  <2>2. Window(1, 2, yy + 1)'
    BY <1>4, <2>1, StillHeld DEF Window, Planes
  <2> QED
    BY <1>3, <2>2 DEF Windows
<1>14. AnswerRight'
  <2>1. Right(answer) /\ \A x \in answer : CleanRow(x[3])
    BY <1>3 DEF IInv, AnswerRight
  <2>2. Right(answer)'
    BY <1>1, <2>1 DEF Right, Naive, NaiveTerms
  <2>3. \A x \in answer' : CleanRow(x[3])'
    BY <2>1 DEF CleanRow
  <2> QED
    BY <2>2, <2>3 DEF AnswerRight
<1>15. SourceRight'
  BY <1>1, <1>9 DEF SourceRight, CleanRow, Src
<1>16. CleanRow(new)
  BY DEF IInv, AnswerRight, CleanRow
<1>17. DestRight'
  <2> SUFFICES ASSUME NEW r \in BlockRow, Written(r)'
               PROVE  mem'[Dest'][r].step = t' + 1 /\ CleanRow(mem'[Dest'][r])
    BY DEF DestRight, CleanRow
  <2>1. Dest' = Dest /\ t' = t
    BY DEF Dest
  <2>2. CASE r = <<yy, Segment.z>>
    <3>1. mem'[Dest][r] = new
      BY <1>9, <2>2
    <3> QED
      BY <1>16, <2>1, <3>1
  <2>3. CASE r # <<yy, Segment.z>>
    <3>1. \A s : InSegment(r, s)' <=> InSegment(r, s)
      BY DEF InSegment
    <3>2. InSegment(r, seg) /\ r[1] = yy => r = <<yy, Segment.z>>
      BY DEF InSegment, Segment, BlockRow
    <3>3. Written(r)
      BY <2>3, <3>1, <3>2 DEF Written
    <3>4. mem[Dest][r].step = t + 1 /\ CleanRow(mem[Dest][r])
      BY <3>3 DEF IInv, DestRight
    <3> QED
      BY <1>9, <2>1, <2>3, <3>4
  <2> QED
    BY <2>2, <2>3
<1> QED
  BY <1>10, <1>11, <1>12, <1>13, <1>14, <1>15, <1>17 DEF IInv

\* A step in which nothing changes.
LEMMA Idle == IInv /\ UNCHANGED vars => IInv'
<1> SUFFICES ASSUME IInv, UNCHANGED vars PROVE IInv'
  OBVIOUS
<1> USE DEF vars
<1>1. Types' /\ Control' /\ RingTurns' /\ Segment' = Segment
  BY DEF IInv, Types, TypeOK, Control, RingTurns, Segment
<1>2. Transfers'
  <2>1. FirstGets' = FirstGets /\ NextGets' = NextGets /\ ThePut' = ThePut
    BY <1>1 DEF FirstGets, NextGets, Get, ThePut
  <2>2. \A q : Landed(q) => Landed(q)'
    BY StillHeld DEF Landed
  <2>3. \A gets : InFlight(gets) =>
          /\ dma' \subseteq gets
          /\ getReply' + Cardinality(dma') = Cardinality(gets)
          /\ \A q \in gets \ dma' : Landed(q)'
    BY <2>2 DEF InFlight
  <2>4. pc = "first" => InFlight(FirstGets)'
    BY <2>1, <2>3 DEF IInv, Transfers, InFlight
  <2>5. pc = "get" => InFlight(NextGets)'
    BY <2>1, <2>3 DEF IInv, Transfers, InFlight
  <2> QED
    BY <2>1, <2>4, <2>5 DEF IInv, Transfers
<1>3. Windows'
  <2>1. \A i, j, y : Window(i, j, y) => Window(i, j, y)'
    BY StillHeld DEF Window, Planes
  <2> QED
    BY <1>1, <2>1 DEF IInv, Windows
<1>4. AnswerRight'
  BY <1>1 DEF IInv, AnswerRight, CleanRow, Right, Naive, NaiveTerms
<1>5. SourceRight'
  BY DEF IInv, SourceRight, CleanRow, Src
<1>6. DestRight'
  <2>1. \A r : Written(r)' => Written(r)
    BY DEF Written, InSegment
  <2> QED
    BY <2>1 DEF IInv, DestRight, CleanRow, Dest
<1> QED
  BY <1>1, <1>2, <1>3, <1>4, <1>5, <1>6 DEF IInv

-----------------------------------------------------------------------------
(* The theorems.                                                           *)

\* Where rows and transfers are, for blocks of every size, both stencils and
\* every division of the block into segments: the inductive invariant.
THEOREM RowsInPlace == Spec => []IInv
<1>1. Init => IInv
  BY InitInv
<1>2. IInv /\ [Next]_vars => IInv'
  <2> SUFFICES ASSUME IInv, [Next]_vars PROVE IInv'
    OBVIOUS
  <2>1. CASE GetFirst
    BY <2>1, GetFirstInv
  <2>2. CASE GetNext
    BY <2>2, GetNextInv
  <2>3. CASE Compute
    BY <2>3, ComputeInv
  <2>4. CASE Put
    BY <2>4, PutInv
  <2>5. CASE WaitPut
    BY <2>5, WaitPutInv
  <2>6. CASE EndSegment
    BY <2>6, EndSegmentInv
  <2>7. CASE Transfer
    BY <2>7, TransferInInv, TransferOutInv DEF Transfer
  <2>8. CASE UNCHANGED vars
    BY <2>8, Idle
  <2> QED
    BY <2>1, <2>2, <2>3, <2>4, <2>5, <2>6, <2>7, <2>8 DEF Next
<1> QED
  BY <1>1, <1>2, PTL DEF Spec

\* Counters, ring and arrays have values of their types, however large the
\* block.
THEOREM TypeCorrect == Spec => []TypeOK
<1>1. IInv => TypeOK
  BY DEF IInv, Types
<1> QED
  BY <1>1, RowsInPlace, PTL

\* The sums of stencil_7_com and stencil_27_com have the weights, shifts and
\* rows of stencil-naive.c, whatever the order in which the transfers end.
THEOREM SumsAreNaive == Spec => []SumIsNaive
<1>1. IInv => SumIsNaive
  BY DEF IInv, AnswerRight, SumIsNaive
<1> QED
  BY <1>1, RowsInPlace, PTL

\* The array a step reads is whole and of that step; the rows of the step are
\* all there when the arrays change places.
THEOREM SourceStaysWhole == Spec => []SourceWhole
<1>1. IInv => SourceWhole
  <2> SUFFICES ASSUME IInv, NEW q \in dma, q.op = "put"
               PROVE  q.row = <<yy, Segment.z>>
    BY DEF IInv, SourceRight, SourceWhole
  <2>1. Types /\ RingTurns /\ pc \in {"row", "first", "get", "put", "wait", "end"}
    BY DEF IInv, Types, TypeOK
  <2>2. pc = "first" => q \in FirstGets
    BY DEF IInv, Transfers, InFlight
  <2>3. pc = "get" => q \in NextGets
    BY DEF IInv, Transfers, InFlight
  <2>4. pc # "first" /\ pc # "get"
    BY <2>1, <2>2, <2>3, FirstGetsRight, NextGetsRight DEF IsGet
  <2>5. q = ThePut
    BY <2>1, <2>4 DEF IInv, Transfers
  <2> QED
    BY <2>5 DEF ThePut
<1> QED
  BY <1>1, RowsInPlace, PTL

\* Nothing unset in local memory reaches the result but the two ends of answer
\* and lane 27 of data.
THEOREM NothingElseUnset == Spec => []CleanUnlessUnset
<1>1. IInv => CleanUnlessUnset
  BY DEF IInv, AnswerRight, SourceRight, CleanRow, CleanUnlessUnset
<1> QED
  BY <1>1, RowsInPlace, PTL
=============================================================================
