------------------------------ MODULE HaloPlan ------------------------------
(***************************************************************************)
(* Which planes the processes send each other in a time step: the x, y and *)
(* z branches of stencil_7 / stencil_27 (stencil-optimized.c) for any      *)
(* arrangement num_x, num_y, num_z of the processes, with the addresses    *)
(* and the vector types of the planes.  HaloExchange is about when the     *)
(* messages travel; here it is about what is in them.                      *)
(***************************************************************************)
EXTENDS GridInfo, Sequences, FiniteSets

CONSTANTS
  Runs,   \* pairs of a process count and an arrangement
  Blocks  \* local sizes

HaloPlanConstants ==
  /\ Runs \subseteq (Nat \ {0}) \X [Dim -> Nat \ {0}]
  /\ \A run \in Runs : run[1] = run[2][1] * run[2][2] * run[2][3]
  /\ Blocks \subseteq [Dim -> Nat \ {0}]

VARIABLES
  pNum, num, local,
  posted,   \* the processes that have posted the requests of the step
  request   \* request[r][g]: the calls of group g, in order

vars == <<pNum, num, local, posted, request>>

Rank  == 0 .. pNum - 1
Group == {0, 1}
ld    == Ld(local)

-----------------------------------------------------------------------------
\* From a process to the next along d.
Step(d) == CASE d = 1 -> 1 [] d = 2 -> num[1] [] d = 3 -> num[1] * num[2]

\* yzplane, xzplane, xyplane.
Plane(d) ==
  CASE d = 1 -> Vector(ld[2] * ld[3], 1, ld[1])
    [] d = 2 -> Vector(ld[3], ld[1], ld[1] * ld[2])
    [] d = 3 -> Vector(1, ld[1] * ld[2], 0)

\* Address of the plane at place c along d.
Base(d, c) == INDEX([e \in Dim |-> IF e = d THEN c ELSE 0], ld)

\* Mutant: a process in the middle forgets the one below.
GroupsOfEnds(r, d) ==
  IF num[d] = 1 THEN {}
  ELSE IF Position(num, r)[d] = num[d] - 1 THEN {1} ELSE {0}

\* The groups in which process r has a neighbour along d: the first, the last
\* and the others.
GroupsOf(r, d) ==
  IF num[d] = 1 THEN {}
  ELSE IF Position(num, r)[d] = 0 THEN {0}
  ELSE IF Position(num, r)[d] = num[d] - 1 THEN {1}
  ELSE {0, 1}

\* Where the plane that is sent lies, the last or the first of the block.
SendAt(g, d) == IF g = 0 THEN local[d] + Halo - 1 ELSE Halo

\* Mutant: one place beyond the halo.
RecvBeyond(g, d) == IF g = 0 THEN local[d] + Halo + 1 ELSE Halo - 1

\* Where the plane that is received goes, the halo next to it.
RecvAt(g, d) == IF g = 0 THEN local[d] + Halo ELSE Halo - 1

\* MPI_Isend and MPI_Irecv with the neighbour in group g.
Calls(r, d, g) ==
  LET peer == IF g = 0 THEN r + Step(d) ELSE r - Step(d)
  IN IF g \notin GroupsOf(r, d) THEN <<>>
     ELSE <<[op |-> "send", peer |-> peer, tag |-> r, dim |-> d,
             base |-> Base(d, SendAt(g, d))],
            [op |-> "recv", peer |-> peer, tag |-> peer, dim |-> d,
             base |-> Base(d, RecvAt(g, d))]>>

Init ==
  /\ \E run \in Runs : pNum = run[1] /\ num = run[2]
  /\ local \in Blocks
  /\ posted = {}
  /\ request = [r \in Rank |-> [g \in Group |-> <<>>]]

Post(r) ==
  /\ r \notin posted
  /\ request' = [request EXCEPT ![r] = [g \in Group |->
       Calls(r, 1, g) \o Calls(r, 2, g) \o Calls(r, 3, g)]]
  /\ posted' = posted \cup {r}
  /\ UNCHANGED <<pNum, num, local>>

Next == \E r \in Rank : Post(r)

Spec == Init /\ [][Next]_vars

-----------------------------------------------------------------------------
CallsOf(r, op, g) ==
  {c \in {request[r][g][k] : k \in DOMAIN request[r][g]} : c.op = op}

AllCalls(r, op) == CallsOf(r, op, 0) \cup CallsOf(r, op, 1)

\* The k-th cell of the buffer of a call, and all of them.
Buffer(c) == LET p == Plane(c.dim) IN [k \in DOMAIN p |-> c.base + p[k]]
Cells(c)  == LET b == Buffer(c) IN {b[k] : k \in DOMAIN b}

\* The receives of the peer that take the message of call c of process r.
Takers(r, c) ==
  {w \in AllCalls(c.peer, "recv") : w.peer = r /\ w.tag = c.tag}

\* The point of the global grid, or of the boundary around it, that cell i of
\* process r stands for.
Point(r, i) ==
  [d \in Dim |-> Offset(local, num, r)[d] + CellAt(i, ld)[d] - Halo]

\* The variables have values of their types.
TypeOK ==
  /\ <<pNum, num>> \in Runs /\ local \in Blocks /\ posted \subseteq Rank
  /\ \A r \in Rank, g \in Group :
       /\ r \notin posted => request[r][g] = <<>>
       /\ \A c \in CallsOf(r, "send", g) \cup CallsOf(r, "recv", g) :
            Cells(c) \subseteq 0 .. ld[1] * ld[2] * ld[3] - 1

\* Every message has one receive, and no receive waits for nothing.  The
\* cells of the message are, one by one, the points its receiver stores.
PlansMatch ==
  posted = Rank =>
    /\ \A r \in Rank : \A c \in AllCalls(r, "send") :
         /\ Cardinality(Takers(r, c)) = 1
         /\ \A w \in Takers(r, c) : \A k \in DOMAIN Buffer(c) :
              Point(c.peer, Buffer(w)[k]) = Point(r, Buffer(c)[k])
    /\ \A r \in Rank : \A w \in AllCalls(r, "recv") :
         \E c \in AllCalls(w.peer, "send") : w \in Takers(w.peer, c)

\* request[2][6] holds the requests of a step, in any arrangement.
RequestsFit == \A r \in Rank, g \in Group : Len(request[r][g]) <= 6

\* With the processes along z a receive writes no cell another call uses.
BuffersApart ==
  num[1] = 1 /\ num[2] = 1 =>
    \A r \in Rank : \A w \in AllCalls(r, "recv") :
      \A c \in (AllCalls(r, "recv") \cup AllCalls(r, "send")) \ {w} :
        Cells(w) \cap Cells(c) = {}

\* What a step posts: every message goes where it belongs, the requests fit, and
\* MPI writes nothing it also reads.
PlansFit == PlansMatch /\ RequestsFit /\ BuffersApart

\* Group 0, which releases the top plane, and group 1, which releases the
\* bottom plane, cover the halo planes next to them that come from neighbours.
GroupsCover ==
  \A r \in posted, d \in Dim : \A g \in GroupsOf(r, d) :
    {i \in 0 .. ld[1] * ld[2] * ld[3] - 1 :
       CellAt(i, ld)[d] = IF g = 0 THEN local[d] + Halo ELSE 0}
      \subseteq UNION {Cells(c) : c \in CallsOf(r, "recv", g)}

=============================================================================
