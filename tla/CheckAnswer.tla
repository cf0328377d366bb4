---------------------------- MODULE CheckAnswer ----------------------------
(***************************************************************************)
(* check_answer of check.c and what main does with its result: every       *)
(* process compares its block with the expected answer, three norms of the *)
(* errors are reduced to process 0, and every process of active_procs      *)
(* looks at the norm_inf it has.                                           *)
(*                                                                         *)
(* An error is abstracted to its class; the comparisons of C are those of  *)
(* IEEE 754, false when a side is a NaN.  MPI_Reduce defines its result on *)
(* process 0 alone: what the others compare is an uninitialised variable.  *)
(***************************************************************************)
EXTENDS Integers

CONSTANTS
  PNum,       \* processes of active_procs
  Lx, Ly, Lz, \* local_size_x, local_size_y, local_size_z
  OddSets     \* bound: the sets of elements that may have an odd error

Rank == 0 .. PNum - 1

\* Classes of errors: none, up to 1e-12, above it (or infinite), not a number.
Zero == 0
Small == 1
Big == 2
NaN == 3
Error == {Zero, Small, Big, NaN}

\* The elements of a block with its halo; an element is <<r, cell>>.
Cell == (0 .. Lx + 1) \X (0 .. Ly + 1) \X (0 .. Lz + 1)

CheckAnswerConstants ==
  {PNum, Lx, Ly, Lz} \subseteq Nat \ {0} /\ OddSets \subseteq SUBSET (Rank \X Cell)

VARIABLES
  odd,      \* odd[<<r, cell>>]: the large errors, and those that are not numbers
  pc,       \* pc[r]: "loops", "reduce", "report" or "done"
  at,       \* at[r]: x, y and z of the loops
  row,      \* row[r], plane[r], block[r]: the norms ..._tmp_y, ..._tmp_z and
  plane,    \*   ..._tmp_local of process r
  block,
  norm,     \* norm[r]: result, as process r has it
  printed   \* printed[r]: "nothing", "error", "norms" or "nan norms"

sums == <<at, row, plane, block>>
vars == <<odd, pc, sums, norm, printed>>

-----------------------------------------------------------------------------
\* a < b in C.
Less(a, b) == a # NaN /\ b # NaN /\ a < b

\* fabs(ans0[INDEX(...)] - ans1[INDEX(...)]).
Err(r, c) == IF <<r, c>> \in DOMAIN odd THEN odd[<<r, c>>] ELSE Small

\* Mutant: the new error is kept when it is not smaller.
KeepUnlessLess(m, e) == IF Less(e, m) THEN m ELSE e

\* if(norm_inf_tmp < err) norm_inf_tmp = err.
Keep(m, e) == IF Less(m, e) THEN e ELSE m

\* The maximum norm, and whether norm_1 and norm_2 add up to a number.
Norms == [inf : Error, number : BOOLEAN]

NoNorms == [inf |-> Zero, number |-> TRUE]

\* b is added to a.
Add(a, b) == [inf |-> Keep(a.inf, b.inf), number |-> a.number /\ b.number]

NormsOf(e) == [inf |-> e, number |-> e # NaN]

Init ==
  /\ \E C \in OddSets : odd \in [C -> {Big, NaN}]
  /\ pc = [r \in Rank |-> "loops"]
  /\ at = [r \in Rank |-> <<1, 1, 1>>]
  /\ row = [r \in Rank |-> NoNorms]
  /\ plane = [r \in Rank |-> NoNorms]
  /\ block = [r \in Rank |-> NoNorms]
  /\ norm = [r \in Rank |-> NoNorms]
  /\ printed = [r \in Rank |-> "nothing"]

-----------------------------------------------------------------------------
\* The loop over x.
Element(r) ==
  /\ pc[r] = "loops" /\ at[r][1] <= Lx /\ at[r][2] <= Ly /\ at[r][3] <= Lz
  /\ row' = [row EXCEPT ![r] = Add(@, NormsOf(Err(r, at[r])))]
  /\ at' = [at EXCEPT ![r] = <<@[1] + 1, @[2], @[3]>>]
  /\ UNCHANGED <<odd, pc, plane, block, norm, printed>>

\* The rest of the loop over y; the next row begins with norms of its own.
EndRow(r) ==
  /\ pc[r] = "loops" /\ at[r][1] = Lx + 1
  /\ plane' = [plane EXCEPT ![r] = Add(@, row[r])]
  /\ row' = [row EXCEPT ![r] = NoNorms]
  /\ at' = [at EXCEPT ![r] = <<1, @[2] + 1, @[3]>>]
  /\ UNCHANGED <<odd, pc, block, norm, printed>>

\* The rest of the loop over z.
EndPlane(r) ==
  /\ pc[r] = "loops" /\ at[r][2] = Ly + 1
  /\ block' = [block EXCEPT ![r] = Add(@, plane[r])]
  /\ plane' = [plane EXCEPT ![r] = NoNorms]
  /\ at' = [at EXCEPT ![r] = <<1, 1, @[3] + 1>>]
  /\ UNCHANGED <<odd, pc, row, norm, printed>>

\* The block is compared; the process is in the reductions.
EndBlock(r) ==
  /\ pc[r] = "loops" /\ at[r][3] = Lz + 1
  /\ pc' = [pc EXCEPT ![r] = "reduce"]
  /\ UNCHANGED <<odd, sums, norm, printed>>

\* Mutant: process 0 goes on with the values of its own block.
ReducedOfRoot == block[0]

\* MPI_MAX and MPI_SUM over active_procs.
Reduced ==
  [inf |-> CHOOSE m \in {block[s].inf : s \in Rank} : \A s \in Rank : ~Less(m, block[s].inf),
   number |-> \A s \in Rank : block[s].number]

\* The last MPI_Reduce returns: on process 0 when all have contributed, on the
\* others at any time, leaving norm_inf, the one norm they read, as it was.
Reduce(r) ==
  /\ pc[r] = "reduce"
  /\ r = 0 => \A s \in Rank : pc[s] # "loops"
  /\ \E n \in IF r = 0 THEN {Reduced} ELSE [inf : Error, number : {TRUE}] :
       norm' = [norm EXCEPT ![r] = n]
  /\ pc' = [pc EXCEPT ![r] = "report"]
  /\ UNCHANGED <<odd, sums, printed>>

\* if(result.norm_inf > 1e-12) ... else if(p_id == 0) ...
Report(r) ==
  /\ pc[r] = "report"
  /\ printed' = [printed EXCEPT ![r] =
       IF Less(Small, norm[r].inf) THEN "error"
       ELSE IF r # 0 THEN "nothing"
       ELSE IF norm[r].number THEN "norms" ELSE "nan norms"]
  /\ pc' = [pc EXCEPT ![r] = "done"]
  /\ UNCHANGED <<odd, sums, norm>>

Compare(r) == Element(r) \/ EndRow(r) \/ EndPlane(r) \/ EndBlock(r)

Next == \E r \in Rank : Compare(r) \/ Reduce(r) \/ Report(r)

Spec == Init /\ [][Next]_vars

-----------------------------------------------------------------------------
\* The variables have values of their types.
TypeOK ==
  /\ DOMAIN odd \in OddSets
  /\ pc \in [Rank -> {"loops", "reduce", "report", "done"}]
  /\ \A r \in Rank : at[r] \in (1 .. Lx + 1) \X (1 .. Ly + 1) \X (1 .. Lz + 1)
  /\ {row, plane, block} \subseteq [Rank -> [inf : {Zero, Small, Big}, number : BOOLEAN]]
  /\ norm \in [Rank -> Norms]
  /\ printed \in [Rank -> {"nothing", "error", "norms", "nan norms"}]

\* The answer, not its halo, has an error of class e.
AnswerHas(e) ==
  \E c \in DOMAIN odd :
    odd[c] = e /\ c[2] \in (1 .. Lx) \X (1 .. Ly) \X (1 .. Lz)

\* Process 0 reports an error exactly if the answer has a large one, in
\* whatever process, and whatever NaN comes before it in the loops or lies in
\* a halo, which the comparison leaves out.
RootRight ==
  pc[0] = "done" => (printed[0] = "error" <=> AnswerHas(Big))

\* A NaN error shows, if only in the printed norms, which it makes NaNs, and
\* only if no other error is large.
NaNShows ==
  pc[0] = "done" =>
    (printed[0] = "nan norms" <=> AnswerHas(NaN) /\ ~AnswerHas(Big))

=============================================================================
