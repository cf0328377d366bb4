------------------------------- MODULE Report -------------------------------
(***************************************************************************)
(* The three reports of include/lwpf2.h: a summary of every kernel over    *)
(* the slaves (average, least, greatest), a wide one, and the counters of  *)
(* every slave in detail.  The counters are one array in main memory,      *)
(* indexed by slave, kernel and lane; a number is printed as a multiple of *)
(* a unit that depends on its size.  Lines and columns are left out.       *)
(***************************************************************************)
EXTENDS Integers, Sequences, FiniteSets, FiniteSetsExt

CONSTANTS
  NP,      \* 64, the slaves
  NK,      \* lwpf_kernel_count
  NC,      \* 4, the lanes of a counter
  Values,  \* bound: the values of a counter
  Least,   \* 1L << 59, where a minimum begins
  Base,    \* 1000, from unit to unit
  Slack    \* Slack[r]: how many of a unit are passed before r uses it

Reports == {"summary", "wide", "detail"}

ReportConstants ==
  /\ NP \in Nat \ {0} /\ NK \in Nat \ {0} /\ NC \in Nat \ {0}
  /\ Values \subseteq Nat /\ Least \in Nat /\ \A v \in Values : v <= Least
  /\ Base \in Nat \ {0, 1} /\ Slack \in [Reports -> Nat \ {0}]

VARIABLES
  kind,    \* the report that is printed
  counter, \* lwpf_global_counter
  i, j,    \* the kernel and the slave
  acc,     \* acc[c]: the sum, maximum and minimum of lane c so far
  rows     \* the rows that were printed: what stands in each lane

vars == <<kind, counter, i, j, acc, rows>>

Lane == 0 .. NC - 1

-----------------------------------------------------------------------------
\* Mutant: slave and kernel change places.
CellByKernel(p, k, c) == counter[(k * NP + p) * NC + c]

Cell(p, k, c) == counter[(p * NK + k) * NC + c]

\* LWPF_DK, LWPF_DM and LWPF_DG; the numbers of the detailed report have no G.
Divisors(r) ==
  {Base, Base * Base} \cup IF r = "detail" THEN {} ELSE {Base * Base * Base}

\* The last unit that is passed is the one used.
Unit(r, v) == Max({1} \cup {d \in Divisors(r) : v > d * Slack[r]})

\* print_unit_num_w5, _w7 and _w16: to the nearest of the unit, ties up.
Printed(r, v) ==
  LET u == Unit(r, v) IN [count |-> (v + u \div 2) \div u, unit |-> u]

Nothing == [c \in Lane |-> [sum |-> 0, max |-> 0, min |-> Least]]

Mean(sum) == sum \div NP

Init ==
  /\ kind \in Reports
  /\ counter \in [0 .. NP * NK * NC - 1 -> Values]
  /\ i = 0 /\ j = 0 /\ acc = Nothing /\ rows = << >>

\* One slave more in the sums of a kernel.
Accumulate ==
  /\ kind # "detail" /\ i < NK /\ j < NP
  /\ acc' = [c \in Lane |->
       LET v == Cell(j, i, c)
       IN [sum |-> acc[c].sum + v, max |-> Max({acc[c].max, v}), min |-> Min({acc[c].min, v})]]
  /\ j' = j + 1
  /\ UNCHANGED <<kind, counter, i, rows>>

\* The row of a kernel in report r.
PrintKernel(r) ==
  /\ kind = r /\ i < NK /\ j = NP
  /\ rows' = Append(rows, [c \in Lane |->
       [avg |-> Printed(kind, Mean(acc[c].sum)), min |-> Printed(kind, acc[c].min),
        max |-> Printed(kind, acc[c].max)]])
  /\ acc' = Nothing /\ j' = 0 /\ i' = i + 1
  /\ UNCHANGED <<kind, counter>>

PrintSummary == PrintKernel("summary")

PrintWide == PrintKernel("wide")

\* The row of a slave and a kernel.
PrintSlave ==
  /\ kind = "detail" /\ i < NK
  /\ rows' = Append(rows, [c \in Lane |-> [value |-> Printed(kind, Cell(j, i, c))]])
  /\ j' = (j + 1) % NP
  /\ i' = IF j + 1 = NP THEN i + 1 ELSE i
  /\ UNCHANGED <<kind, counter, acc>>

Next == Accumulate \/ PrintSummary \/ PrintWide \/ PrintSlave

Spec == Init /\ [][Next]_vars

-----------------------------------------------------------------------------
Top == Max(Values)

\* The variables have values of their types.
TypeOK ==
  /\ kind \in Reports /\ i \in 0 .. NK /\ j \in 0 .. NP
  /\ counter \in [0 .. NP * NK * NC - 1 -> Values]
  /\ \A c \in Lane : /\ acc[c].sum \in 0 .. NP * Top
                     /\ acc[c].max \in 0 .. Top /\ acc[c].min \in Values \cup {Least}
  /\ Len(rows) <= NP * NK

Size(p) == p.count * p.unit

\* p stands for v: off by no more than half of its unit.
StandsFor(p, v) == 2 * (Size(p) - v) <= p.unit /\ 2 * (v - Size(p)) <= p.unit

\* The counters of kernel k (0, 1, ...) in lane c, slave by slave.
Of(k, c) == [p \in 0 .. NP - 1 |-> counter[(p * NK + k) * NC + c]]
AllOf(k, c) == {Of(k, c)[p] : p \in 0 .. NP - 1}

\* What a summary shows of a kernel is in order, least, average, greatest,
\* although each of the three is rounded, in a unit of its own, and the
\* average is cut off before.
OrderKept ==
  kind # "detail" => \A n \in DOMAIN rows, c \in Lane :
    /\ Size(rows[n][c].min) <= Size(rows[n][c].avg)
    /\ Size(rows[n][c].avg) <= Size(rows[n][c].max)

\* The n-th row stands for the n-th kernel, in the detailed report for the
\* n-th pair of kernel and slave: it shows the least and the greatest of that
\* kernel's counters, or the slave's, to half a unit.  The array was filled
\* slave by slave with rows of kernels.
RowsTrue ==
  \A n \in DOMAIN rows, c \in Lane :
    IF kind = "detail"
    THEN StandsFor(rows[n][c].value, Of((n - 1) \div NP, c)[(n - 1) % NP])
    ELSE /\ StandsFor(rows[n][c].min, Min(AllOf(n - 1, c)))
         /\ StandsFor(rows[n][c].max, Max(AllOf(n - 1, c)))

\* A reader of a report sees each kernel, or slave, as it was, and in order.
RowsInOrder == RowsTrue /\ OrderKept

=============================================================================
