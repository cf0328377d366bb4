---------------------------- MODULE OutputProof -----------------------------
(***************************************************************************)
(* Proofs about Profile, for every number of slaves and of steps, every    *)
(* width of the cycle counter and of an int, and every duration of the     *)
(* work (ReportExact, ShownExact), and about Report, for every number of   *)
(* slaves, kernels and lanes and every counter (RowsInOrder).              *)
(*                                                                         *)
(* Profile: all values are remainders modulo the width of the cycle        *)
(* counter, and all equations hold modulo that width.  Inside a kernel the *)
(* counter plus the clock is the time spent in it (Counted); inside an     *)
(* interval the time plus what has passed since its beginning is the time  *)
(* spent in it (TimerIs), for at most one of the two timers that share a   *)
(* variable.                                                               *)
(*                                                                         *)
(* Report: rounding keeps two numbers in order, in one unit and across the *)
(* limit between two; a partial sum lies between the multiples of the      *)
(* least and the greatest so far (SumsOf).                                 *)
(***************************************************************************)
EXTENDS Output, FiniteSetTheorems, TLAPS

\* Remainders of a sum, by the width of the cycle counter.
Plus(a, b) == (a + b) % Cycles

\* What kernel A has counted, and what the slave has spent in it.
Counted(i) ==
  /\ ppc[i] = "row" => Plus(local[i], clock[i]) = inA[i]
  /\ ppc[i] = "step" => local[i] = inA[i]
  /\ ppc[i] \in {"spawned", "left"} => global[i] = inA[i]

\* The marks before which the interval of timer k is open, in a row of stencil t.
OpenAt(k, t) ==
  IF t = 7 THEN IF k = "communicate" THEN {2, 6}
                ELSE IF k = "compute" THEN {4} ELSE {}
  ELSE IF k = "communicate" THEN {2, 8}
       ELSE IF k = "compute" THEN {4, 5, 6} ELSE {5}

\* What timer k has counted, and what the slave has spent on its work.
TimerIs(i, k) ==
  IF ppc[i] = "row" /\ at[i] \in OpenAt(k, type)
    THEN Plus(time[i][k], clock[i] - begin[i][Measured!Variable(k)]) = spent[i][k]
    ELSE time[i][k] = spent[i][k]

\* All of this, and the times that were printed.
Exact(i) ==
  /\ Counted(i)
  /\ ppc[i] # "spawned" => \A k \in Measured!Kind : TimerIs(i, k)
  /\ ppc[i] = "left" => \A k \in Measured!Kind : shown[i][k] = Measured!AsInt(time[i][k])

Types ==
  /\ type \in {7, 27}
  /\ ppc \in [Timed -> {"spawned", "step", "row", "left"}]
  /\ at \in [Timed -> 0 .. 9]
  /\ clock \in [Timed -> Measured!Cycle] /\ local \in [Timed -> Measured!Cycle]
  /\ global \in [Timed -> Measured!Cycle] /\ inA \in [Timed -> Measured!Cycle]
  /\ begin \in [Timed -> [{"rpcc_begin", "rpcc_begin_in"} -> Measured!Cycle]]
  /\ time \in [Timed -> [Measured!Kind -> Measured!Cycle]]
  /\ spent \in [Timed -> [Measured!Kind -> Measured!Cycle]]
  /\ shown \in [Timed -> [Measured!Kind -> Int]]
  /\ step \in [Timed -> Nat]
  /\ \A i \in Timed : ppc[i] = "row" => at[i] # 0

IInv == Types /\ \A i \in Timed : Exact(i)

-----------------------------------------------------------------------------
(* Remainders.                                                             *)

\* A remainder differs from its number by a multiple of the divisor.
LEMMA Remainder ==
  ASSUME NEW w \in Nat \ {0}, NEW a \in Int
  PROVE  /\ a % w \in 0 .. w - 1
         /\ \E q \in Int : a = w * q + (a % w)
<1>1. a \div w \in Int /\ a % w \in 0 .. w - 1 /\ a % w = a - w * (a \div w)
  OBVIOUS
<1> DEFINE q == a \div w
           r == a % w
<1>2. q \in Int /\ r \in 0 .. w - 1 /\ r = a - w * q
  BY <1>1
<1> HIDE DEF q, r
<1>3. w * q \in Int
  BY <1>2
<1>4. a = w * q + r
  BY <1>2, <1>3
<1> QED
  BY <1>2, <1>4 DEF r

\* There is one remainder only.
LEMMA OneRemainder ==
  ASSUME NEW w \in Nat \ {0}, NEW a \in Int, NEW q \in Int, NEW r \in 0 .. w - 1,
         a = w * q + r
  PROVE  a % w = r
<1>1. PICK p \in Int : a = w * p + (a % w)
  BY Remainder
<1> DEFINE s == a % w
<1>2. s \in 0 .. w - 1 /\ w * q + r = w * p + s
  BY <1>1, Remainder
<1> HIDE DEF s
<1>3. \A m, n \in Int : m < n => w * m + w <= w * n
  <2> SUFFICES ASSUME NEW m \in Int, NEW n \in Int, m < n
               PROVE  w * m + w <= w * n
    OBVIOUS
  <2>1. n - m - 1 \in Nat
    OBVIOUS
  <2>2. w * (n - m - 1) \in Nat
    BY <2>1
  <2>3. w * n = w * m + w + w * (n - m - 1)
    OBVIOUS
  <2>4. w * m \in Int
    OBVIOUS
  <2> QED
    BY <2>2, <2>3, <2>4
<1>4. w * p \in Int /\ w * q \in Int
  OBVIOUS
<1>5. p = q
  BY <1>2, <1>3, <1>4
<1>6. s = r
  BY <1>2, <1>4, <1>5
<1> QED
  BY <1>6 DEF s

\* Multiples of the divisor do not matter.
LEMMA Multiples ==
  ASSUME NEW w \in Nat \ {0}, NEW a \in Int, NEW b \in Int, NEW q \in Int,
         a = b + w * q
  PROVE  a % w = b % w
<1>1. PICK p \in Int : b = w * p + (b % w)
  BY Remainder
<1>2. b % w \in 0 .. w - 1
  BY Remainder
<1> DEFINE s == b % w
<1>3. s \in 0 .. w - 1 /\ b = w * p + s
  BY <1>1, <1>2
<1> HIDE DEF s
<1>4. p + q \in Int /\ w * (p + q) = w * p + w * q /\ w * p \in Int /\ w * q \in Int
  OBVIOUS
<1>5. a = w * (p + q) + s
  BY <1>3, <1>4
<1>6. a % w = s
  BY <1>3, <1>4, <1>5, OneRemainder
<1> QED
  BY <1>6 DEF s

\* Remainders may be taken before or after an addition.
LEMMA RemainderOfSum ==
  ASSUME NEW w \in Nat \ {0}, NEW a \in Int, NEW b \in Int
  PROVE  ((a % w) + b) % w = (a + b) % w
<1>1. PICK q \in Int : a = w * q + (a % w)
  BY Remainder
<1>2. a % w \in 0 .. w - 1
  BY Remainder
<1> DEFINE s == a % w
<1>3. s \in Int /\ a = w * q + s
  BY <1>1, <1>2
<1> HIDE DEF s
<1>4. w * q \in Int
  OBVIOUS
<1> DEFINE x == a + b
           y == s + b
<1>5. x \in Int /\ y \in Int /\ x = y + w * q
  BY <1>3, <1>4
<1> HIDE DEF x, y
<1>6. x % w = y % w
  BY <1>5, Multiples
<1> QED
  BY <1>6 DEF s, x, y

\* A number below the divisor is its own remainder.
LEMMA SmallRemainder ==
  ASSUME NEW w \in Nat \ {0}, NEW a \in 0 .. w - 1
  PROVE  a % w = a
<1>1. a = w * 0 + a
  OBVIOUS
<1> QED
  BY <1>1, OneRemainder

\* Times and clocks are added modulo the width of the counter.
LEMMA Sums ==
  ASSUME NEW a \in Int, NEW b \in Int, NEW c \in Int
  PROVE  /\ Cycles \in Nat \ {0} /\ Plus(a, b) \in Measured!Cycle /\ Plus(a, b) = Plus(b, a)
         /\ Plus(Plus(a, b), c) = Plus(a, b + c)
         /\ a \in Measured!Cycle => Plus(a, 0) = a
<1>1. Cycles \in Nat \ {0}
  BY OutputAssumption DEF Measured!ProfileConstants
<1>2. (a + b) % Cycles \in 0 .. Cycles - 1
  BY <1>1, Remainder
<1>3. (((a + b) % Cycles) + c) % Cycles = ((a + b) + c) % Cycles
  <2> DEFINE m == a + b
  <2>1. m \in Int
    OBVIOUS
  <2> HIDE DEF m
  <2>2. ((m % Cycles) + c) % Cycles = (m + c) % Cycles
    BY <1>1, <2>1, RemainderOfSum
  <2> QED
    BY <2>2 DEF m
<1>4. (a + b) + c = a + (b + c) /\ a + b = b + a /\ a + 0 = a
  OBVIOUS
<1>5. a \in Measured!Cycle => a % Cycles = a
  BY <1>1, SmallRemainder DEF Measured!Cycle
<1> QED
  BY <1>1, <1>2, <1>3, <1>4, <1>5 DEF Plus, Measured!Cycle

\* A sum is the value of a counter.
LEMMA SumType ==
  ASSUME NEW a \in Int, NEW b \in Int
  PROVE  Plus(a, b) \in Measured!Cycle
BY Sums

\* Additions may be taken together.
LEMMA SumOfSums ==
  ASSUME NEW a \in Int, NEW b \in Int, NEW c \in Int
  PROVE  Plus(Plus(a, b), c) = Plus(a, b + c)
BY Sums

-----------------------------------------------------------------------------
(* The marks of a row.                                                     *)

\* Which mark stands where.
LEMMA MarkPlaces7 ==
  ASSUME type = 7
  PROVE  /\ Len(Measured!Marks) = 6
         /\ \A m \in 1 .. 6 :
              /\ Measured!Marks[m] = <<Measured!Marks[m][1], Measured!Marks[m][2]>>
              /\ Measured!Marks[m][1] = IF m \in {1, 3, 5} THEN "begin" ELSE "end"
              /\ Measured!Marks[m][2] = IF m \in {3, 4} THEN "compute" ELSE "communicate"
<1>1. \A m \in 1 .. 6 : m = 1 \/ m = 2 \/ m = 3 \/ m = 4 \/ m = 5 \/ m = 6
  OBVIOUS
<1> QED
  BY <1>1 DEF Measured!Marks, Measured!Marks7

LEMMA MarkPlaces27 ==
  ASSUME type = 27
  PROVE  /\ Len(Measured!Marks) = 8
         /\ \A m \in 1 .. 8 :
              /\ Measured!Marks[m] = <<Measured!Marks[m][1], Measured!Marks[m][2]>>
              /\ Measured!Marks[m][1] = IF m \in {1, 3, 4, 7} THEN "begin" ELSE "end"
              /\ Measured!Marks[m][2] = IF m \in {4, 5} THEN "memcpy"
                               ELSE IF m \in {3, 6} THEN "compute" ELSE "communicate"
<1>1. \A m \in 1 .. 8 : m = 1 \/ m = 2 \/ m = 3 \/ m = 4 \/ m = 5 \/ m = 6 \/ m = 7 \/ m = 8
  OBVIOUS
<1> QED
  BY <1>1 DEF Measured!Marks, Measured!Marks27

\* How many of none, one and two things there are.
LEMMA Few ==
  ASSUME NEW a, NEW b, a # b
  PROVE  Cardinality({}) = 0 /\ Cardinality({a}) = 1 /\ Cardinality({a, b}) = 2
<1>1. Cardinality({}) = 0
  BY FS_EmptySet
<1>2. IsFiniteSet({a}) /\ Cardinality({a}) = 1
  BY FS_Singleton
<1>3. Cardinality({a} \cup {b}) = 2
  BY <1>2, FS_AddElement
<1>4. {a} \cup {b} = {a, b}
  OBVIOUS
<1> QED
  BY <1>1, <1>2, <1>3, <1>4

\* Profile counts as this module does.
LEMMA SameCounts == \A S : Measured!Cardinality(S) = Cardinality(S)
BY DEF Measured!Cardinality, Cardinality

\* When the intervals are open: those of the two timers with one variable never
\* together.
LEMMA OpenMarks7 ==
  ASSUME type = 7, NEW n \in 1 .. 7
  PROVE  /\ Measured!Open("communicate", n) <=> n \in {2, 6}
         /\ Measured!Open("compute", n) <=> n = 4
         /\ ~ Measured!Open("memcpy", n)
<1> DEFINE S(op, k) == {m \in 1 .. n - 1 : Measured!Marks[m] = <<op, k>>}
<1>1. \A m \in 1 .. n - 1 : m \in 1 .. 6
  OBVIOUS
<1>2. \A op, k : S(op, k) =
        {m \in 1 .. n - 1 : Measured!Marks[m][1] = op /\ Measured!Marks[m][2] = k}
  BY <1>1, MarkPlaces7
<1>0. /\ Cardinality({}) = 0 /\ Cardinality({1, 5}) = 2 /\ Cardinality({2, 6}) = 2
      /\ \A m : Cardinality({m}) = 1
  <2>1. \A a, b : a # b => Cardinality({a, b}) = 2
    BY Few
  <2>2. Cardinality({1, 5}) = 2 /\ Cardinality({2, 6}) = 2
    <3>1. 1 # 5 /\ 2 # 6
      OBVIOUS
    <3> QED
      BY <2>1, <3>1, Zenon
  <2> QED
    BY <2>2, FS_EmptySet, FS_Singleton
<1>3. Measured!Open("communicate", n) <=> n \in {2, 6}
  <2>1. S("begin", "communicate") = {m \in 1 .. n - 1 : m \in {1, 5}}
    BY <1>1, <1>2, MarkPlaces7
  <2>2. S("end", "communicate") = {m \in 1 .. n - 1 : m \in {2, 6}}
    BY <1>1, <1>2, MarkPlaces7
  <2>3. S("begin", "communicate") = IF n = 1 THEN {} ELSE IF n <= 5 THEN {1} ELSE {1, 5}
    BY <2>1
  <2>4. S("end", "communicate") = IF n <= 2 THEN {} ELSE IF n <= 6 THEN {2} ELSE {2, 6}
    BY <2>2
  <2>5. Cardinality(S("begin", "communicate")) = IF n = 1 THEN 0 ELSE IF n <= 5 THEN 1 ELSE 2
    BY <1>0, <2>3
  <2>6. Cardinality(S("end", "communicate")) = IF n <= 2 THEN 0 ELSE IF n <= 6 THEN 1 ELSE 2
    BY <1>0, <2>4
  <2> QED
    BY <2>5, <2>6, SameCounts DEF Measured!Open
<1>4. Measured!Open("compute", n) <=> n = 4
  <2>1. S("begin", "compute") = IF n <= 3 THEN {} ELSE {3}
    BY <1>1, <1>2, MarkPlaces7
  <2>2. S("end", "compute") = IF n <= 4 THEN {} ELSE {4}
    BY <1>1, <1>2, MarkPlaces7
  <2>3. Cardinality(S("begin", "compute")) = IF n <= 3 THEN 0 ELSE 1
    BY <1>0, <2>1
  <2>4. Cardinality(S("end", "compute")) = IF n <= 4 THEN 0 ELSE 1
    BY <1>0, <2>2
  <2> QED
    BY <2>3, <2>4, SameCounts DEF Measured!Open
<1>5. ~ Measured!Open("memcpy", n)
  <2>1. S("begin", "memcpy") = {} /\ S("end", "memcpy") = {}
    BY <1>1, <1>2, MarkPlaces7
  <2>2. Cardinality(S("begin", "memcpy")) = 0 /\ Cardinality(S("end", "memcpy")) = 0
    BY <1>0, <2>1
  <2> QED
    BY <2>2, SameCounts DEF Measured!Open
<1> QED
  BY <1>3, <1>4, <1>5

LEMMA OpenMarks27 ==
  ASSUME type = 27, NEW n \in 1 .. 9
  PROVE  /\ Measured!Open("communicate", n) <=> n \in {2, 8}
         /\ Measured!Open("compute", n) <=> n \in {4, 5, 6}
         /\ Measured!Open("memcpy", n) <=> n = 5
<1> DEFINE S(op, k) == {m \in 1 .. n - 1 : Measured!Marks[m] = <<op, k>>}
<1>1. \A m \in 1 .. n - 1 : m \in 1 .. 8
  OBVIOUS
<1>2. \A op, k : S(op, k) =
        {m \in 1 .. n - 1 : Measured!Marks[m][1] = op /\ Measured!Marks[m][2] = k}
  BY <1>1, MarkPlaces27
<1>0. /\ Cardinality({}) = 0 /\ Cardinality({1, 7}) = 2 /\ Cardinality({2, 8}) = 2
      /\ \A m : Cardinality({m}) = 1
  <2>1. \A a, b : a # b => Cardinality({a, b}) = 2
    BY Few
  <2>2. Cardinality({1, 7}) = 2 /\ Cardinality({2, 8}) = 2
    <3>1. 1 # 7 /\ 2 # 8
      OBVIOUS
    <3> QED
      BY <2>1, <3>1, Zenon
  <2> QED
    BY <2>2, FS_EmptySet, FS_Singleton
<1>3. Measured!Open("communicate", n) <=> n \in {2, 8}
  <2>1. S("begin", "communicate") = {m \in 1 .. n - 1 : m \in {1, 7}}
    BY <1>1, <1>2, MarkPlaces27
  <2>2. S("end", "communicate") = {m \in 1 .. n - 1 : m \in {2, 8}}
    BY <1>1, <1>2, MarkPlaces27
  <2>3. S("begin", "communicate") = IF n = 1 THEN {} ELSE IF n <= 7 THEN {1} ELSE {1, 7}
    BY <2>1
  <2>4. S("end", "communicate") = IF n <= 2 THEN {} ELSE IF n <= 8 THEN {2} ELSE {2, 8}
    BY <2>2
  <2>5. Cardinality(S("begin", "communicate")) = IF n = 1 THEN 0 ELSE IF n <= 7 THEN 1 ELSE 2
    BY <1>0, <2>3
  <2>6. Cardinality(S("end", "communicate")) = IF n <= 2 THEN 0 ELSE IF n <= 8 THEN 1 ELSE 2
    BY <1>0, <2>4
  <2> QED
    BY <2>5, <2>6, SameCounts DEF Measured!Open
<1>4. Measured!Open("compute", n) <=> n \in {4, 5, 6}
  <2>1. S("begin", "compute") = IF n <= 3 THEN {} ELSE {3}
    BY <1>1, <1>2, MarkPlaces27
  <2>2. S("end", "compute") = IF n <= 6 THEN {} ELSE {6}
    BY <1>1, <1>2, MarkPlaces27
  <2>3. Cardinality(S("begin", "compute")) = IF n <= 3 THEN 0 ELSE 1
    BY <1>0, <2>1
  <2>4. Cardinality(S("end", "compute")) = IF n <= 6 THEN 0 ELSE 1
    BY <1>0, <2>2
  <2> QED
    BY <2>3, <2>4, SameCounts DEF Measured!Open
<1>5. Measured!Open("memcpy", n) <=> n = 5
  <2>1. S("begin", "memcpy") = IF n <= 4 THEN {} ELSE {4}
    BY <1>1, <1>2, MarkPlaces27
  <2>2. S("end", "memcpy") = IF n <= 5 THEN {} ELSE {5}
    BY <1>1, <1>2, MarkPlaces27
  <2>3. Cardinality(S("begin", "memcpy")) = IF n <= 4 THEN 0 ELSE 1
    BY <1>0, <2>1
  <2>4. Cardinality(S("end", "memcpy")) = IF n <= 5 THEN 0 ELSE 1
    BY <1>0, <2>2
  <2> QED
    BY <2>3, <2>4, SameCounts DEF Measured!Open
<1> QED
  BY <1>3, <1>4, <1>5

\* When the intervals are open, in a row of either stencil.
LEMMA OpenMarks ==
  ASSUME type \in {7, 27}, NEW n \in 1 .. Len(Measured!Marks) + 1
  PROVE  \A k \in Measured!Kind : Measured!Open(k, n) <=> n \in OpenAt(k, type)
<1>1. CASE type = 7
  <2>1. n \in 1 .. 7
    <3> DEFINE last == Len(Measured!Marks)
    <3>1. last = 6
      BY <1>1, MarkPlaces7
    <3>2. n \in 1 .. last + 1
      OBVIOUS
    <3> HIDE DEF last
    <3> QED
      BY <3>1, <3>2
  <2> QED
    BY <1>1, <2>1, OpenMarks7 DEF OpenAt, Measured!Kind
<1>2. CASE type = 27
  <2>1. n \in 1 .. 9
    <3> DEFINE last == Len(Measured!Marks)
    <3>1. last = 8
      BY <1>2, MarkPlaces27
    <3>2. n \in 1 .. last + 1
      OBVIOUS
    <3> HIDE DEF last
    <3> QED
      BY <3>1, <3>2
  <2> QED
    BY <1>2, <2>1, OpenMarks27 DEF OpenAt, Measured!Kind
<1> QED
  BY <1>1, <1>2

\* Before the first mark and after the last no interval is open.
LEMMA RowEnds ==
  ASSUME type \in {7, 27}
  PROVE  /\ Len(Measured!Marks) \in 1 .. 8
         /\ \A k \in Measured!Kind :
              1 \notin OpenAt(k, type) /\ Len(Measured!Marks) + 1 \notin OpenAt(k, type)
<1>1. Len(Measured!Marks) = IF type = 7 THEN 6 ELSE 8
  BY MarkPlaces7, MarkPlaces27
<1> QED
  BY <1>1 DEF OpenAt, Measured!Kind

\* A mark opens the interval of its timer, or closes it, and touches the
\* variable of no other open one.
LEMMA MarkTurns ==
  ASSUME type \in {7, 27}, NEW n \in 1 .. Len(Measured!Marks)
  PROVE  LET k == Measured!Marks[n][2]
         IN /\ k \in Measured!Kind
            /\ Measured!Marks[n][1] = "begin" =>
                 n + 1 \in OpenAt(k, type) /\ n \notin OpenAt(k, type)
            /\ Measured!Marks[n][1] = "end" =>
                 n \in OpenAt(k, type) /\ n + 1 \notin OpenAt(k, type)
            /\ \A j \in Measured!Kind \ {k} :
                 /\ n \in OpenAt(j, type) <=> n + 1 \in OpenAt(j, type)
                 /\ n \in OpenAt(j, type) /\ Measured!Marks[n][1] = "begin" =>
                      Measured!Variable(j) # Measured!Variable(k)
<1>1. CASE type = 7
  <2>1. n \in 1 .. 6
    BY <1>1, MarkPlaces7
  <2>2. /\ Measured!Marks[n][1] = IF n \in {1, 3, 5} THEN "begin" ELSE "end"
        /\ Measured!Marks[n][2] = IF n \in {3, 4} THEN "compute" ELSE "communicate"
    BY <1>1, <2>1, MarkPlaces7
  <2> QED
    BY <1>1, <2>1, <2>2 DEF OpenAt, Measured!Kind, Measured!Variable
<1>2. CASE type = 27
  <2>1. n \in 1 .. 8
    BY <1>2, MarkPlaces27
  <2>2. /\ Measured!Marks[n][1] = IF n \in {1, 3, 4, 7} THEN "begin" ELSE "end"
        /\ Measured!Marks[n][2] = IF n \in {4, 5} THEN "memcpy"
                         ELSE IF n \in {3, 6} THEN "compute" ELSE "communicate"
    BY <1>2, <2>1, MarkPlaces27
  <2> QED
    BY <1>2, <2>1, <2>2 DEF OpenAt, Measured!Kind, Measured!Variable
<1> QED
  BY <1>1, <1>2

-----------------------------------------------------------------------------
(* The steps.                                                              *)

\* The slaves begin with zeros.
LEMMA InitInv == Measured!Init => IInv
<1> SUFFICES ASSUME Measured!Init PROVE IInv
  OBVIOUS
<1>1. 0 \in Measured!Cycle /\ Cycles - 1 \in Measured!Cycle
  BY OutputAssumption DEF Measured!ProfileConstants, Measured!Cycle
<1>2. Types
  BY <1>1 DEF Measured!Init, Types, Measured!Zeros, Measured!NoTimes
<1>3. \A i \in Timed : Exact(i)
  BY DEF Measured!Init, Exact, Counted, Measured!Zeros
<1> QED
  BY <1>2, <1>3 DEF IInv

\* What slave j has measured does not change by the steps of others.
LEMMA OtherSlaves ==
  ASSUME NEW j \in Timed, Exact(j),
         type' = type, ppc'[j] = ppc[j], at'[j] = at[j], clock'[j] = clock[j],
         local'[j] = local[j], global'[j] = global[j], begin'[j] = begin[j],
         time'[j] = time[j], shown'[j] = shown[j], inA'[j] = inA[j],
         spent'[j] = spent[j]
  PROVE  Exact(j)'
<1>1. Counted(j)'
  BY DEF Exact, Counted
<1>2. ppc'[j] # "spawned" => \A k \in Measured!Kind : TimerIs(j, k)'
  BY DEF Exact, TimerIs
<1>3. ppc'[j] = "left" => \A k \in Measured!Kind : shown'[j][k] = Measured!AsInt(time'[j][k])
  BY DEF Exact
<1> QED
  BY <1>1, <1>2, <1>3 DEF Exact

\* A slave begins a call with the counter it left in main memory.
LEMMA EnterInv ==
  ASSUME IInv, NEW i \in Timed, Measured!Enter(i)
  PROVE  IInv'
<1> USE DEF Measured!Enter, Measured!Goes
<1>1. Types
  BY DEF IInv
<1>2. Types'
  <2>1. 0 \in Measured!Cycle
    BY OutputAssumption DEF Measured!ProfileConstants, Measured!Cycle
  <2> QED
    BY <1>1, <2>1 DEF Types, Measured!CounterOf, Measured!NoTimes
<1>3. Exact(i)'
  <2>1. ppc'[i] = "step" /\ local'[i] = global[i] /\ inA'[i] = inA[i]
        /\ time'[i] = Measured!NoTimes /\ spent'[i] = Measured!NoTimes
    BY <1>1 DEF Types, Measured!CounterOf
  <2>2. global[i] = inA[i]
    BY DEF IInv, Exact, Counted
  <2>3. Counted(i)'
    BY <2>1, <2>2 DEF Counted
  <2>4. \A k \in Measured!Kind : TimerIs(i, k)'
    BY <2>1 DEF TimerIs
  <2> QED
    BY <2>1, <2>3, <2>4 DEF Exact
<1>4. \A j \in Timed \ {i} : Exact(j)'
  <2> SUFFICES ASSUME NEW j \in Timed \ {i} PROVE Exact(j)'
    OBVIOUS
  <2> QED
    BY <1>1, OtherSlaves DEF IInv, Types
<1> QED
  BY <1>2, <1>3, <1>4 DEF IInv

\* The kernel begins: from here on the clock is counted.
LEMMA StartInv ==
  ASSUME IInv, NEW i \in Timed, NEW d \in Ticks, Measured!Start(i, d)
  PROVE  IInv'
<1> USE DEF Measured!Start, Measured!Goes
<1>1. Types /\ d \in Nat
  BY OutputAssumption DEF IInv, Measured!ProfileConstants
<1> DEFINE now == Plus(clock[i], d)
           less == Plus(local[i], -now)
<1>2. /\ clock[i] \in Int /\ local[i] \in Int /\ local[i] \in Measured!Cycle
      /\ inA[i] = local[i] /\ ppc[i] = "step"
  BY <1>1, OutputAssumption DEF Types, Measured!Cycle, IInv, Exact, Counted,
       Measured!ProfileConstants
<1>3. now \in Measured!Cycle /\ now \in Int
  <2>1. now \in Measured!Cycle
    BY <1>1, <1>2, SumType
  <2> QED
    BY <2>1, OutputAssumption DEF Measured!Cycle, Measured!ProfileConstants
<1>4. clock' = [clock EXCEPT ![i] = now]
  BY <1>1 DEF Plus, Types
<1> HIDE DEF now
<1>5. clock'[i] = now
  BY <1>1, <1>4 DEF Types
<1>6. local' = [local EXCEPT ![i] = less]
  <2>1. local[i] - now = local[i] + -now
    BY <1>2, <1>3
  <2> QED
    BY <1>1, <1>5, <2>1 DEF Plus, Types
<1>7. less \in Measured!Cycle /\ Plus(less, now) = local[i]
  <2>1. -now \in Int /\ -now + now = 0
    BY <1>3
  <2>2. less \in Measured!Cycle /\ Plus(less, now) = Plus(local[i], -now + now)
    <3> DEFINE c == local[i]
               m == -now
    <3>1. c \in Int /\ m \in Int /\ now \in Int
      BY <1>2, <1>3
    <3> HIDE DEF c, m
    <3>2. Plus(c, m) \in Measured!Cycle /\ Plus(Plus(c, m), now) = Plus(c, m + now)
      BY <3>1, SumType, SumOfSums
    <3> QED
      BY <3>2 DEF c, m
  <2>3. Plus(local[i], 0) = local[i]
    BY <1>2, Sums
  <2> QED
    BY <2>1, <2>2, <2>3
<1> HIDE DEF less
<1>8. Types'
  BY <1>1, <1>3, <1>4, <1>6, <1>7 DEF Types
<1>9. Exact(i)'
  <2>1. ppc'[i] = "row" /\ local'[i] = less /\ at'[i] = 1
    BY <1>1, <1>6 DEF Types
  <2>2. Counted(i)'
    BY <1>2, <1>5, <1>7, <2>1 DEF Counted
  <2>3. \A k \in Measured!Kind : 1 \notin OpenAt(k, type)
    BY <1>1, RowEnds DEF Types
  <2>4. \A k \in Measured!Kind : time[i][k] = spent[i][k]
    BY <1>2 DEF IInv, Exact, TimerIs
  <2>5. \A k \in Measured!Kind : TimerIs(i, k)'
    BY <2>1, <2>3, <2>4 DEF TimerIs
  <2> QED
    BY <2>1, <2>2, <2>5 DEF Exact
<1>10. \A j \in Timed \ {i} : Exact(j)'
  <2> SUFFICES ASSUME NEW j \in Timed \ {i} PROVE Exact(j)'
    OBVIOUS
  <2> QED
    BY <1>1, <1>4, <1>6, OtherSlaves DEF IInv, Types
<1> QED
  BY <1>8, <1>9, <1>10 DEF IInv

\* The kernel ends: its counter is what it was, and the time that passed.
LEMMA StopInv ==
  ASSUME IInv, NEW i \in Timed, Measured!Stop(i)
  PROVE  IInv'
<1> USE DEF Measured!Stop, Measured!Goes
<1>1. Types
  BY DEF IInv
<1> DEFINE sum == Plus(local[i], clock[i])
<1>2. sum = inA[i] /\ inA[i] \in Measured!Cycle
  BY <1>1 DEF IInv, Exact, Counted, Types
<1>3. local' = [local EXCEPT ![i] = sum]
  BY <1>1 DEF Plus, Types
<1> HIDE DEF sum
<1>4. Types'
  BY <1>1, <1>2, <1>3 DEF Types
<1>5. Exact(i)'
  <2>1. ppc'[i] = "step" /\ local'[i] = inA[i] /\ ppc[i] = "row"
        /\ at[i] = Len(Measured!Marks) + 1
    BY <1>1, <1>2, <1>3 DEF Types
  <2>2. Counted(i)'
    BY <2>1 DEF Counted
  <2>3. \A k \in Measured!Kind : Len(Measured!Marks) + 1 \notin OpenAt(k, type)
    BY <1>1, RowEnds DEF Types
  <2>4. \A k \in Measured!Kind : time[i][k] = spent[i][k]
    BY <2>1, <2>3 DEF IInv, Exact, TimerIs
  <2>5. \A k \in Measured!Kind : TimerIs(i, k)'
    BY <2>1, <2>4 DEF TimerIs
  <2> QED
    BY <2>1, <2>2, <2>5 DEF Exact
<1>6. \A j \in Timed \ {i} : Exact(j)'
  <2> SUFFICES ASSUME NEW j \in Timed \ {i} PROVE Exact(j)'
    OBVIOUS
  <2> QED
    BY <1>1, <1>3, OtherSlaves DEF IInv, Types
<1> QED
  BY <1>4, <1>5, <1>6 DEF IInv

\* A slave leaves, and prints its times.
LEMMA LeaveInv ==
  ASSUME IInv, NEW i \in Timed, Measured!Leave(i)
  PROVE  IInv'
<1> USE DEF Measured!Leave, Measured!Goes
<1>1. Types
  BY DEF IInv
<1>2. \A n \in Measured!Cycle : Measured!AsInt(n) \in Int
  <2> SUFFICES ASSUME NEW n \in Measured!Cycle PROVE Measured!AsInt(n) \in Int
    OBVIOUS
  <2>1. n \in Int /\ Ints \in Nat \ {0}
    BY OutputAssumption DEF Measured!Cycle, Measured!ProfileConstants
  <2>2. n % Ints \in 0 .. Ints - 1
    BY <2>1, Remainder
  <2> QED
    BY <2>1, <2>2 DEF Measured!AsInt
<1>3. Types'
  BY <1>1, <1>2 DEF Types
<1>4. Exact(i)'
  <2>1. /\ ppc'[i] = "left" /\ global'[i] = local[i] /\ ppc[i] = "step"
        /\ shown'[i] = [k \in Measured!Kind |-> Measured!AsInt(time[i][k])]
    BY <1>1 DEF Types
  <2>2. local[i] = inA[i] /\ \A k \in Measured!Kind : time[i][k] = spent[i][k]
    BY <2>1 DEF IInv, Exact, Counted, TimerIs
  <2>3. Counted(i)'
    BY <2>1, <2>2 DEF Counted
  <2>4. \A k \in Measured!Kind : TimerIs(i, k)'
    BY <2>1, <2>2 DEF TimerIs
  <2> QED
    BY <2>1, <2>3, <2>4 DEF Exact
<1>5. \A j \in Timed \ {i} : Exact(j)'
  <2> SUFFICES ASSUME NEW j \in Timed \ {i} PROVE Exact(j)'
    OBVIOUS
  <2> QED
    BY <1>1, OtherSlaves DEF IInv, Types
<1> QED
  BY <1>3, <1>4, <1>5 DEF IInv

\* The call returns, and the next begins.
LEMMA ReturnInv ==
  ASSUME IInv, Measured!Return
  PROVE  IInv' /\ (type = 7 => report' = inA)
<1> USE DEF Measured!Return
<1>1. Types /\ \A i \in Timed : ppc[i] = "left"
  BY DEF IInv
<1>2. Types'
  BY <1>1 DEF Types
<1>3. \A i \in Timed : global[i] = inA[i]
  BY <1>1 DEF IInv, Exact, Counted
<1>4. type = 7 => report' = inA
  BY <1>1, <1>3 DEF Types
<1>5. ASSUME NEW i \in Timed PROVE Exact(i)'
  <2>1. ppc'[i] = IF call = 1 THEN "spawned" ELSE "left"
    OBVIOUS
  <2>2. CASE call = 1
    BY <1>3, <2>1, <2>2 DEF Exact, Counted
  <2>3. CASE call # 1
    <3>1. ppc'[i] = ppc[i]
      BY <1>1, <2>1, <2>3
    <3> QED
      BY <3>1, OtherSlaves DEF IInv
  <2> QED
    BY <2>2, <2>3
<1> QED
  BY <1>2, <1>4, <1>5 DEF IInv

\* A mark: the time since the last one is spent in the intervals that are open,
\* and the difference of the clocks is added to a timer when its own ends.
LEMMA MarkInv ==
  ASSUME IInv, NEW i \in Timed, NEW d \in Ticks, Measured!Mark(i, d)
  PROVE  IInv'
<1> DEFINE n == at[i]
           k == Measured!Marks[n][2]
           now == Plus(clock[i], d)
           Since(j, c) == c - begin[i][Measured!Variable(j)]
<1>1. /\ Types /\ d \in Nat /\ d \in Int /\ ppc[i] = "row" /\ n \in 1 .. 8
      /\ type \in {7, 27} /\ n \in 1 .. Len(Measured!Marks)
      /\ k \in Measured!Kind /\ Exact(i)
  <2>1. Types /\ d \in Nat /\ ppc[i] = "row" /\ n <= Len(Measured!Marks)
    BY OutputAssumption DEF IInv, Measured!ProfileConstants, Measured!Mark
  <2>2. type \in {7, 27} /\ Len(Measured!Marks) \in 1 .. 8
    BY <2>1, RowEnds DEF Types
  <2>3. n \in 1 .. 8 /\ n \in 1 .. Len(Measured!Marks)
    <3> DEFINE last == Len(Measured!Marks)
    <3>1. n \in 0 .. 9 /\ n # 0
      BY <2>1 DEF Types
    <3>2. n <= last /\ last \in 1 .. 8
      BY <2>1, <2>2
    <3> HIDE DEF n, last
    <3>3. n \in 1 .. 8 /\ n \in 1 .. last
      BY <3>1, <3>2
    <3> QED
      BY <3>3 DEF last
  <2> QED
    BY <2>1, <2>2, <2>3, MarkTurns DEF IInv
<1>2. /\ clock[i] \in Int /\ clock[i] \in Measured!Cycle /\ local[i] \in Int
      /\ inA[i] \in Int
      /\ \A j \in Measured!Kind :
           /\ begin[i][Measured!Variable(j)] \in Int
           /\ time[i][j] \in Int /\ time[i][j] \in Measured!Cycle
           /\ spent[i][j] \in Int /\ spent[i][j] \in Measured!Cycle
      /\ \A x \in Measured!Cycle : x \in Int
  <2>1. \A x \in Measured!Cycle : x \in Int
    BY OutputAssumption DEF Measured!Cycle, Measured!ProfileConstants
  <2>2. Types
    BY <1>1
  <2>3. clock[i] \in Measured!Cycle /\ local[i] \in Int /\ inA[i] \in Int
    BY <2>1, <2>2 DEF Types
  <2>4. ASSUME NEW j \in Measured!Kind
        PROVE  /\ begin[i][Measured!Variable(j)] \in Measured!Cycle
               /\ time[i][j] \in Measured!Cycle /\ spent[i][j] \in Measured!Cycle
    <3>1. Measured!Variable(j) \in {"rpcc_begin", "rpcc_begin_in"}
      BY DEF Measured!Variable
    <3> QED
      BY <2>2, <3>1 DEF Types
  <2> QED
    BY <2>1, <2>3, <2>4
<1>3. now \in Measured!Cycle /\ now \in Int
  BY <1>1, <1>2, SumType
<1>4. /\ clock' = [clock EXCEPT ![i] = now]
      /\ inA' = [inA EXCEPT ![i] = Plus(inA[i], d)]
      /\ spent' = [spent EXCEPT ![i] = [j \in Measured!Kind |->
           IF n \in OpenAt(j, type) THEN Plus(spent[i][j], d) ELSE spent[i][j]]]
      /\ at' = [at EXCEPT ![i] = n + 1]
      /\ ppc' = ppc /\ step' = step /\ local' = local /\ global' = global
      /\ shown' = shown /\ type' = type
  <2>1. \A j \in Measured!Kind : Measured!Open(j, n) <=> n \in OpenAt(j, type)
    BY <1>1, OpenMarks
  <2> QED
    BY <1>1, <2>1 DEF Measured!Mark, Plus, Types
<1>5. \/ /\ Measured!Marks[n][1] = "begin"
         /\ begin' = [begin EXCEPT ![i][Measured!Variable(k)] = now]
         /\ time' = time
      \/ /\ Measured!Marks[n][1] = "end"
         /\ time' = [time EXCEPT ![i][k] = Plus(time[i][k], Since(k, now) % Cycles)]
         /\ begin' = begin
  BY <1>1 DEF Measured!Mark, Plus, Types, Measured!Elapsed
<1> HIDE DEF n, k, now, Since
<1>6. \A j \in Measured!Kind : n \in OpenAt(j, type) =>
        Plus(time[i][j], Since(j, clock[i])) = spent[i][j]
  BY <1>1 DEF Exact, TimerIs, n, Since
<1>7. \A j \in Measured!Kind : n \notin OpenAt(j, type) => time[i][j] = spent[i][j]
  BY <1>1 DEF Exact, TimerIs, n
<1>8. \A j \in Measured!Kind : n \in OpenAt(j, type) =>
        Plus(time[i][j], Since(j, now)) = Plus(spent[i][j], d)
  <2> SUFFICES ASSUME NEW j \in Measured!Kind, n \in OpenAt(j, type)
               PROVE  Plus(time[i][j], Since(j, now)) = Plus(spent[i][j], d)
    OBVIOUS
  <2> DEFINE b == begin[i][Measured!Variable(j)]
             x == time[i][j]
  <2>1. b \in Int /\ x \in Int /\ clock[i] + d \in Int /\ x - b \in Int
    BY <1>1, <1>2
  <2>2. Since(j, now) = now - b /\ Since(j, clock[i]) = clock[i] - b
    BY DEF Since
  <2> HIDE DEF b
  <2>3. Plus(x, now - b) = Plus(now, x - b)
    <3>1. x + (now - b) = now + (x - b)
      BY <1>3, <2>1
    <3> QED
      BY <3>1 DEF Plus
  <2>4. Plus(now, x - b) = Plus(clock[i], d + (x - b))
    <3> DEFINE e == x - b
    <3>1. e \in Int
      BY <2>1
    <3> HIDE DEF e
    <3>2. Plus(Plus(clock[i], d), e) = Plus(clock[i], d + e)
      <4>1. clock[i] \in Int /\ d \in Int
        BY <1>1, <1>2
      <4> QED
        BY <3>1, <4>1, SumOfSums
    <3> QED
      BY <3>2 DEF e, now
  <2>5. Plus(clock[i], d + (x - b)) = Plus(x, (clock[i] - b) + d)
    <3>1. clock[i] + (d + (x - b)) = x + ((clock[i] - b) + d)
      <4>1. clock[i] \in Int /\ d \in Int
        BY <1>1, <1>2
      <4> QED
        BY <2>1, <4>1
    <3> QED
      BY <3>1 DEF Plus
  <2>6. Plus(x, (clock[i] - b) + d) = Plus(Plus(x, clock[i] - b), d)
    <3> DEFINE e == clock[i] - b
    <3>1. e \in Int
      BY <1>2, <2>1
    <3> HIDE DEF e
    <3>2. Plus(Plus(x, e), d) = Plus(x, e + d)
      <4>1. x \in Int /\ d \in Int
        BY <1>1, <2>1
      <4> HIDE DEF x
      <4> QED
        BY <3>1, <4>1, SumOfSums
    <3> QED
      BY <3>2 DEF e
  <2> QED
    BY <1>6, <2>2, <2>3, <2>4, <2>5, <2>6
<1>9. n \in OpenAt(k, type) => Plus(time[i][k], Since(k, now) % Cycles) = Plus(spent[i][k], d)
  <2> DEFINE m == Since(k, now)
             x == time[i][k]
  <2>1. m \in Int /\ x \in Int
    BY <1>1, <1>2, <1>3 DEF Since
  <2> HIDE DEF m, x
  <2>2. Plus(x, m % Cycles) = Plus(x, m)
    <3>1. Cycles \in Nat \ {0}
      BY OutputAssumption DEF Measured!ProfileConstants
    <3>2. ((m % Cycles) + x) % Cycles = (m + x) % Cycles
      BY <2>1, <3>1, RemainderOfSum
    <3>3. m % Cycles \in Int
      BY <2>1, <3>1, Remainder
    <3>4. x + (m % Cycles) = (m % Cycles) + x /\ x + m = m + x
      BY <2>1, <3>3
    <3> QED
      BY <3>2, <3>4 DEF Plus
  <2> QED
    BY <1>1, <1>8, <2>2 DEF m, x
<1>10. \A j \in Measured!Kind :
         Plus(spent[i][j], d) \in Measured!Cycle /\ Plus(inA[i], d) \in Measured!Cycle
  BY <1>1, <1>2, SumType
<1>11. Plus(time[i][k], Since(k, now) % Cycles) \in Measured!Cycle
  <2> DEFINE m == Since(k, now)
  <2>1. m \in Int /\ Cycles \in Nat \ {0}
    BY <1>1, <1>2, <1>3, OutputAssumption DEF Since, Measured!ProfileConstants
  <2> HIDE DEF m
  <2>2. m % Cycles \in Int
    BY <2>1, Remainder
  <2>3. Plus(time[i][k], m % Cycles) \in Measured!Cycle
    BY <1>1, <1>2, <2>2, SumType
  <2> QED
    BY <2>3 DEF m
<1>12. Types'
  <2>1. at' \in [Timed -> 0 .. 9] /\ at'[i] # 0 /\ \A j \in Timed \ {i} : at'[j] = at[j]
    BY <1>1, <1>4 DEF Types
  <2>2. clock' \in [Timed -> Measured!Cycle] /\ inA' \in [Timed -> Measured!Cycle]
    BY <1>1, <1>3, <1>4, <1>10 DEF Types, Measured!Kind
  <2>3. spent' \in [Timed -> [Measured!Kind -> Measured!Cycle]]
    BY <1>1, <1>2, <1>4, <1>10 DEF Types
  <2>4. begin' \in [Timed -> [{"rpcc_begin", "rpcc_begin_in"} -> Measured!Cycle]]
    <3>1. Measured!Variable(k) \in {"rpcc_begin", "rpcc_begin_in"}
      BY DEF Measured!Variable
    <3>2. begin \in [Timed -> [{"rpcc_begin", "rpcc_begin_in"} -> Measured!Cycle]]
      BY <1>1 DEF Types
    <3>3. CASE begin' = [begin EXCEPT ![i][Measured!Variable(k)] = now]
      BY <1>3, <3>1, <3>2, <3>3
    <3> QED
      BY <1>5, <3>2, <3>3
  <2>5. time' \in [Timed -> [Measured!Kind -> Measured!Cycle]]
    <3> DEFINE new == Plus(time[i][k], Since(k, now) % Cycles)
    <3>1. time \in [Timed -> [Measured!Kind -> Measured!Cycle]] /\ new \in Measured!Cycle
      BY <1>1, <1>11 DEF Types
    <3>2. time' = time \/ time' = [time EXCEPT ![i][k] = new]
      BY <1>5
    <3> HIDE DEF new
    <3>3. CASE time' = [time EXCEPT ![i][k] = new]
      BY <1>1, <3>1, <3>3
    <3> QED
      BY <3>1, <3>2, <3>3
  <2> QED
    BY <1>1, <1>4, <2>1, <2>2, <2>3, <2>4, <2>5 DEF Types
<1>13. /\ clock'[i] = now /\ inA'[i] = Plus(inA[i], d) /\ ppc'[i] = "row"
       /\ at'[i] = n + 1 /\ type' = type
       /\ \A j \in Measured!Kind :
            spent'[i][j] = IF n \in OpenAt(j, type) THEN Plus(spent[i][j], d)
                                                  ELSE spent[i][j]
  BY <1>1, <1>4 DEF Types
<1>14. Counted(i)'
  <2>1. Plus(local[i], clock[i]) = inA[i]
    BY <1>1 DEF Exact, Counted
  <2>2. Plus(local[i], now) = Plus(now, local[i])
    BY <1>2, <1>3, Sums
  <2>3. Plus(now, local[i]) = Plus(clock[i], d + local[i])
    <3>1. clock[i] \in Int /\ d \in Int /\ local[i] \in Int
      BY <1>1, <1>2
    <3>2. Plus(Plus(clock[i], d), local[i]) = Plus(clock[i], d + local[i])
      BY <3>1, SumOfSums
    <3> QED
      BY <3>2 DEF now
  <2>4. Plus(clock[i], d + local[i]) = Plus(local[i], clock[i] + d)
    <3>1. clock[i] + (d + local[i]) = local[i] + (clock[i] + d)
      BY <1>1, <1>2
    <3> QED
      BY <3>1 DEF Plus
  <2>5. Plus(local[i], clock[i] + d) = Plus(Plus(local[i], clock[i]), d)
    <3>1. clock[i] \in Int /\ d \in Int /\ local[i] \in Int
      BY <1>1, <1>2
    <3> QED
      BY <3>1, SumOfSums
  <2> QED
    BY <1>4, <1>13, <2>1, <2>2, <2>3, <2>4, <2>5 DEF Counted
<1>15. ASSUME NEW j \in Measured!Kind PROVE TimerIs(i, j)'
  <2>1. /\ Measured!Marks[n][1] = "begin" =>
             n + 1 \in OpenAt(k, type) /\ n \notin OpenAt(k, type)
        /\ Measured!Marks[n][1] = "end" =>
             n \in OpenAt(k, type) /\ n + 1 \notin OpenAt(k, type)
        /\ j # k =>
             /\ n \in OpenAt(j, type) <=> n + 1 \in OpenAt(j, type)
             /\ n \in OpenAt(j, type) /\ Measured!Marks[n][1] = "begin" =>
                  Measured!Variable(j) # Measured!Variable(k)
    BY <1>1, MarkTurns DEF k
  <2>2. CASE Measured!Marks[n][1] = "begin" /\ j = k
    <3>1. begin'[i][Measured!Variable(k)] = now /\ time'[i][k] = time[i][k]
      BY <1>1, <1>5, <2>2 DEF Types, Measured!Variable
    <3>2. Plus(time[i][k], now - now) = spent[i][k]
      <4>1. now - now = 0 /\ time[i][k] = spent[i][k]
        BY <1>1, <1>3, <1>7, <2>1, <2>2
      <4> QED
        BY <1>1, <1>2, <4>1, Sums
    <3> QED
      BY <1>13, <2>1, <2>2, <3>1, <3>2 DEF TimerIs
  <2>3. CASE Measured!Marks[n][1] = "end" /\ j = k
    <3>1. time'[i][k] = Plus(time[i][k], Since(k, now) % Cycles)
      BY <1>1, <1>5, <2>3 DEF Types
    <3>2. time'[i][k] = spent'[i][k]
      BY <1>1, <1>9, <1>13, <2>1, <2>3, <3>1
    <3> QED
      BY <1>13, <2>1, <2>3, <3>2 DEF TimerIs
  <2>4. CASE j # k
    <3>1. time'[i][j] = time[i][j]
      BY <1>1, <1>5, <2>4 DEF Types
    <3>2. CASE n \in OpenAt(j, type)
      <4>1. begin'[i][Measured!Variable(j)] = begin[i][Measured!Variable(j)]
        BY <1>1, <1>5, <2>1, <2>4, <3>2 DEF Types, Measured!Variable
      <4>2. Plus(time[i][j], now - begin[i][Measured!Variable(j)]) = Plus(spent[i][j], d)
        BY <1>8, <3>2 DEF Since
      <4> QED
        BY <1>13, <2>1, <2>4, <3>1, <3>2, <4>1, <4>2 DEF TimerIs
    <3>3. CASE n \notin OpenAt(j, type)
      BY <1>7, <1>13, <2>1, <2>4, <3>1, <3>3 DEF TimerIs
    <3> QED
      BY <3>2, <3>3
  <2>5. Measured!Marks[n][1] = "begin" \/ Measured!Marks[n][1] = "end"
    BY <1>5
  <2> QED
    BY <2>2, <2>3, <2>4, <2>5
<1>16. Exact(i)'
  BY <1>13, <1>14, <1>15 DEF Exact
<1>17. \A j \in Timed \ {i} : Exact(j)'
  <2> SUFFICES ASSUME NEW j \in Timed \ {i} PROVE Exact(j)'
    OBVIOUS
  <2>1. begin'[j] = begin[j] /\ time'[j] = time[j]
    BY <1>1, <1>5 DEF Types
  <2>2. /\ at'[j] = at[j] /\ clock'[j] = clock[j] /\ inA'[j] = inA[j]
        /\ spent'[j] = spent[j]
    BY <1>1, <1>4 DEF Types
  <2> QED
    BY <1>4, <2>1, <2>2, OtherSlaves DEF IInv
<1> QED
  BY <1>12, <1>16, <1>17 DEF IInv

-----------------------------------------------------------------------------
(* The theorems.                                                           *)

\* Every step of the slaves keeps the invariant.
LEMMA NextInv == IInv /\ [Measured!Next]_(Measured!vars) => IInv'
<1> SUFFICES ASSUME IInv, [Measured!Next]_(Measured!vars) PROVE IInv'
  OBVIOUS
<1>1. CASE Measured!Return
  BY <1>1, ReturnInv
<1>2. ASSUME NEW i \in Timed, Measured!Enter(i) \/ Measured!Stop(i) \/ Measured!Leave(i)
      PROVE  IInv'
  BY <1>2, EnterInv, StopInv, LeaveInv
<1>3. ASSUME NEW i \in Timed, NEW d \in Ticks, Measured!Start(i, d) \/ Measured!Mark(i, d)
      PROVE  IInv'
  BY <1>3, StartInv, MarkInv
<1>4. CASE UNCHANGED Measured!vars
  <2>1. Types'
    BY <1>4 DEF IInv, Types, Measured!vars
  <2>2. \A j \in Timed : Exact(j)'
    BY <1>4, OtherSlaves DEF IInv, Measured!vars
  <2> QED
    BY <2>1, <2>2 DEF IInv
<1> QED
  BY <1>1, <1>2, <1>3, <1>4 DEF Measured!Next

\* Counters and timers hold what has been spent, modulo the width of the cycle
\* counter, less the clock at the beginning of what is not over: the inductive
\* invariant.
THEOREM AllMeasured == Measured!Spec => []IInv
<1>1. Measured!Init => IInv
  BY InitInv
<1>2. IInv /\ [Measured!Next]_(Measured!vars) => IInv'
  BY NextInv
<1> QED
  BY <1>1, <1>2, PTL DEF Measured!Spec

\* A call of stencil_7 reports the cycles of all calls so far, wherever the cycle counter
\* of a slave wraps.
THEOREM ReportsExact == Measured!Spec => ReportExact
<1>1. IInv /\ [Measured!Next]_(Measured!vars) =>
        [call' # call /\ type = 7 => report' = inA]_(Measured!vars)
  <2> SUFFICES ASSUME IInv, Measured!Next, call' # call, type = 7 PROVE report' = inA
    OBVIOUS
  <2>1. Measured!Return
    BY DEF Measured!Next, Measured!Enter, Measured!Start, Measured!Mark, Measured!Stop,
         Measured!Leave
  <2> QED
    BY <2>1, ReturnInv
<1> QED
  BY <1>1, AllMeasured, PTL DEF Measured!Spec, ReportExact, Measured!ReportExact

\* The times that TIMING prints are those of the call, in the lower word.
THEOREM TimesExact == Measured!Spec => []ShownExact
<1>1. IInv => ShownExact
  <2> SUFFICES ASSUME IInv, NEW i \in Timed, NEW k \in Measured!Kind, ppc[i] = "left"
               PROVE  shown[i][k] % Ints = spent[i][k] % Ints
    BY DEF ShownExact, Measured!ShownExact
  <2>1. shown[i][k] = Measured!AsInt(time[i][k]) /\ time[i][k] = spent[i][k]
    BY DEF IInv, Exact, TimerIs
  <2> DEFINE n == spent[i][k]
             r == n % Ints
  <2>2. n \in Int /\ Ints \in Nat \ {0}
    BY OutputAssumption DEF IInv, Types, Measured!Cycle, Measured!ProfileConstants
  <2> HIDE DEF n
  <2>3. r \in 0 .. Ints - 1
    BY <2>2, Remainder
  <2> HIDE DEF r
  <2>4. r % Ints = r
    BY <2>2, <2>3, SmallRemainder
  <2>5. (r - Ints) % Ints = r % Ints
    <3>1. r - Ints \in Int /\ r \in Int /\ r - Ints = r + Ints * (-1)
      BY <2>2, <2>3
    <3> DEFINE x == r - Ints
               m == -1
    <3>2. x \in Int /\ x = r + Ints * m /\ m \in Int
      BY <3>1
    <3>3. r \in Int /\ Ints \in Nat \ {0}
      BY <2>2, <3>1
    <3> HIDE DEF x, m
    <3>4. x % Ints = r % Ints
      BY <3>2, <3>3, Multiples
    <3> QED
      BY <3>4 DEF x
  <2>6. Measured!AsInt(n) = r \/ Measured!AsInt(n) = r - Ints
    BY DEF Measured!AsInt, r
  <2> QED
    BY <2>1, <2>4, <2>5, <2>6 DEF n, r
<1> QED
  BY <1>1, AllMeasured, PTL

-----------------------------------------------------------------------------
(* Report.                                                                 *)

-----------------------------------------------------------------------------
(* Rounding.                                                               *)

\* Quotients of natural numbers.
LEMMA Quotient ==
  ASSUME NEW b \in Nat \ {0}, NEW a \in Nat
  PROVE  a \div b \in Nat /\ b * (a \div b) <= a /\ a < b * (a \div b) + b
<1>1. a \div b \in Nat /\ a % b \in 0 .. b - 1 /\ a % b = a - b * (a \div b)
  OBVIOUS
<1> DEFINE q == a \div b
           r == a % b
<1>2. q \in Nat /\ r \in 0 .. b - 1 /\ r = a - b * q
  BY <1>1
<1> HIDE DEF q, r
<1>3. b * q \in Nat
  BY <1>2
<1>4. b * q <= a /\ a < b * q + b
  BY <1>2, <1>3
<1> QED
  BY <1>2, <1>4 DEF q

\* A quotient lies between those who bound it.
LEMMA QuotientAbove ==
  ASSUME NEW b \in Nat \ {0}, NEW a \in Nat, NEW k \in Nat, b * k <= a
  PROVE  k <= a \div b
<1> DEFINE q == a \div b
<1>1. q \in Nat /\ a < b * q + b
  BY Quotient
<1> HIDE DEF q
<1>2. SUFFICES ASSUME q < k PROVE FALSE
  BY <1>1 DEF q
<1>3. b * (k - q - 1) \in Nat
  <2>1. k - q - 1 \in Nat
    BY <1>1, <1>2
  <2> QED
    BY <2>1
<1>4. b * k = b * q + b + b * (k - q - 1)
  BY <1>1
<1>5. b * q \in Nat /\ b * k \in Nat
  BY <1>1
<1> QED
  BY <1>1, <1>3, <1>4, <1>5

LEMMA QuotientBelow ==
  ASSUME NEW b \in Nat \ {0}, NEW a \in Nat, NEW k \in Nat, a < b * k + b
  PROVE  a \div b <= k
<1> DEFINE q == a \div b
<1>1. q \in Nat /\ b * q <= a
  BY Quotient
<1> HIDE DEF q
<1>2. SUFFICES ASSUME k < q PROVE FALSE
  BY <1>1 DEF q
<1>3. b * (q - k - 1) \in Nat
  <2>1. q - k - 1 \in Nat
    BY <1>1, <1>2
  <2> QED
    BY <2>1
<1>4. b * q = b * k + b + b * (q - k - 1)
  BY <1>1
<1>5. b * q \in Nat /\ b * k \in Nat
  BY <1>1
<1> QED
  BY <1>1, <1>3, <1>4, <1>5

\* Rounding a number to the nearest multiple of a unit.
Round(u, v) == (v + u \div 2) \div u

LEMMA Rounded ==
  ASSUME NEW u \in Nat \ {0}, NEW v \in Nat
  PROVE  /\ Round(u, v) \in Nat
         /\ 2 * (u * Round(u, v) - v) <= u /\ 2 * (v - u * Round(u, v)) <= u
<1> DEFINE h == u \div 2
           q == Round(u, v)
<1>1. h \in Nat /\ 2 * h <= u /\ u < 2 * h + 2
  BY Quotient
<1> HIDE DEF h
<1>2. q \in Nat /\ u * q <= v + h /\ v + h < u * q + u
  BY <1>1, Quotient DEF Round, h
<1> HIDE DEF q
<1> DEFINE s == u * q
<1>3. s \in Nat
  BY <1>2
<1>4. 2 * (s - v) <= u /\ 2 * (v - s) <= u
  <2> HIDE DEF s
  <2>1. s <= v + h /\ v + h < s + u
    BY <1>2 DEF s
  <2> QED
    BY <1>1, <1>3, <2>1
<1> QED
  BY <1>2, <1>4 DEF q
\* The units of a report, in the order of their sizes.
Units(r) == {1} \cup Shown!Divisors(r)

LEMMA UnitSizes ==
  ASSUME NEW r \in Shown!Reports
  PROVE  /\ Units(r) \subseteq {1, Base, Base * Base, Base * Base * Base}
         /\ 1 < Base /\ Base < Base * Base /\ Base * Base < Base * Base * Base
         /\ {Base, Base * Base, Base * Base * Base} \subseteq Nat \ {0}
         /\ Slack[r] \in Nat \ {0}
<1>1. Base \in Nat /\ 1 < Base /\ Slack[r] \in Nat \ {0}
  BY OutputAssumption DEF Shown!ReportConstants
<1>2. Base * Base \in Nat /\ Base < Base * Base
  <2>1. Base * (Base - 1) \in Nat /\ Base * (Base - 1) >= Base - 1
    <3>1. PICK k \in Nat : k = Base - 2
      BY <1>1
    <3>2. Base = k + 2 /\ k * k \in Nat
      BY <1>1, <3>1
    <3>3. (k + 2) * (k + 1) = k * k + 3 * k + 2
      BY <3>1
    <3> QED
      BY <3>1, <3>2, <3>3
  <2>2. Base * Base = Base * (Base - 1) + Base
    BY <1>1
  <2> QED
    BY <1>1, <2>1, <2>2
<1> DEFINE m == Base * Base
<1>3. m \in Nat /\ 1 < m
  BY <1>1, <1>2
<1>4. m * Base \in Nat /\ m < m * Base
  <2> HIDE DEF m
  <2>1. PICK k \in Nat : Base = k + 2
    <3>1. Base - 2 \in Nat /\ Base = (Base - 2) + 2
      BY <1>1
    <3> QED
      BY <3>1
  <2>2. m * k \in Nat /\ m * (k + 2) = m * k + m + m
    BY <1>3, <2>1
  <2> QED
    BY <1>3, <2>1, <2>2
<1>5. Units(r) \subseteq {1, Base, m, m * Base}
  BY DEF Units, Shown!Divisors
<1> QED
  BY <1>1, <1>2, <1>4, <1>5

\* A smaller unit divides a larger one.
LEMMA UnitsDivide ==
  ASSUME NEW r \in Shown!Reports,
         NEW u \in Units(r), NEW t \in Units(r), u < t
  PROVE  \E k \in Nat : t = u * k
<1> DEFINE m == Base * Base
           g == m * Base
<1>1. /\ u \in {1, Base, m, g} /\ t \in {1, Base, m, g}
      /\ 1 < Base /\ Base < m /\ m < g /\ Base \in Nat /\ m \in Nat /\ g \in Nat
  BY UnitSizes
<1>2. m = Base * Base /\ g = m * Base /\ g = Base * m
  BY <1>1
<1> HIDE DEF m, g
<1>3. CASE u = 1
  BY <1>1, <1>3
<1>4. CASE u = Base
  <2>1. t = m \/ t = g
    BY <1>1, <1>4
  <2> QED
    BY <1>1, <1>2, <1>4, <2>1
<1>5. CASE u = m
  <2>1. t = g
    BY <1>1, <1>5
  <2> QED
    BY <1>1, <1>2, <1>5, <2>1
<1> QED
  BY <1>1, <1>3, <1>4, <1>5

\* The unit of a number is the largest that is passed.
LEMMA UnitPassed ==
  ASSUME NEW r \in Shown!Reports, NEW v \in Nat
  PROVE  /\ Shown!Unit(r, v) \in Units(r) /\ Shown!Unit(r, v) \in Nat \ {0}
         /\ Shown!Unit(r, v) = 1 \/ v > Shown!Unit(r, v) * Slack[r]
         /\ \A d \in Shown!Divisors(r) : v > d * Slack[r] => d <= Shown!Unit(r, v)
<1> DEFINE m == Base * Base
           g == m * Base
           S == {1} \cup {d \in Shown!Divisors(r) : v > d * Slack[r]}
           x == CHOOSE x \in S : \A y \in S : x >= y
<1>1. Shown!Unit(r, v) = x
  BY DEF Shown!Unit, Shown!Max
<1>2. /\ Units(r) \subseteq {1, Base, m, g} /\ S \subseteq Units(r) /\ 1 \in S
      /\ 1 < Base /\ Base < m /\ m < g /\ Base \in Nat /\ m \in Nat /\ g \in Nat
  BY UnitSizes DEF Units
<1>3. \E k \in S : \A y \in S : k >= y
  <2> HIDE DEF S, m, g
  <2>1. CASE g \in S
    BY <1>2, <2>1
  <2>2. CASE g \notin S /\ m \in S
    BY <1>2, <2>2
  <2>3. CASE g \notin S /\ m \notin S /\ Base \in S
    BY <1>2, <2>3
  <2>4. CASE g \notin S /\ m \notin S /\ Base \notin S
    BY <1>2, <2>4
  <2> QED
    BY <2>1, <2>2, <2>3, <2>4
<1>4. x \in S /\ \A y \in S : x >= y
  BY <1>3
<1> HIDE DEF x
<1>5. x \in Units(r) /\ x \in Nat \ {0}
  BY <1>2, <1>4
<1>6. x = 1 \/ v > x * Slack[r]
  BY <1>4
<1>7. \A d \in Shown!Divisors(r) : v > d * Slack[r] => d <= x
  BY <1>2, <1>4, <1>5
<1> QED
  BY <1>1, <1>5, <1>6, <1>7
\* What is printed of a number, in its own unit.
LEMMA Printed ==
  ASSUME NEW r \in Shown!Reports, NEW v \in Nat
  PROVE  /\ Shown!Printed(r, v).unit = Shown!Unit(r, v)
         /\ Shown!Size(Shown!Printed(r, v)) = Shown!Unit(r, v) * Round(Shown!Unit(r, v), v)
         /\ Shown!StandsFor(Shown!Printed(r, v), v)
<1> DEFINE u == Shown!Unit(r, v)
           q == Round(u, v)
<1>1. u \in Nat \ {0}
  BY UnitPassed
<1>2. Shown!Printed(r, v) = [count |-> q, unit |-> u]
  BY DEF Shown!Printed, Round
<1> HIDE DEF u
<1>3. q \in Nat /\ 2 * (u * q - v) <= u /\ 2 * (v - u * q) <= u
  BY <1>1, Rounded
<1> HIDE DEF q
<1>4. Shown!Size(Shown!Printed(r, v)) = q * u /\ Shown!Printed(r, v).unit = u
  BY <1>2 DEF Shown!Size
<1>5. q * u = u * q
  BY <1>1, <1>3
<1> QED
  BY <1>3, <1>4, <1>5 DEF Shown!StandsFor, u, q

\* Rounding in one unit keeps numbers in order.
LEMMA RoundedInOrder ==
  ASSUME NEW u \in Nat \ {0}, NEW v \in Nat, NEW w \in Nat, v <= w
  PROVE  u * Round(u, v) <= u * Round(u, w)
<1> DEFINE h == u \div 2
           p == Round(u, v)
           q == Round(u, w)
<1>1. h \in Nat
  BY Quotient
<1> HIDE DEF h
<1>2. /\ p \in Nat /\ u * p <= v + h
      /\ q \in Nat /\ w + h < u * q + u
  BY <1>1, Quotient DEF Round, h
<1>3. v + h < u * q + u /\ v + h \in Nat
  <2> HIDE DEF q
  <2>1. u * q \in Nat
    BY <1>2
  <2> QED
    BY <1>1, <1>2, <2>1
<1>4. p <= q
  <2>1. (v + h) \div u <= q
    BY <1>2, <1>3, QuotientBelow
  <2> QED
    BY <2>1 DEF Round, h
<1> HIDE DEF p, q
<1>5. PICK k \in Nat : q = p + k
  <2>1. q - p \in Nat /\ q = p + (q - p)
    BY <1>2, <1>4
  <2> QED
    BY <2>1
<1>6. u * (p + k) = u * p + u * k /\ u * k \in Nat /\ u * p \in Nat
  BY <1>2, <1>5
<1>7. u * p <= u * q
  BY <1>5, <1>6
<1> QED
  BY <1>7 DEF p, q

\* A number up to the limit of a larger unit, rounded in a smaller one, stays
\* up to the limit, and one from the limit on, rounded in the larger, above it.
LEMMA RoundedToLimit ==
  ASSUME NEW u \in Nat \ {0}, NEW k \in Nat, NEW n \in Nat, NEW v \in Nat, NEW w \in Nat,
         v <= u * (k * n), (u * k) * n <= w, u * k # 0
  PROVE  u * Round(u, v) <= (u * k) * Round(u * k, w)
<1> DEFINE h == u \div 2
           t == u * k
           i == t \div 2
           p == Round(u, v)
           q == Round(t, w)
<1>1. t \in Nat \ {0} /\ k * n \in Nat
  OBVIOUS
<1> HIDE DEF t
<1>2. h \in Nat /\ i \in Nat /\ 2 * h <= u
  BY <1>1, Quotient DEF h, i
<1>3. h < u
  BY <1>2
<1>4. v + h \in Nat /\ v + h < u * (k * n) + u
  <2> HIDE DEF h
  <2>1. u * (k * n) \in Nat
    BY <1>1
  <2> QED
    BY <1>2, <1>3, <2>1
<1>5. p <= k * n /\ p \in Nat
  <2>1. (v + h) \div u <= k * n
    BY <1>1, <1>4, QuotientBelow
  <2>2. (v + h) \div u \in Nat
    BY <1>4, Quotient
  <2> QED
    BY <2>1, <2>2 DEF Round
<1>6. n <= q /\ q \in Nat
  <2>1. w + i \in Nat /\ t * n <= w + i
    <3> HIDE DEF i
    <3>1. t * n \in Nat /\ t * n <= w
      BY <1>1 DEF t
    <3> QED
      BY <1>2, <3>1
  <2>2. n <= (w + i) \div t
    BY <1>1, <2>1, QuotientAbove
  <2>3. (w + i) \div t \in Nat
    BY <1>1, <2>1, Quotient
  <2> QED
    BY <2>2, <2>3 DEF Round
<1> HIDE DEF p, q, h, i
<1>7. u * p <= u * (k * n)
  <2> DEFINE m == k * n
  <2>1. m \in Nat /\ p <= m
    BY <1>1, <1>5
  <2> HIDE DEF m
  <2>2. PICK d \in Nat : m = p + d
    <3>1. m - p \in Nat /\ m = p + (m - p)
      BY <1>5, <2>1
    <3> QED
      BY <3>1
  <2>3. u * (p + d) = u * p + u * d /\ u * d \in Nat /\ u * p \in Nat
    BY <1>5, <2>2
  <2> QED
    BY <2>2, <2>3 DEF m
<1>8. t * n <= t * q
  <2>1. PICK d \in Nat : q = n + d
    <3>1. q - n \in Nat /\ q = n + (q - n)
      BY <1>6
    <3> QED
      BY <3>1
  <2>2. t * (n + d) = t * n + t * d /\ t * d \in Nat /\ t * n \in Nat
    BY <1>1, <2>1
  <2> QED
    BY <2>1, <2>2
<1>9. u * (k * n) = t * n
  BY DEF t
<1>10. u * p \in Nat /\ t * q \in Nat /\ t * n \in Nat
  BY <1>1, <1>5, <1>6
<1>11. u * p <= t * q
  BY <1>7, <1>8, <1>9, <1>10
<1> QED
  BY <1>11 DEF p, q, t
\* What is printed keeps numbers in order, each in its own unit: where the unit
\* changes, the limit is a multiple of both.
LEMMA PrintedInOrder ==
  ASSUME NEW r \in Shown!Reports, NEW v \in Nat, NEW w \in Nat, v <= w
  PROVE  Shown!Size(Shown!Printed(r, v)) <= Shown!Size(Shown!Printed(r, w))
<1> DEFINE u == Shown!Unit(r, v)
           t == Shown!Unit(r, w)
           n == Slack[r]
<1>1. /\ u \in Units(r) /\ u \in Nat \ {0} /\ (u = 1 \/ v > u * n)
      /\ \A d \in Shown!Divisors(r) : v > d * n => d <= u
  BY UnitPassed
<1>2. /\ t \in Units(r) /\ t \in Nat \ {0} /\ (t = 1 \/ w > t * n)
      /\ \A d \in Shown!Divisors(r) : w > d * n => d <= t
  BY UnitPassed
<1>3. n \in Nat \ {0}
  BY UnitSizes
<1>4. SUFFICES u * Round(u, v) <= t * Round(t, w)
  BY Printed
<1> HIDE DEF u, t, n
<1>5. CASE u = t
  BY <1>1, <1>5, RoundedInOrder
<1>6. CASE u < t
  <2>1. t \in Shown!Divisors(r)
    BY <1>1, <1>2, <1>6 DEF Units
  <2>2. t * n \in Nat /\ v <= t * n /\ t * n <= w
    <3>1. t * n \in Nat
      BY <1>2, <1>3
    <3>2. ~(v > t * n)
      BY <1>1, <1>2, <1>6, <2>1
    <3>3. w > t * n
      BY <1>1, <1>2, <1>6
    <3> QED
      BY <3>1, <3>2, <3>3
  <2>3. PICK k \in Nat : t = u * k
    BY <1>1, <1>2, <1>6, UnitsDivide
  <2>4. u * (k * n) = t * n
    <3>1. u * (k * n) = (u * k) * n
      BY <1>1, <1>3
    <3> QED
      BY <2>3, <3>1
  <2>5. v <= u * (k * n) /\ (u * k) * n <= w /\ u * k # 0
    BY <1>2, <2>2, <2>3, <2>4
  <2>6. u * Round(u, v) <= (u * k) * Round(u * k, w)
    BY <1>1, <1>3, <2>5, RoundedToLimit
  <2> QED
    BY <2>3, <2>6
<1>7. CASE t < u
  <2>1. u \in Shown!Divisors(r) /\ v > u * n /\ u * n \in Nat
    BY <1>1, <1>2, <1>3, <1>7 DEF Units
  <2>2. w > u * n
    BY <2>1
  <2>3. u <= t
    BY <1>2, <2>1, <2>2
  <2> QED
    BY <1>1, <1>2, <1>7, <2>3
<1> QED
  BY <1>1, <1>2, <1>5, <1>6, <1>7

\* An average lies between the least and the greatest.
LEMMA MeanBetween ==
  ASSUME NEW n \in Nat \ {0}, NEW lo \in Nat, NEW hi \in Nat, NEW sum \in Nat,
         n * lo <= sum, sum <= n * hi
  PROVE  sum \div n \in Nat /\ lo <= sum \div n /\ sum \div n <= hi
<1>1. sum \div n \in Nat
  BY Quotient
<1>2. lo <= sum \div n
  BY QuotientAbove
<1>3. sum < n * hi + n
  <2>1. n * hi \in Nat
    OBVIOUS
  <2> QED
    BY <2>1
<1>4. sum \div n <= hi
  BY <1>3, QuotientBelow
<1> QED
  BY <1>1, <1>2, <1>4

-----------------------------------------------------------------------------
(* Rows.                                                                   *)

\* The sums of lane c are those of the first n slaves for kernel k.
SumsOf(a, k, n, c) ==
  /\ a \in [sum : Nat, max : Nat, min : Nat]
  /\ \A p \in 0 .. n - 1 : a.min <= Shown!Of(k, c)[p] /\ Shown!Of(k, c)[p] <= a.max
  /\ n * a.min <= a.sum /\ a.sum <= n * a.max
  /\ IF n = 0 THEN a = [sum |-> 0, max |-> 0, min |-> Least]
     ELSE \E p, q \in 0 .. n - 1 : a.min = Shown!Of(k, c)[p] /\ a.max = Shown!Of(k, c)[q]

Number == [count : Nat, unit : Nat]
Rows == [Shown!Lane -> [avg : Number, min : Number, max : Number]]
          \cup [Shown!Lane -> [value : Number]]

\* As many rows as kernels, or pairs of kernel and slave, are through; the sums are
\* those of the slaves before.
ReportInv ==
  /\ kind \in Shown!Reports /\ kernel \in 0 .. NK /\ slave \in 0 .. NP
  /\ counter \in [0 .. NP * NK * NC - 1 -> Values]
  /\ acc \in [Shown!Lane -> [sum : Nat, max : Nat, min : Nat]]
  /\ rows \in Seq(Rows)
  /\ IF kind = "detail"
     THEN slave < NP /\ Len(rows) = kernel * NP + slave
     ELSE Len(rows) = kernel /\ \A c \in Shown!Lane : SumsOf(acc[c], kernel, slave, c)
  /\ Shown!RowsInOrder

\* The place of a counter in the array.
LEMMA CounterPlace ==
  ASSUME NEW p \in 0 .. NP - 1, NEW k \in 0 .. NK - 1, NEW c \in Shown!Lane
  PROVE  (p * NK + k) * NC + c \in 0 .. NP * NK * NC - 1
<1>1. /\ NP \in Nat \ {0} /\ NK \in Nat \ {0} /\ NC \in Nat \ {0} /\ c \in 0 .. NC - 1
  BY OutputAssumption DEF Shown!ReportConstants, Shown!Lane
<1>2. \A a, b \in Nat : a * b \in Nat
  OBVIOUS
<1> DEFINE m == p * NK + k
<1>3. m \in Nat /\ m + 1 <= NP * NK /\ NP * NK \in Nat
  <2>1. PICK d \in Nat : NP = p + 1 + d
    <3>1. NP - (p + 1) \in Nat /\ NP = p + 1 + (NP - (p + 1))
      BY <1>1
    <3> QED
      BY <3>1
  <2>2. (p + 1 + d) * NK = p * NK + NK + d * NK /\ d * NK \in Nat /\ p * NK \in Nat
    BY <1>1, <2>1
  <2> QED
    BY <1>1, <2>1, <2>2
<1> DEFINE w == NP * NK
<1> HIDE DEF m, w
<1>4. m * NC + c \in Nat /\ m * NC + c < w * NC
  <2>1. PICK d \in Nat : w = m + 1 + d
    <3>1. w - (m + 1) \in Nat /\ w = m + 1 + (w - (m + 1))
      BY <1>3 DEF w
    <3> QED
      BY <3>1
  <2>2. (m + 1 + d) * NC = m * NC + NC + d * NC /\ d * NC \in Nat /\ m * NC \in Nat
    BY <1>1, <1>3, <2>1
  <2> QED
    BY <1>1, <2>1, <2>2
<1>5. w * NC \in Nat
  BY <1>1, <1>3 DEF w
<1>6. m * NC + c \in 0 .. w * NC - 1
  BY <1>4, <1>5
<1> QED
  BY <1>6 DEF m, w

LEMMA Counters ==
  ASSUME counter \in [0 .. NP * NK * NC - 1 -> Values],
         NEW p \in 0 .. NP - 1, NEW k \in 0 .. NK - 1, NEW c \in Shown!Lane
  PROVE  /\ Shown!Cell(p, k, c) = Shown!Of(k, c)[p]
         /\ Shown!Of(k, c)[p] \in Nat /\ Shown!Of(k, c)[p] <= Least
<1>1. Shown!Of(k, c)[p] = Shown!Cell(p, k, c)
  BY DEF Shown!Of, Shown!Cell
<1>2. Shown!Cell(p, k, c) \in Values
  BY CounterPlace DEF Shown!Cell
<1> QED
  BY <1>1, <1>2, OutputAssumption DEF Shown!ReportConstants

\* The larger and the smaller of two.
LEMMA OfTwo ==
  ASSUME NEW a \in Int, NEW b \in Int
  PROVE  /\ Shown!Max({a, b}) \in {a, b} /\ Shown!Max({a, b}) >= a /\ Shown!Max({a, b}) >= b
         /\ Shown!Min({a, b}) \in {a, b} /\ Shown!Min({a, b}) <= a /\ Shown!Min({a, b}) <= b
<1>1. \E x \in {a, b} : \A y \in {a, b} : x >= y
  OBVIOUS
<1>2. \E x \in {a, b} : \A y \in {a, b} : x =< y
  OBVIOUS
<1>3. Shown!Max({a, b}) \in {a, b} /\ \A y \in {a, b} : Shown!Max({a, b}) >= y
  BY <1>1 DEF Shown!Max
<1>4. Shown!Min({a, b}) \in {a, b} /\ \A y \in {a, b} : Shown!Min({a, b}) =< y
  BY <1>2 DEF Shown!Min
<1> QED
  BY <1>3, <1>4

\* The sums over all slaves have the least and the greatest of the counters.
LEMMA AllSummed ==
  ASSUME counter \in [0 .. NP * NK * NC - 1 -> Values],
         NEW a, NEW k \in 0 .. NK - 1, NEW c \in Shown!Lane, SumsOf(a, k, NP, c)
  PROVE  a.min = Shown!Min(Shown!AllOf(k, c)) /\ a.max = Shown!Max(Shown!AllOf(k, c))
<1> DEFINE S == Shown!AllOf(k, c)
<1>1. NP \in Nat \ {0}
  BY OutputAssumption DEF Shown!ReportConstants
<1>2. S = {Shown!Of(k, c)[p] : p \in 0 .. NP - 1}
  BY DEF Shown!AllOf
<1>3. S \subseteq Nat
  BY <1>2, Counters
<1> HIDE DEF S
<1>4. a.min \in S /\ a.max \in S /\ \A y \in S : a.min =< y /\ a.max >= y
  BY <1>1, <1>2 DEF SumsOf
<1> DEFINE lo == a.min
           hi == a.max
<1>5. lo \in S /\ hi \in S /\ \A y \in S : lo =< y /\ hi >= y
  BY <1>4
<1>6. Shown!Min(S) \in S /\ \A y \in S : Shown!Min(S) =< y
  BY <1>5 DEF Shown!Min
<1>7. Shown!Max(S) \in S /\ \A y \in S : Shown!Max(S) >= y
  BY <1>5 DEF Shown!Max
<1> HIDE DEF lo, hi
<1>8. lo =< Shown!Min(S) /\ Shown!Min(S) =< lo /\ lo \in Nat /\ Shown!Min(S) \in Nat
  BY <1>3, <1>5, <1>6
<1>9. hi >= Shown!Max(S) /\ Shown!Max(S) >= hi /\ hi \in Nat /\ Shown!Max(S) \in Nat
  BY <1>3, <1>5, <1>7
<1>10. lo = Shown!Min(S) /\ hi = Shown!Max(S)
  BY <1>8, <1>9
<1> QED
  BY <1>10 DEF S, lo, hi

-----------------------------------------------------------------------------
(* The steps.                                                              *)

\* The sums before the first slave.
LEMMA NoSums ==
  ASSUME NEW k, NEW c
  PROVE  /\ [sum |-> 0, max |-> 0, min |-> Least] \in [sum : Nat, max : Nat, min : Nat]
         /\ SumsOf([sum |-> 0, max |-> 0, min |-> Least], k, 0, c)
<1>1. Least \in Nat
  BY OutputAssumption DEF Shown!ReportConstants
<1> DEFINE a == [sum |-> 0, max |-> 0, min |-> Least]
<1>2. /\ a \in [sum : Nat, max : Nat, min : Nat] /\ a = [sum |-> 0, max |-> 0, min |-> Least]
      /\ a.min = Least /\ a.sum = 0 /\ a.max = 0
  BY <1>1
<1> HIDE DEF a
<1>3. SumsOf(a, k, 0, c)
  BY <1>1, <1>2 DEF SumsOf
<1> QED
  BY <1>2, <1>3 DEF a

LEMMA ReportInit == ASSUME Shown!Init PROVE ReportInv
<1>1. /\ kind \in Shown!Reports /\ kernel = 0 /\ slave = 0 /\ rows = << >>
      /\ counter \in [0 .. NP * NK * NC - 1 -> Values]
      /\ acc = [c \in Shown!Lane |-> [sum |-> 0, max |-> 0, min |-> Least]]
  BY DEF Shown!Init, Shown!Nothing
<1>2. NP \in Nat \ {0} /\ NK \in Nat \ {0} /\ Least \in Nat
  BY OutputAssumption DEF Shown!ReportConstants
<1>3. acc \in [Shown!Lane -> [sum : Nat, max : Nat, min : Nat]]
  BY <1>1, <1>2
<1>4. \A c \in Shown!Lane : SumsOf(acc[c], kernel, slave, c)
  BY <1>1, NoSums
<1>5. rows \in Seq(Rows) /\ Len(rows) = 0 /\ DOMAIN rows = {}
  BY <1>1
<1>6. Shown!RowsInOrder
  BY <1>5 DEF Shown!RowsInOrder, Shown!RowsTrue, Shown!OrderKept
<1> QED
  BY <1>1, <1>2, <1>3, <1>4, <1>5, <1>6 DEF ReportInv

\* One slave more.
LEMMA SumOfMore ==
  ASSUME counter \in [0 .. NP * NK * NC - 1 -> Values],
         NEW k \in 0 .. NK - 1, NEW n \in 0 .. NP - 1, NEW c \in Shown!Lane,
         NEW a, SumsOf(a, k, n, c), NEW v, v = Shown!Cell(n, k, c)
  PROVE  SumsOf([sum |-> a.sum + v, max |-> Shown!Max({a.max, v}), min |-> Shown!Min({a.min, v})],
                k, n + 1, c)
<1> DEFINE f == Shown!Of(k, c)
           sum == a.sum
           lo == a.min
           hi == a.max
           lo2 == Shown!Min({lo, v})
           hi2 == Shown!Max({hi, v})
           b == [sum |-> sum + v, max |-> hi2, min |-> lo2]
<1>1. v = f[n] /\ v \in Nat /\ v <= Least /\ NP \in Nat /\ n \in Nat /\ Least \in Nat
  BY Counters, OutputAssumption DEF Shown!ReportConstants
<1>2. /\ sum \in Nat /\ lo \in Nat /\ hi \in Nat /\ n * lo <= sum /\ sum <= n * hi
      /\ \A p \in 0 .. n - 1 : lo <= f[p] /\ f[p] <= hi
      /\ n = 0 => sum = 0 /\ lo = Least /\ hi = 0
      /\ n # 0 => \E p, q \in 0 .. n - 1 : lo = f[p] /\ hi = f[q]
  BY <1>1 DEF SumsOf
<1>3. \A p \in 0 .. n - 1 : f[p] \in Nat
  BY <1>1, Counters
<1> HIDE DEF f, sum, lo, hi
<1>4. /\ lo2 \in {lo, v} /\ lo2 <= lo /\ lo2 <= v /\ hi2 \in {hi, v} /\ hi2 >= hi /\ hi2 >= v
      /\ lo2 \in Nat /\ hi2 \in Nat
  <2>1. lo \in Int /\ hi \in Int /\ v \in Int
    BY <1>1, <1>2
  <2>2. lo2 \in {lo, v} /\ lo2 <= lo /\ lo2 <= v
    BY <2>1, OfTwo
  <2>3. hi2 \in {hi, v} /\ hi2 >= hi /\ hi2 >= v
    BY <2>1, OfTwo
  <2> HIDE DEF lo2, hi2
  <2> QED
    BY <1>1, <1>2, <2>2, <2>3
<1> HIDE DEF lo2, hi2
<1>5. \A p \in 0 .. (n + 1) - 1 : lo2 <= f[p] /\ f[p] <= hi2
  <2> SUFFICES ASSUME NEW p \in 0 .. (n + 1) - 1 PROVE lo2 <= f[p] /\ f[p] <= hi2
    OBVIOUS
  <2>1. CASE p = n
    BY <1>1, <1>4, <2>1
  <2>2. CASE p # n
    <3>1. p \in 0 .. n - 1
      BY <1>1, <2>2
    <3> QED
      BY <1>2, <1>3, <1>4, <3>1
  <2> QED
    BY <2>1, <2>2
<1>6. (n + 1) * lo2 <= sum + v /\ sum + v <= (n + 1) * hi2
  <2>1. (n + 1) * lo2 = n * lo2 + lo2 /\ (n + 1) * hi2 = n * hi2 + hi2
    BY <1>1, <1>4
  <2>2. n * lo2 <= n * lo
    <3>1. PICK d \in Nat : lo = lo2 + d
      <4>1. lo - lo2 \in Nat /\ lo = lo2 + (lo - lo2)
        BY <1>2, <1>4
      <4> QED
        BY <4>1
    <3>2. n * (lo2 + d) = n * lo2 + n * d /\ n * d \in Nat /\ n * lo2 \in Nat
      BY <1>1, <1>4, <3>1
    <3> QED
      BY <3>1, <3>2
  <2>3. n * hi <= n * hi2
    <3>1. PICK d \in Nat : hi2 = hi + d
      <4>1. hi2 - hi \in Nat /\ hi2 = hi + (hi2 - hi)
        BY <1>2, <1>4
      <4> QED
        BY <4>1
    <3>2. n * (hi + d) = n * hi + n * d /\ n * d \in Nat /\ n * hi \in Nat
      BY <1>1, <1>2, <3>1
    <3> QED
      BY <3>1, <3>2
  <2>4. n * lo \in Nat /\ n * hi \in Nat /\ n * lo2 \in Nat /\ n * hi2 \in Nat
    BY <1>1, <1>2, <1>4
  <2> DEFINE q1 == n * lo
             q2 == n * hi
             p1 == n * lo2
             p2 == n * hi2
  <2>5. /\ q1 \in Nat /\ q2 \in Nat /\ p1 \in Nat /\ p2 \in Nat
        /\ p1 <= q1 /\ q1 <= sum /\ sum <= q2 /\ q2 <= p2
    BY <1>2, <2>2, <2>3, <2>4
  <2> HIDE DEF q1, q2, p1, p2
  <2>6. /\ sum \in Nat /\ v \in Nat /\ lo2 \in Nat /\ hi2 \in Nat
        /\ lo2 <= v /\ v <= hi2 /\ p1 <= sum /\ sum <= p2
    <3>1. p1 <= sum /\ sum <= p2
      BY <1>2, <2>5
    <3> QED
      BY <1>1, <1>2, <1>4, <3>1
  <2>7. p1 + lo2 <= sum + v
    BY <2>5, <2>6
  <2>8. sum + v <= p2 + hi2
    BY <2>5, <2>6
  <2> QED
    BY <2>1, <2>7, <2>8 DEF p1, p2
<1>7. \E p, q \in 0 .. (n + 1) - 1 : lo2 = f[p] /\ hi2 = f[q]
  <2>1. \E p \in 0 .. n : lo2 = f[p]
    <3>1. CASE lo2 = v
      BY <1>1, <3>1
    <3>2. CASE lo2 # v
      <4>1. lo2 = lo /\ n # 0
        BY <1>1, <1>2, <1>4, <3>2
      <4> QED
        BY <1>1, <1>2, <4>1
    <3> QED
      BY <3>1, <3>2
  <2>2. \E q \in 0 .. n : hi2 = f[q]
    <3>1. CASE hi2 = v
      BY <1>1, <3>1
    <3>2. CASE hi2 # v
      <4>1. hi2 = hi /\ n # 0
        BY <1>1, <1>2, <1>4, <3>2
      <4> QED
        BY <1>1, <1>2, <4>1
    <3> QED
      BY <3>1, <3>2
  <2>3. 0 .. (n + 1) - 1 = 0 .. n
    BY <1>1
  <2> QED
    BY <2>1, <2>2, <2>3
<1>8. /\ b \in [sum : Nat, max : Nat, min : Nat]
      /\ b.min = lo2 /\ b.max = hi2 /\ b.sum = sum + v
  BY <1>1, <1>2, <1>4
<1> HIDE DEF b
<1>9. n + 1 # 0
  BY <1>1
<1>10. SumsOf(b, k, n + 1, c)
  BY <1>5, <1>6, <1>7, <1>8, <1>9 DEF SumsOf, f
<1> QED
  BY <1>10 DEF b, sum, lo, hi, lo2, hi2
\* x may stand in the n-th row.
GoodRow(x, n) ==
  \A c \in Shown!Lane :
    IF kind = "detail"
    THEN Shown!StandsFor(x[c].value, Shown!Of((n - 1) \div NP, c)[(n - 1) % NP])
    ELSE /\ Shown!StandsFor(x[c].min, Shown!Min(Shown!AllOf(n - 1, c)))
         /\ Shown!StandsFor(x[c].max, Shown!Max(Shown!AllOf(n - 1, c)))
         /\ Shown!Size(x[c].min) <= Shown!Size(x[c].avg)
         /\ Shown!Size(x[c].avg) <= Shown!Size(x[c].max)

LEMMA GoodRows == Shown!RowsInOrder <=> \A n \in DOMAIN rows : GoodRow(rows[n], n)
  BY DEF GoodRow, Shown!RowsInOrder, Shown!RowsTrue, Shown!OrderKept

LEMMA SameRow ==
  ASSUME counter' = counter, kind' = kind PROVE \A y, n : GoodRow(y, n)' <=> GoodRow(y, n)
  BY DEF GoodRow, Shown!Lane, Shown!StandsFor, Shown!Size, Shown!Of, Shown!AllOf, Shown!Min,
         Shown!Max

LEMMA RowsStay ==
  ASSUME counter' = counter, kind' = kind, rows' = rows, Shown!RowsInOrder
  PROVE  Shown!RowsInOrder'
<1>1. \A n \in DOMAIN rows' : GoodRow(rows'[n], n)
  BY GoodRows
<1>2. (\A n \in DOMAIN rows : GoodRow(rows[n], n))'
  BY <1>1, SameRow
<1> QED
  BY <1>2, GoodRows, PTL

LEMMA RowsGrow ==
  ASSUME counter' = counter, kind' = kind, rows \in Seq(Rows), Shown!RowsInOrder,
         NEW x \in Rows, rows' = Append(rows, x), GoodRow(x, Len(rows) + 1)
  PROVE  rows' \in Seq(Rows) /\ Len(rows') = Len(rows) + 1 /\ Shown!RowsInOrder'
<1>1. \A y, n : GoodRow(y, n)' <=> GoodRow(y, n)
  BY SameRow
<1>2. /\ rows' \in Seq(Rows) /\ Len(rows') = Len(rows) + 1 /\ Len(rows) \in Nat
      /\ \A n \in 1 .. Len(rows) : rows'[n] = rows[n]
      /\ rows'[Len(rows) + 1] = x
      /\ DOMAIN rows' = 1 .. Len(rows) + 1 /\ DOMAIN rows = 1 .. Len(rows)
  OBVIOUS
<1>3. \A n \in 1 .. Len(rows) : GoodRow(rows'[n], n)
  BY <1>2, GoodRows
<1>4. \A n \in 1 .. Len(rows) + 1 : GoodRow(rows'[n], n)
  <2> SUFFICES ASSUME NEW n \in 1 .. Len(rows) + 1 PROVE GoodRow(rows'[n], n)
    OBVIOUS
  <2>1. n = Len(rows) + 1 \/ n \in 1 .. Len(rows)
    BY <1>2
  <2> QED
    BY <1>2, <1>3, <2>1
<1>5. (\A n \in DOMAIN rows : GoodRow(rows[n], n))'
  <2>1. \A n \in DOMAIN rows' : GoodRow(rows'[n], n)
    BY <1>2, <1>4
  <2> QED
    BY <1>1, <2>1
<1>6. Shown!RowsInOrder'
  BY <1>5, GoodRows, PTL
<1> QED
  BY <1>2, <1>6

LEMMA AccumulateStep ==
  ASSUME ReportInv, Shown!Accumulate PROVE ReportInv'
<1>1. /\ kind # "detail" /\ kernel < NK /\ slave < NP
      /\ acc' = [c \in Shown!Lane |->
           [sum |-> acc[c].sum + Shown!Cell(slave, kernel, c),
            max |-> Shown!Max({acc[c].max, Shown!Cell(slave, kernel, c)}),
            min |-> Shown!Min({acc[c].min, Shown!Cell(slave, kernel, c)})]]
      /\ slave' = slave + 1 /\ kind' = kind /\ counter' = counter /\ kernel' = kernel
      /\ rows' = rows
  BY DEF Shown!Accumulate
<1>2. /\ kernel \in 0 .. NK - 1 /\ slave \in 0 .. NP - 1 /\ NP \in Nat /\ NK \in Nat
      /\ counter \in [0 .. NP * NK * NC - 1 -> Values]
  BY <1>1, OutputAssumption DEF ReportInv, Shown!ReportConstants
<1>3. \A c \in Shown!Lane : SumsOf(acc'[c], kernel, slave + 1, c)
  <2> SUFFICES ASSUME NEW c \in Shown!Lane PROVE SumsOf(acc'[c], kernel, slave + 1, c)
    OBVIOUS
  <2>1. SumsOf(acc[c], kernel, slave, c)
    BY <1>1 DEF ReportInv
  <2>2. acc'[c] = [sum |-> acc[c].sum + Shown!Cell(slave, kernel, c),
            max |-> Shown!Max({acc[c].max, Shown!Cell(slave, kernel, c)}),
            min |-> Shown!Min({acc[c].min, Shown!Cell(slave, kernel, c)})]
    BY <1>1
  <2> QED
    BY <1>2, <2>1, <2>2, SumOfMore
<1>4. acc' \in [Shown!Lane -> [sum : Nat, max : Nat, min : Nat]]
  <2>1. \A c \in Shown!Lane : acc'[c] \in [sum : Nat, max : Nat, min : Nat]
    BY <1>3 DEF SumsOf
  <2> QED
    BY <1>1, <2>1
<1>5. (\A c \in Shown!Lane : SumsOf(acc[c], kernel, slave, c))'
  <2>1. \A a, k, n, c : SumsOf(a, k, n, c)' <=> SumsOf(a, k, n, c)
    BY <1>1 DEF SumsOf, Shown!Of
  <2>2. \A c \in Shown!Lane : SumsOf(acc'[c], kernel', slave', c)
    BY <1>1, <1>3
  <2>3. Shown!Lane' = Shown!Lane
    BY DEF Shown!Lane
  <2> QED
    BY <2>1, <2>2, <2>3
<1>6. Shown!RowsInOrder'
  BY <1>1, RowsStay DEF ReportInv
<1>7. slave' \in 0 .. NP
  BY <1>1, <1>2
<1>8. Shown!Lane' = Shown!Lane /\ Shown!Reports' = Shown!Reports /\ Rows' = Rows
  BY DEF Shown!Lane, Shown!Reports, Rows, Number
<1> QED
  BY <1>1, <1>4, <1>5, <1>6, <1>7, <1>8 DEF ReportInv
\* A printed number is one.
LEMMA PrintedIsNumber ==
  ASSUME NEW r \in Shown!Reports, NEW v \in Nat
  PROVE  Shown!Printed(r, v) \in Number
<1> DEFINE u == Shown!Unit(r, v)
<1>1. u \in Nat \ {0}
  BY UnitPassed
<1>2. Shown!Printed(r, v) = [count |-> Round(u, v), unit |-> u]
  BY DEF Shown!Printed, Round
<1> HIDE DEF u
<1>3. Round(u, v) \in Nat
  BY <1>1, Rounded
<1> QED
  BY <1>1, <1>2, <1>3 DEF Number

LEMMA KernelStep ==
  ASSUME ReportInv, Shown!PrintSummary \/ Shown!PrintWide
  PROVE  ReportInv'
<1> DEFINE x == [c \in Shown!Lane |->
       [avg |-> Shown!Printed(kind, Shown!Mean(acc[c].sum)),
        min |-> Shown!Printed(kind, acc[c].min), max |-> Shown!Printed(kind, acc[c].max)]]
<1>1. /\ kind \in {"summary", "wide"} /\ kernel < NK /\ slave = NP
      /\ rows' = Append(rows, x) /\ acc' = Shown!Nothing /\ slave' = 0
      /\ kernel' = kernel + 1 /\ kind' = kind /\ counter' = counter
  BY DEF Shown!PrintSummary, Shown!PrintWide, Shown!PrintKernel
<1>2. /\ kernel \in 0 .. NK - 1 /\ NP \in Nat \ {0} /\ NK \in Nat
      /\ counter \in [0 .. NP * NK * NC - 1 -> Values] /\ kind \in Shown!Reports
      /\ rows \in Seq(Rows) /\ Shown!RowsInOrder /\ Len(rows) = kernel
  BY <1>1, OutputAssumption DEF ReportInv, Shown!ReportConstants
<1> HIDE DEF x
<1>3. ASSUME NEW c \in Shown!Lane
      PROVE  /\ SumsOf(acc[c], kernel, NP, c) /\ acc[c].min \in Nat /\ acc[c].max \in Nat
             /\ Shown!Mean(acc[c].sum) \in Nat
             /\ acc[c].min <= Shown!Mean(acc[c].sum) /\ Shown!Mean(acc[c].sum) <= acc[c].max
             /\ x[c].avg = Shown!Printed(kind, Shown!Mean(acc[c].sum))
             /\ x[c].min = Shown!Printed(kind, acc[c].min)
             /\ x[c].max = Shown!Printed(kind, acc[c].max)
             /\ x[c] = [avg |-> x[c].avg, min |-> x[c].min, max |-> x[c].max]
  <2> DEFINE a == acc[c]
             sum == a.sum
             lo == a.min
             hi == a.max
  <2>1. SumsOf(a, kernel, NP, c)
    BY <1>1 DEF ReportInv
  <2>2. /\ sum \in Nat /\ lo \in Nat /\ hi \in Nat /\ NP * lo <= sum /\ sum <= NP * hi
    BY <2>1 DEF SumsOf
  <2>3. /\ x[c].avg = Shown!Printed(kind, Shown!Mean(sum))
        /\ x[c].min = Shown!Printed(kind, lo) /\ x[c].max = Shown!Printed(kind, hi)
        /\ x[c] = [avg |-> x[c].avg, min |-> x[c].min, max |-> x[c].max]
    BY DEF x
  <2> HIDE DEF a, sum, lo, hi
  <2>4. Shown!Mean(sum) \in Nat /\ lo <= Shown!Mean(sum) /\ Shown!Mean(sum) <= hi
    BY <1>2, <2>2, MeanBetween DEF Shown!Mean
  <2> QED
    BY <2>1, <2>2, <2>3, <2>4 DEF a, sum, lo, hi
<1>4. x \in Rows
  <2>1. \A c \in Shown!Lane : x[c] \in [avg : Number, min : Number, max : Number]
    <3> SUFFICES ASSUME NEW c \in Shown!Lane
                 PROVE  x[c] \in [avg : Number, min : Number, max : Number]
      OBVIOUS
    <3>1. x[c].avg \in Number
      BY <1>2, <1>3, PrintedIsNumber
    <3>2. x[c].min \in Number /\ x[c].max \in Number
      BY <1>2, <1>3, PrintedIsNumber
    <3>3. x[c] = [avg |-> x[c].avg, min |-> x[c].min, max |-> x[c].max]
      BY <1>3
    <3> QED
      BY <3>1, <3>2, <3>3
  <2>2. x = [c \in Shown!Lane |-> x[c]]
    BY DEF x
  <2>3. x \in [Shown!Lane -> [avg : Number, min : Number, max : Number]]
    BY <2>1, <2>2
  <2> QED
    BY <2>3 DEF Rows
<1>5. GoodRow(x, Len(rows) + 1)
  <2> SUFFICES ASSUME NEW c \in Shown!Lane
               PROVE  /\ Shown!StandsFor(x[c].min, Shown!Min(Shown!AllOf(kernel, c)))
                      /\ Shown!StandsFor(x[c].max, Shown!Max(Shown!AllOf(kernel, c)))
                      /\ Shown!Size(x[c].min) <= Shown!Size(x[c].avg)
                      /\ Shown!Size(x[c].avg) <= Shown!Size(x[c].max)
    <3>1. (Len(rows) + 1) - 1 = kernel /\ kind # "detail"
      BY <1>1, <1>2
    <3> QED
      BY <3>1 DEF GoodRow
  <2> DEFINE lo == acc[c].min
             hi == acc[c].max
             mean == Shown!Mean(acc[c].sum)
  <2>1. /\ SumsOf(acc[c], kernel, NP, c) /\ lo \in Nat /\ hi \in Nat /\ mean \in Nat
        /\ lo <= mean /\ mean <= hi
        /\ x[c].min = Shown!Printed(kind, lo) /\ x[c].max = Shown!Printed(kind, hi)
        /\ x[c].avg = Shown!Printed(kind, mean)
    BY <1>3
  <2>2. lo = Shown!Min(Shown!AllOf(kernel, c)) /\ hi = Shown!Max(Shown!AllOf(kernel, c))
    BY <1>2, <2>1, AllSummed
  <2> HIDE DEF lo, hi, mean
  <2>3. Shown!StandsFor(x[c].min, lo) /\ Shown!StandsFor(x[c].max, hi)
    BY <1>2, <2>1, Printed
  <2>4. Shown!Size(x[c].min) <= Shown!Size(x[c].avg)
    BY <1>2, <2>1, PrintedInOrder
  <2>5. Shown!Size(x[c].avg) <= Shown!Size(x[c].max)
    BY <1>2, <2>1, PrintedInOrder
  <2> QED
    BY <2>2, <2>3, <2>4, <2>5
<1>6. rows' \in Seq(Rows) /\ Len(rows') = kernel' /\ Shown!RowsInOrder'
  BY <1>1, <1>2, <1>4, <1>5, RowsGrow
<1>7. acc' \in [Shown!Lane -> [sum : Nat, max : Nat, min : Nat]]
      /\ \A c \in Shown!Lane : acc'[c] = [sum |-> 0, max |-> 0, min |-> Least]
  BY <1>1, NoSums DEF Shown!Nothing
<1>8. (\A c \in Shown!Lane : SumsOf(acc[c], kernel, slave, c))'
  <2>1. \A a, k, n, c : SumsOf(a, k, n, c)' <=> SumsOf(a, k, n, c)
    BY <1>1 DEF SumsOf, Shown!Of
  <2>2. \A c \in Shown!Lane : SumsOf(acc'[c], kernel', slave', c)
    BY <1>1, <1>7, NoSums
  <2>3. Shown!Lane' = Shown!Lane
    BY DEF Shown!Lane
  <2> QED
    BY <2>1, <2>2, <2>3
<1>9. Shown!Lane' = Shown!Lane /\ Shown!Reports' = Shown!Reports /\ Rows' = Rows
  BY DEF Shown!Lane, Shown!Reports, Rows, Number
<1>10. kernel' \in 0 .. NK /\ slave' \in 0 .. NP /\ kind' # "detail"
  BY <1>1, <1>2
<1> QED
  BY <1>1, <1>2, <1>6, <1>7, <1>8, <1>9, <1>10 DEF ReportInv
LEMMA SlaveRowStep ==
  ASSUME ReportInv, Shown!PrintSlave PROVE ReportInv'
<1> DEFINE x == [c \in Shown!Lane |->
                  [value |-> Shown!Printed(kind, Shown!Cell(slave, kernel, c))]]
           n == kernel * NP + slave
<1>1. /\ kind = "detail" /\ kernel < NK /\ rows' = Append(rows, x)
      /\ slave' = (slave + 1) % NP /\ kernel' = IF slave + 1 = NP THEN kernel + 1 ELSE kernel
      /\ kind' = kind /\ counter' = counter /\ acc' = acc
  BY DEF Shown!PrintSlave
<1>2. /\ kernel \in 0 .. NK - 1 /\ slave \in 0 .. NP - 1 /\ NP \in Nat \ {0} /\ NK \in Nat
      /\ counter \in [0 .. NP * NK * NC - 1 -> Values] /\ kind \in Shown!Reports
      /\ rows \in Seq(Rows) /\ Shown!RowsInOrder /\ Len(rows) = n
      /\ acc \in [Shown!Lane -> [sum : Nat, max : Nat, min : Nat]]
  BY <1>1, OutputAssumption DEF ReportInv, Shown!ReportConstants
<1> HIDE DEF x, n
<1>3. n \in Nat /\ n \div NP = kernel /\ n % NP = slave
  <2>1. NP * kernel \in Nat /\ NP * kernel = kernel * NP /\ kernel \in Nat
    BY <1>2
  <2>2. n \in Nat /\ n = NP * kernel + slave
    BY <1>2, <2>1 DEF n
  <2>3. n % NP = slave
    <3>1. n \in Int /\ kernel \in Int /\ slave \in 0 .. NP - 1 /\ NP \in Nat \ {0}
      BY <1>2, <2>1, <2>2
    <3> QED
      BY <2>2, <3>1, OneRemainder
  <2>4. NP * kernel <= n /\ n < NP * kernel + NP
    BY <1>2, <2>1, <2>2
  <2>5. kernel <= n \div NP /\ n \div NP <= kernel
    BY <1>2, <2>1, <2>2, <2>4, QuotientAbove, QuotientBelow
  <2>6. n \div NP \in Nat
    BY <1>2, <2>2, Quotient
  <2> QED
    BY <2>1, <2>2, <2>3, <2>5, <2>6
<1>4. \A c \in Shown!Lane :
        /\ Shown!Of(kernel, c)[slave] \in Nat
        /\ x[c] = [value |-> Shown!Printed(kind, Shown!Of(kernel, c)[slave])]
        /\ x[c].value = Shown!Printed(kind, Shown!Of(kernel, c)[slave])
  BY <1>2, Counters DEF x
<1>5. x \in Rows
  <2>1. \A c \in Shown!Lane : x[c] \in [value : Number]
    <3> SUFFICES ASSUME NEW c \in Shown!Lane PROVE x[c] \in [value : Number]
      OBVIOUS
    <3> DEFINE v == Shown!Of(kernel, c)[slave]
    <3>1. v \in Nat /\ x[c] = [value |-> Shown!Printed(kind, v)]
      BY <1>4
    <3> HIDE DEF v
    <3>2. Shown!Printed(kind, v) \in Number
      BY <1>2, <3>1, PrintedIsNumber
    <3> QED
      BY <3>1, <3>2
  <2>2. x = [c \in Shown!Lane |-> x[c]]
    BY DEF x
  <2>3. x \in [Shown!Lane -> [value : Number]]
    BY <2>1, <2>2
  <2> QED
    BY <2>3 DEF Rows
<1>6. GoodRow(x, Len(rows) + 1)
  <2>1. (Len(rows) + 1) - 1 = n
    BY <1>2, <1>3
  <2>2. \A c \in Shown!Lane : Shown!StandsFor(x[c].value, Shown!Of(kernel, c)[slave])
    <3> SUFFICES ASSUME NEW c \in Shown!Lane
                 PROVE  Shown!StandsFor(x[c].value, Shown!Of(kernel, c)[slave])
      OBVIOUS
    <3> DEFINE v == Shown!Of(kernel, c)[slave]
    <3>1. v \in Nat /\ x[c].value = Shown!Printed(kind, v)
      BY <1>4
    <3> HIDE DEF v
    <3>2. Shown!StandsFor(Shown!Printed(kind, v), v)
      BY <1>2, <3>1, Printed
    <3> QED
      BY <3>1, <3>2 DEF v
  <2> QED
    BY <1>1, <1>3, <2>1, <2>2 DEF GoodRow
<1>7. rows' \in Seq(Rows) /\ Len(rows') = n + 1 /\ Shown!RowsInOrder'
  BY <1>1, <1>2, <1>5, <1>6, RowsGrow
<1>8. kernel' \in 0 .. NK /\ slave' \in 0 .. NP /\ slave' < NP /\ n + 1 = kernel' * NP + slave'
  <2>1. kernel * NP \in Nat /\ (kernel + 1) * NP = kernel * NP + NP
    BY <1>2
  <2>2. CASE slave + 1 = NP
    <3>1. slave' = 0
      <4> DEFINE m == slave + 1
      <4>1. m = NP * 1 + 0 /\ m \in Int /\ 0 \in 0 .. NP - 1 /\ NP \in Nat \ {0} /\ 1 \in Int
        BY <1>2, <2>2
      <4> HIDE DEF m
      <4>2. m % NP = 0
        BY <4>1, OneRemainder
      <4> QED
        BY <1>1, <4>2 DEF m
    <3> QED
      BY <1>1, <1>2, <2>1, <2>2, <3>1 DEF n
  <2>3. CASE slave + 1 # NP
    <3>1. slave + 1 \in 0 .. NP - 1
      BY <1>2, <2>3
    <3>2. slave' = slave + 1
      BY <1>1, <1>2, <3>1, SmallRemainder
    <3> QED
      BY <1>1, <1>2, <2>1, <2>3, <3>1, <3>2 DEF n
  <2> QED
    BY <2>2, <2>3
<1>9. Shown!Lane' = Shown!Lane /\ Shown!Reports' = Shown!Reports /\ Rows' = Rows
  BY DEF Shown!Lane, Shown!Reports, Rows, Number
<1> QED
  BY <1>1, <1>2, <1>7, <1>8, <1>9 DEF ReportInv

\* The sums are those of the slaves so far, and every row stands for its kernel.
THEOREM RowsAreOfKernels == Shown!Spec => []ReportInv
<1>1. ASSUME ReportInv, [Shown!Next]_(Shown!vars) PROVE ReportInv'
  <2>1. CASE UNCHANGED Shown!vars
    <3>1. /\ kind' = kind /\ counter' = counter /\ kernel' = kernel /\ slave' = slave
          /\ acc' = acc /\ rows' = rows
      BY <2>1 DEF Shown!vars
    <3>2. Shown!RowsInOrder'
      BY <1>1, <3>1, RowsStay DEF ReportInv
    <3>3. Shown!Lane' = Shown!Lane /\ Shown!Reports' = Shown!Reports /\ Rows' = Rows
      BY DEF Shown!Lane, Shown!Reports, Rows, Number
    <3>4. (\A c \in Shown!Lane : SumsOf(acc[c], kernel, slave, c))'
          <=> \A c \in Shown!Lane : SumsOf(acc[c], kernel, slave, c)
      BY <3>1, <3>3 DEF SumsOf, Shown!Of
    <3> QED
      BY <1>1, <3>1, <3>2, <3>3, <3>4 DEF ReportInv
  <2>2. CASE Shown!Next
    BY <1>1, <2>2, AccumulateStep, KernelStep, SlaveRowStep DEF Shown!Next
  <2> QED
    BY <1>1, <2>1, <2>2
<1> QED
  BY <1>1, ReportInit, PTL DEF Shown!Spec

\* Every row shows the least and the greatest of its kernel, or its slave, to half
\* a unit, and least, average and greatest stay in order when they are rounded.
THEOREM ReportsInOrder == Shown!Spec => []RowsInOrder
<1>1. ReportInv => RowsInOrder
  BY DEF ReportInv, RowsInOrder
<1> QED
  BY <1>1, RowsAreOfKernels, PTL
=============================================================================
