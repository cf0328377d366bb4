------------------------------ MODULE Profile ------------------------------
(***************************************************************************)
(* What the slaves measure over the two calls of benchmark.c, both of one  *)
(* stencil: kernel A of include/lwpf2.h (PROFILING), one lane of its       *)
(* counters, and the times of TIMING.  All are differences of a cycle      *)
(* counter that wraps around.  A kernel counter lives in local memory      *)
(* during a call and in main memory between the calls, and goes on from    *)
(* call to call; only stencil_7 reports it.  The times of TIMING start     *)
(* from zero in every call and are printed as ints; stencil_27_com times   *)
(* its copies too.  The rows of a step are one row here.                   *)
(***************************************************************************)
EXTENDS Integers, Sequences, FiniteSets

CONSTANTS
  Slave,
  Cycles,  \* 2^64, the values of a cycle counter
  Ints,    \* 2^32, the values of an int
  NT,      \* nt of the timed call; the warm-up takes one step
  Ticks    \* bound: how many cycles a piece of work may take

ProfileConstants ==
  /\ Ints \in Nat \ {0} /\ Cycles \in Nat /\ Cycles > Ints /\ Cycles % Ints = 0
  /\ NT \in Nat \ {0} /\ Ticks \subseteq Nat

VARIABLES
  type,     \* 7 or 27, the stencil of both calls
  call,     \* 1 the warm-up, 2 the timed call, 3 after it
  pc,       \* pc[i]: "spawned", "step", "row" or "left"
  at,       \* at[i]: the next of the Marks in a row
  step,     \* step[i]: t
  clock,    \* clock[i]: the cycle counter of slave i
  counter,  \* counter[i]: lwpf_local_counter[A]
  global,   \* global[i]: lwpf_global_counter_TEST[i][A]
  begin,    \* begin[i]: rpcc_begin and rpcc_begin_in
  time,     \* time[i][k]: communicate, compute and memcpy_time
  shown,    \* shown[i][k]: the times that were printed
  report,   \* report[i]: what lwpf_report_detail printed last
  inA,      \* inA[i]: the cycles spent in kernel A in all calls, as counted
  spent     \* spent[i][k]: the cycles of this call spent on k, as counted

vars == <<type, call, pc, at, step, clock, counter, global, begin, time,
          shown, report, inA, spent>>

Kind == {"communicate", "compute", "memcpy"}

\* Where the timers begin and end in a row: the gets, the sums, the put.
Marks7 ==
  <<<<"begin", "communicate">>, <<"end", "communicate">>,
    <<"begin", "compute">>, <<"end", "compute">>,
    <<"begin", "communicate">>, <<"end", "communicate">>>>

\* The sums of stencil_27_com copy what they add first.
Marks27 ==
  <<<<"begin", "communicate">>, <<"end", "communicate">>,
    <<"begin", "compute">>, <<"begin", "memcpy">>, <<"end", "memcpy">>,
    <<"end", "compute">>, <<"begin", "communicate">>, <<"end", "communicate">>>>

Marks == IF type = 7 THEN Marks7 ELSE Marks27

\* Mutant: the timers share a variable.
OneVariable(k) == "rpcc_begin"

\* The variable that holds the beginning of an interval.
Variable(k) == IF k = "memcpy" THEN "rpcc_begin_in" ELSE "rpcc_begin"

-----------------------------------------------------------------------------
Zeros == [i \in Slave |-> 0]
NoTimes == [k \in Kind |-> 0]

\* lwpf_init sets an array to zero that hides lwpf_local_counter; the counters
\* it puts into main memory are those the program was loaded with, zeros too.
\* The cycle counters are about to wrap.
Init ==
  /\ type \in {7, 27} /\ call = 1
  /\ pc = [i \in Slave |-> "spawned"]
  /\ clock = [i \in Slave |-> Cycles - 1]
  /\ at = Zeros /\ step = Zeros /\ counter = Zeros /\ global = Zeros
  /\ begin = [i \in Slave |-> [v \in {"rpcc_begin", "rpcc_begin_in"} |-> 0]]
  /\ time = [i \in Slave |-> NoTimes] /\ shown = time /\ spent = time
  /\ report = Zeros /\ inA = Zeros

Goes(i, from, to) == pc[i] = from /\ pc' = [pc EXCEPT ![i] = to]

\* The interval of timer k is open before mark n.
Open(k, n) ==
  Cardinality({m \in 1 .. n - 1 : Marks[m] = <<"begin", k>>})
    > Cardinality({m \in 1 .. n - 1 : Marks[m] = <<"end", k>>})

\* Mutant: a call begins with counters of its own.
CounterOfCall(i) == 0

\* lwpf_enter gets the slave's row of the counters.
CounterOf(i) == global[i]

Enter(i) ==
  /\ Goes(i, "spawned", "step")
  /\ counter' = [counter EXCEPT ![i] = CounterOf(i)]
  /\ step' = [step EXCEPT ![i] = 0]
  /\ time' = [time EXCEPT ![i] = NoTimes]
  /\ spent' = [spent EXCEPT ![i] = NoTimes]
  /\ UNCHANGED <<type, call, at, clock, global, begin, shown, report, inA>>

Steps == IF call = 1 THEN 1 ELSE NT

\* lwpf_start, after the barriers of the step before.
Start(i, d) ==
  /\ step[i] < Steps
  /\ Goes(i, "step", "row")
  /\ clock' = [clock EXCEPT ![i] = (@ + d) % Cycles]
  /\ counter' = [counter EXCEPT ![i] = (@ - clock'[i]) % Cycles]
  /\ at' = [at EXCEPT ![i] = 1]
  /\ UNCHANGED <<type, call, step, global, begin, time, shown, report, inA,
                 spent>>

\* rpcc_end - rpcc_begin.
Elapsed(i, now, k) == (now - begin[i][Variable(k)]) % Cycles

\* TIMING_..._BEGIN and TIMING_..._END.
Mark(i, d) ==
  LET k == Marks[at[i]][2]
      now == (clock[i] + d) % Cycles
  IN /\ pc[i] = "row" /\ at[i] <= Len(Marks)
     /\ clock' = [clock EXCEPT ![i] = now]
     /\ inA' = [inA EXCEPT ![i] = (@ + d) % Cycles]
     /\ spent' = [spent EXCEPT ![i] = [j \in Kind |->
          IF Open(j, at[i]) THEN (@[j] + d) % Cycles ELSE @[j]]]
     /\ \/ /\ Marks[at[i]][1] = "begin"
           /\ begin' = [begin EXCEPT ![i][Variable(k)] = now]
           /\ UNCHANGED time
        \/ /\ Marks[at[i]][1] = "end"
           /\ time' = [time EXCEPT ![i][k] = (@ + Elapsed(i, now, k)) % Cycles]
           /\ UNCHANGED begin
     /\ at' = [at EXCEPT ![i] = @ + 1]
     /\ UNCHANGED <<type, call, pc, step, counter, global, shown, report>>

\* lwpf_stop, before the barriers.
Stop(i) ==
  /\ at[i] = Len(Marks) + 1
  /\ Goes(i, "row", "step")
  /\ counter' = [counter EXCEPT ![i] = (@ + clock[i]) % Cycles]
  /\ step' = [step EXCEPT ![i] = @ + 1]
  /\ UNCHANGED <<type, call, at, clock, global, begin, time, shown, report,
                 inA, spent>>

\* %d of an unsigned long: the lower word, with a sign.
AsInt(n) == IF n % Ints < Ints \div 2 THEN n % Ints ELSE (n % Ints) - Ints

\* lwpf_exit and the line TIMING prints.
Leave(i) ==
  /\ step[i] = Steps
  /\ Goes(i, "step", "left")
  /\ global' = [global EXCEPT ![i] = counter[i]]
  /\ shown' = [shown EXCEPT ![i] = [k \in Kind |-> AsInt(time[i][k])]]
  /\ UNCHANGED <<type, call, at, step, clock, counter, begin, time, report,
                 inA, spent>>

\* athread_join, in stencil_7 lwpf_report_detail, and the next call.
Return ==
  /\ call < 3
  /\ \A i \in Slave : pc[i] = "left"
  /\ report' = IF type = 7 THEN global ELSE report
  /\ call' = call + 1
  /\ pc' = [i \in Slave |-> IF call = 1 THEN "spawned" ELSE "left"]
  /\ UNCHANGED <<type, at, step, clock, counter, global, begin, time,
                 shown, inA, spent>>

Next ==
  \/ Return
  \/ \E i \in Slave :
       \/ Enter(i) \/ Stop(i) \/ Leave(i)
       \/ \E d \in Ticks : Start(i, d) \/ Mark(i, d)

Spec == Init /\ [][Next]_vars

-----------------------------------------------------------------------------
Cycle == 0 .. Cycles - 1

\* The variables have values of their types.
TypeOK ==
  /\ type \in {7, 27} /\ call \in 1 .. 3 /\ step \in [Slave -> 0 .. NT]
  /\ pc \in [Slave -> {"spawned", "step", "row", "left"}]
  /\ at \in [Slave -> 0 .. Len(Marks) + 1]
  /\ clock \in [Slave -> Cycle] /\ counter \in [Slave -> Cycle]
  /\ global \in [Slave -> Cycle] /\ time \in [Slave -> [Kind -> Cycle]]
  /\ shown \in [Slave -> [Kind -> -(Ints \div 2) .. (Ints \div 2) - 1]]

\* When a call of stencil_7 returns it has reported, of every slave, the cycles
\* spent in kernel A in all calls so far, the warm-up among them, whenever the
\* cycle counter wraps: from the minus of a start to the plus of the stop a
\* counter may be of any value, and between calls it is in main memory.
ReportExact ==
  [][call' # call /\ type = 7 => report' = inA]_vars

\* The times a slave prints are those of its call, in the lower word, although
\* the intervals of the copies lie inside those of the sums.
ShownExact ==
  \A i \in Slave, k \in Kind :
    pc[i] = "left" => shown[i][k] % Ints = spent[i][k] % Ints

=============================================================================
