------------------------------- MODULE Driver -------------------------------
(***************************************************************************)
(* main, parse_args, find_active_procs and read_file of benchmark.c: what  *)
(* every process does from its start to its end, the collective calls it   *)
(* makes on the way, and what happens when a step fails on one process.    *)
(*                                                                         *)
(* Two communicators matter: the world, and active_procs, which            *)
(* MPI_Comm_split makes for the processes with cells and for the others.   *)
(* A collective call that synchronises returns when all members have made  *)
(* it; one that need not may return earlier.  Calls are matched by their   *)
(* order alone.  stencil_7 and stencil_27 are one local step here; the     *)
(* optimized version may die in it on sizes its division is not made for.  *)
(***************************************************************************)
EXTENDS Integers, Sequences, FiniteSets

CONSTANT PNum  \* p_num

ASSUME DriverAssumption == PNum \in Nat \ {0}

Rank == 0 .. PNum - 1

VARIABLES
  active,   \* the processes with cells in their blocks
  answer,   \* argc is 8: there is a file to compare with
  argsOk,   \* the arguments, the same on all processes, are good
  at,       \* at[r]: the operation process r is at, an index of Program(r)
  inside,   \* inside[r]: it is in that collective call
  state,    \* state[r]: "run", "ended", "killed" or "returned"
  read,     \* read[r]: files it has read whole
  aborted,  \* a process has called MPI_Abort or died: the job is ended
  printed   \* what process 0 has printed

vars == <<active, answer, argsOk, at, inside, state, read, aborted, printed>>

-----------------------------------------------------------------------------
(* The program as a sequence of operations and where they synchronise.     *)

\* Mutant: no barrier before the clock is read for the second time.
MainOneBarrier(r, readInput, check) ==
  <<"parse", "barrier", "create", "barrier", "split", "alloc">>
  \o readInput \o <<"warm", "barrier", "timed">> \o check
  \o <<"freecomm", "finalize">>

Main(r, readInput, check) ==
  <<"parse", "barrier", "create", "barrier", "split", "alloc">>
  \o readInput \o <<"warm", "barrier", "timed", "barrier">> \o check
  \o <<"freecomm", "finalize">>

ReadFile == <<"open", "view", "readall", "close", "count">>

\* check_answer reduces three norms.
Check ==
  IF answer THEN ReadFile \o <<"reduce", "reduce", "reduce", "report">>
  ELSE <<"report">>

Program(r) ==
  IF r \in active THEN Main(r, ReadFile, Check) ELSE Main(r, <<>>, <<>>)

Op(r) == Program(r)[at[r]]

Local  == {"parse", "create", "alloc", "count", "warm", "timed", "report"}
World  == {"barrier", "split", "finalize"}
Synced == {"barrier", "split"}

\* The calls of the optimized version.  With fewer than two planes in a block the
\* shares of the slaves are negative, and they leave the arrays; with a number of
\* processes other than 16 or 64 a plane is for a process that does not exist.
\* The process may die of it or go on.
StencilFails == IF active \in {Rank, {}} THEN {"warm", "timed"} ELSE {}

\* Operations that can fail on one process and not on another.
CanFail ==
  {"alloc", "open", "view", "readall", "close", "count"} \cup StencilFails

\* The members of the communicator of an operation of process r.
Members(r, op) ==
  IF op \in World THEN Rank
  ELSE IF r \in active THEN active ELSE Rank \ active

\* The calls of process r, up to operation k, on the communicator of op.
Calls(r, op, k) ==
  Cardinality({j \in 1 .. k :
    Program(r)[j] \notin Local /\ (Program(r)[j] \in World <=> op \in World)})

\* Process s has made the call process r is in.
HasJoined(r, s) ==
  Calls(s, Op(r), IF inside[s] THEN at[s] ELSE at[s] - 1)
    >= Calls(r, Op(r), at[r])

\* Mutant: the reduction is taken for a call that returns at once everywhere.
WaitsNoRoot(r) == Op(r) \in Synced

\* The calls that return when all members have made them: those that have to,
\* and a reduction at its root, which needs the values of all.
Waits(r) == Op(r) \in Synced \/ (Op(r) = "reduce" /\ r = 0)

MayReturn(r) ==
  Waits(r) => \A s \in Members(r, Op(r)) : HasJoined(r, s)

-----------------------------------------------------------------------------
\* create_dist_grid gives cells to process 0 (naive), to all (optimized), or,
\* with fewer planes than processes, to none.
Init ==
  /\ active \in {{0}, Rank, {}}
  /\ answer \in BOOLEAN /\ argsOk \in BOOLEAN
  /\ at = [r \in Rank |-> 1]
  /\ inside = [r \in Rank |-> FALSE]
  /\ state = [r \in Rank |-> "run"]
  /\ read = [r \in Rank |-> 0]
  /\ aborted = FALSE /\ printed = {}

Running(r) == state[r] = "run"

\* The end of an operation of process r that succeeds.
Go(r) ==
  /\ at' = [at EXCEPT ![r] = @ + 1]
  /\ inside' = [inside EXCEPT ![r] = FALSE]
  /\ state' = IF Op(r) = "finalize" THEN [state EXCEPT ![r] = "ended"]
              ELSE state
  /\ read' = IF Op(r) = "count" THEN [read EXCEPT ![r] = @ + 1] ELSE read
  /\ printed' = IF Op(r) = "report" /\ r = 0
                  THEN printed \cup {"time"} \cup
                         (IF answer THEN {"checked"} ELSE {"unchecked"})
                  ELSE printed
  /\ UNCHANGED <<active, answer, argsOk, aborted>>

\* Mutant: the process that fails leaves and tells nobody.
LeaveQuietly(r) ==
  /\ state' = [state EXCEPT ![r] = "returned"]
  /\ UNCHANGED <<active, answer, argsOk, at, inside, read, aborted, printed>>

\* ABORT_IF_ERROR, ABORT_IF_NULL, or death in a stencil.
Abort(r) ==
  /\ aborted' = TRUE
  /\ state' = [state EXCEPT ![r] = "killed"]
  /\ UNCHANGED <<active, answer, argsOk, at, inside, read, printed>>

Do(r) ==
  /\ Running(r) /\ Op(r) \in Local
  /\ Op(r) = "parse" => argsOk
  /\ Go(r)

\* Bad arguments: MPI_Abort gets a communicator that has not been made yet.
\* It aborts the job all the same, or returns, and main with it.
BadArgs(r) ==
  /\ Running(r) /\ Op(r) = "parse" /\ ~argsOk
  /\ \/ Abort(r)
     \/ /\ state' = [state EXCEPT ![r] = "returned"]
        /\ UNCHANGED <<active, answer, argsOk, at, inside, read, aborted, printed>>

Enter(r) ==
  /\ Running(r) /\ Op(r) \notin Local /\ ~inside[r]
  /\ inside' = [inside EXCEPT ![r] = TRUE]
  /\ UNCHANGED <<active, answer, argsOk, at, state, read, aborted, printed>>

Return(r) ==
  /\ Running(r) /\ inside[r]
  /\ MayReturn(r)
  /\ Go(r)

Fail(r) ==
  /\ Running(r) /\ Op(r) \in CanFail
  /\ Op(r) \notin Local => inside[r] /\ MayReturn(r)
  /\ Abort(r)

\* MPI_Abort, or the launcher that misses a process, reaches the other processes, wherever they are.
Kill(r) ==
  /\ Running(r) /\ aborted
  /\ state' = [state EXCEPT ![r] = "killed"]
  /\ UNCHANGED <<active, answer, argsOk, at, inside, read, aborted, printed>>

Next ==
  \E r \in Rank :
    Do(r) \/ BadArgs(r) \/ Enter(r) \/ Return(r) \/ Fail(r) \/ Kill(r)

Spec == Init /\ [][Next]_vars

\* Processes run, MPI calls return when they can, MPI_Abort arrives.
FairSpec ==
  Spec /\ \A r \in Rank :
    WF_vars(Do(r) \/ BadArgs(r) \/ Enter(r) \/ Return(r) \/ Kill(r))

-----------------------------------------------------------------------------
\* The variables have values of their types.
TypeOK ==
  /\ \A r \in Rank : at[r] \in 1 .. Len(Program(r)) + 1
  /\ inside \in [Rank -> BOOLEAN]
  /\ state \in [Rank -> {"run", "ended", "killed", "returned"}]
  /\ read \in [Rank -> 0 .. 2]
  /\ printed \subseteq {"time", "checked", "unchecked"}

Passed(r, op) == \E k \in 1 .. at[r] - 1 : Program(r)[k] = op

\* Process 0 prints a time only when every process has read the whole input
\* and done the timed call, and norms only when all have read both files: a
\* failure elsewhere keeps it from there, however late the abort arrives.
ReportMeansAll ==
  "time" \in printed =>
    /\ \A r \in Rank : Passed(r, "timed")
    /\ \A r \in active : read[r] >= 1
    /\ "checked" \in printed => \A r \in active : read[r] = 2

\* The clock starts and stops between barriers: in the timed call of a process
\* no other is at its warm-up, and the time process 0 takes covers all of them.
TimedTogether ==
  \A r, s \in Rank : Running(r) =>
    /\ Op(r) = "timed" => Passed(s, "warm")
    /\ r = 0 /\ Passed(r, "timed") /\ Op(r) # "barrier" => Passed(s, "timed")

\* No process is left behind in a collective call.
AllEnd == <>(\A r \in Rank : ~Running(r))

=============================================================================
