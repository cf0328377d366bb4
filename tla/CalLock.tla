------------------------------ MODULE CalLock ------------------------------
(***************************************************************************)
(* The lock of include/cal.h, which keeps apart the lines the slaves print *)
(* with cal_locked_printf (TIMING, DUMP and DUMPF in stencil-slave.c).  A  *)
(* slave draws a ticket from cal_req_id with an atomic increment and waits *)
(* until cal_cur_id has come to it.  Both are words that wrap around.      *)
(*                                                                         *)
(* The instructions are asm statements that are not volatile: the build    *)
(* may keep the value of the first load of cal_cur_id (hoisted).           *)
(***************************************************************************)
EXTENDS Integers, Sequences, FiniteSets

CONSTANTS
  Slave,  \* the slaves
  Words,  \* 2^32, the values of a counter
  Lines   \* lines a slave prints

ASSUME CalLockAssumption ==
  /\ IsFiniteSet(Slave)
  /\ Words \in Nat \ {0} /\ Words >= Cardinality(Slave)
  /\ Lines \in Nat

VARIABLES
  cal_req_id, cal_cur_id,
  req,      \* req[i]: the ticket of slave i
  pc,       \* pc[i]: "ready", "wait", "stuck", "puts", "flush" or "unlock"
  left,     \* left[i]: lines still to print
  stdout,   \* the halves of lines printed, with their slave
  hoisted   \* the loop of cal_global_lock does not load cal_cur_id again

vars == <<cal_req_id, cal_cur_id, req, pc, left, stdout, hoisted>>

Init ==
  /\ cal_req_id = 0 /\ cal_cur_id = 0
  /\ req = [i \in Slave |-> 0]
  /\ pc = [i \in Slave |-> "ready"]
  /\ left = [i \in Slave |-> Lines]
  /\ stdout = <<>>
  /\ hoisted \in BOOLEAN

\* faaw on cal_req_id.
Draw(i) ==
  /\ pc[i] = "ready" /\ left[i] > 0
  /\ req' = [req EXCEPT ![i] = cal_req_id]
  /\ cal_req_id' = (cal_req_id + 1) % Words
  /\ pc' = [pc EXCEPT ![i] = "wait"]
  /\ UNCHANGED <<cal_cur_id, left, stdout, hoisted>>

\* Mutant: tickets that have been passed are let in as well.
CalledOrPast(i) == cal_cur_id >= req[i]

Called(i) == cal_cur_id = req[i]

\* ldw of cal_cur_id and the test of the loop.
Look(i) ==
  /\ pc[i] = "wait"
  /\ pc' = [pc EXCEPT ![i] = IF Called(i) THEN "puts"
                             ELSE IF hoisted THEN "stuck" ELSE "wait"]
  /\ UNCHANGED <<cal_req_id, cal_cur_id, req, left, stdout, hoisted>>

\* fputs, not atomic: two halves.
PrintHalf(i, from, to) ==
  /\ pc[i] = from
  /\ stdout' = Append(stdout, <<i, from>>)
  /\ pc' = [pc EXCEPT ![i] = to]
  /\ UNCHANGED <<cal_req_id, cal_cur_id, req, left, hoisted>>

\* Mutant: the two counters have different widths.
UnlockWide(i) ==
  /\ pc[i] = "unlock"
  /\ cal_cur_id' = cal_cur_id + 1
  /\ left' = [left EXCEPT ![i] = @ - 1]
  /\ pc' = [pc EXCEPT ![i] = "ready"]
  /\ UNCHANGED <<cal_req_id, req, stdout, hoisted>>

\* faaw on cal_cur_id.
Unlock(i) ==
  /\ pc[i] = "unlock"
  /\ cal_cur_id' = (cal_cur_id + 1) % Words
  /\ left' = [left EXCEPT ![i] = @ - 1]
  /\ pc' = [pc EXCEPT ![i] = "ready"]
  /\ UNCHANGED <<cal_req_id, req, stdout, hoisted>>

SlaveStep(i) ==
  \/ Draw(i) \/ Look(i) \/ Unlock(i)
  \/ PrintHalf(i, "puts", "flush") \/ PrintHalf(i, "flush", "unlock")

Next == \E i \in Slave : SlaveStep(i)

Spec == Init /\ [][Next]_vars

\* Every slave is a core of its own.
FairSpec == Spec /\ \A i \in Slave : WF_vars(SlaveStep(i))

-----------------------------------------------------------------------------
InLine   == {i \in Slave : pc[i] # "ready"}
Printing == {i \in Slave : pc[i] \in {"puts", "flush", "unlock"}}

\* The variables have values of their types.
TypeOK ==
  /\ cal_req_id \in 0 .. Words - 1 /\ cal_cur_id \in 0 .. Words - 1
  /\ req \in [Slave -> 0 .. Words - 1]
  /\ pc \in [Slave -> {"ready", "wait", "stuck", "puts", "flush", "unlock"}]
  /\ left \in [Slave -> 0 .. Lines]
  /\ stdout \in Seq(Slave \X {"puts", "flush"})

\* The tickets drawn and not given back are the ones from cal_cur_id up to
\* cal_req_id, each held by one slave, wherever the counters wrap; and a slave
\* that prints has the first of them, so slaves print in the order of tickets.
TicketsInLine ==
  /\ {req[i] : i \in InLine} =
       {(cal_cur_id + k) % Words : k \in 0 .. Cardinality(InLine) - 1}
  /\ cal_req_id = (cal_cur_id + Cardinality(InLine)) % Words
  /\ \A i \in Printing : req[i] = cal_cur_id

\* Lines are not mixed: the second half of a line follows the first.
WholeLines ==
  \A k \in 1 .. Len(stdout) \div 2 :
    stdout[2 * k - 1] = <<stdout[2 * k][1], "puts">>

\* The lock does what it is for: lines come whole and in the order of tickets.
LinesInOrder == TicketsInLine /\ WholeLines

\* Unless the build keeps the load out of the loop every line is printed.
AllPrinted == ~hoisted => <>(\A i \in Slave : left[i] = 0)

=============================================================================
