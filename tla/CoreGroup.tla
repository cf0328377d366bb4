----------------------------- MODULE CoreGroup -----------------------------
(***************************************************************************)
(* One MPI process of the optimized program: its master core, which runs   *)
(* stencil_7 / stencil_27 (stencil-optimized.c), and the slave cores it    *)
(* spawns, which run stencil_7_com / stencil_27_com (stencil-slave.c).     *)
(*                                                                         *)
(* They synchronise through three kinds of flags and nothing else:         *)
(*   - runnable0 / runnable1, one pair in the local memory of every slave, *)
(*     written by the master (h2ldm) when the MPI requests of group 0      *)
(*     (neighbour above) or group 1 (neighbour below) are complete, read   *)
(*     and cleared by the slave;                                           *)
(*   - non_runnable, in main memory, set by the master and cleared by      *)
(*     slave 0;                                                            *)
(*   - the hardware barrier athread_syn among the slaves.                  *)
(*                                                                         *)
(* The arrays are abstracted to versions: mem[b][i][p] = v says that part  *)
(* p of the rows of slave i in array b (0 is grid, 1 is aux) holds the     *)
(* values of time step v.  A part computed from inputs of mixed versions   *)
(* becomes Garbage.  The neighbours are the environment: a posted request  *)
(* group completes at any later time, with the planes of the same step.    *)
(***************************************************************************)
EXTENDS Integers

CONSTANTS
  ThreadNum,    \* THREAD_NUM, the slaves of a core group
  NumZ,         \* num_z, the processes along z
  NT,           \* nt of the timed call
  StencilType   \* 7 or 27

ASSUME CoreGroupAssumption ==
  /\ ThreadNum \in Nat \ {0}
  /\ NumZ \in Nat /\ NumZ > 1
  /\ NT \in Nat \ {0}
  /\ StencilType \in {7, 27}

Slave == 0 .. ThreadNum - 1
Group == {0, 1}
Part  == {"rows", "top", "bottom"}

\* Mutant: a warm-up of two steps writes to the input array.
TwoStepWarmUp == 2

WarmUp  == 1    \* nt of the warm-up call
Garbage == -1   \* version of a part computed from inputs of mixed versions

VARIABLES
  pid,     \* this process, 0 .. NumZ - 1
  call,    \* 1: the warm-up call, 2: the timed call
  mpc,     \* where the master is
  t,       \* the master's time step
  mg, mi,  \* group and slave its loops have reached
  flag,    \* flag0, flag1
  rflag,   \* runnable0_flag, runnable1_flag
  req,     \* req[g]: state of the MPI requests of group g
  nonRun,  \* non_runnable
  spc,     \* spc[i]: where slave i is
  st,      \* st[i]: its time step
  fin,     \* fin[i]: the groups whose finish flag it has set
  run,     \* run[g][i]: runnable0, runnable1 of slave i
  mem,     \* mem[b][i][p]: version of part p of slave i's rows in array b
  halo     \* halo[b][g]: version of the halo plane of group g in array b

masterVars == <<pid, call, mpc, t, mg, mi, flag, rflag, req>>
slaveVars  == <<spc, st, fin, mem>>
vars == <<masterVars, slaveVars, nonRun, run, halo>>

-----------------------------------------------------------------------------
(* Operators shared by the actions.                                        *)

\* The groups that post requests: count0 # 0, count1 # 0 (num_x = num_y = 1).
Peers == {g \in Group : IF g = 0 THEN pid # NumZ - 1 ELSE pid # 0}

Steps == IF call = 1 THEN WarmUp ELSE NT

\* buffer[t % 2] is read in step t, buffer[(t + 1) % 2] is written.
Src(s)  == s % 2
Dest(s) == (s + 1) % 2

EdgePart(g) == IF g = 0 THEN "top" ELSE "bottom"

\* Every row of array b holds step s.
Holds(b, s) == \A j \in Slave : \A p \in Part : mem[b][j][p] = s

HaloHolds(b, g, s) == g \in Peers => halo[b][g] = s

\* Slave i writes part p of the rows it owns; ok: all it read was of st[i].
Write(i, p, ok) ==
  mem' = [mem EXCEPT ![Dest(st[i])][i][p] = IF ok THEN st[i] + 1 ELSE Garbage]

-----------------------------------------------------------------------------
Init ==
  /\ pid \in 0 .. NumZ - 1
  /\ call = 1
  /\ mpc = "spawn"
  /\ t = 0 /\ mg = 0 /\ mi = 0
  /\ flag = [g \in Group |-> 0]
  /\ rflag = [g \in Group |-> 0]
  /\ req = [g \in Group |-> "none"]
  /\ nonRun = 0
  /\ spc = [i \in Slave |-> "idle"]
  /\ st = [i \in Slave |-> 0]
  /\ fin = [i \in Slave |-> {}]
  /\ run = [g \in Group |-> [i \in Slave |-> 0]]
  /\ mem = [b \in {0, 1} |-> [i \in Slave |-> [p \in Part |->
                                IF b = 0 THEN 0 ELSE Garbage]]]
  /\ halo = [b \in {0, 1} |-> [g \in Group |-> Garbage]]

-----------------------------------------------------------------------------
(* The master core.                                                        *)

\* Mutant: stencil_27_com clears its flags on entry, too.
EntryClearing == "clear0"

\* Only stencil_7_com clears its flags on entry.
Entry == IF StencilType = 7 THEN "clear0" ELSE "main"

\* non_runnable = 0; athread_spawn.  The slaves start on their own.
Spawn ==
  /\ mpc = "spawn"
  /\ nonRun' = 0
  /\ t' = 0
  /\ spc' = [i \in Slave |-> Entry]
  /\ st' = [i \in Slave |-> 0]
  /\ mpc' = "post"
  /\ UNCHANGED <<pid, call, mg, mi, flag, rflag, req, fin, run, mem, halo>>

\* Isend and Irecv of the planes of step t; the flags of the step start at 0.
Post ==
  /\ mpc = "post"
  /\ req' = [g \in Group |-> IF g \in Peers THEN "posted" ELSE "none"]
  /\ flag' = [g \in Group |-> 0]
  /\ rflag' = [g \in Group |-> 0]
  /\ mpc' = "arm"
  /\ UNCHANGED <<pid, call, t, mg, mi, nonRun, slaveVars, run, halo>>

Arm ==
  /\ mpc = "arm"
  /\ nonRun' = 1
  /\ mpc' = "none"
  /\ mg' = 0 /\ mi' = 0
  /\ UNCHANGED <<pid, call, t, flag, rflag, req, slaveVars, run, halo>>

\* The loops over the 64 slaves: "none" writes 2 for a group without requests,
\* "set" writes 1 for a group whose requests have just completed.
Due(g) ==
  IF mpc = "none" THEN g \notin Peers
                  ELSE flag[g] # 0 /\ rflag[g] = 0

FlagValue == IF mpc = "none" THEN 2 ELSE 1

\* Mutant: the group counter is not reset.
NextGroupNoReset ==
  /\ mi' = 0
  /\ mg' = mg + 1
  /\ mpc' = IF mg = 0 THEN mpc ELSE "test"

\* On to the next group, or out of the loops: the poll loop is left when both
\* groups have been signalled.
NextGroup ==
  /\ mi' = 0
  /\ IF mg = 0
       THEN mg' = 1 /\ mpc' = mpc
       ELSE /\ mg' = 0
            /\ mpc' = IF mpc = "set" /\ \A g \in Group : rflag'[g] # 0
                        THEN "wait" ELSE "test"

\* h2ldm(runnable, mi, cg) = FlagValue.
WriteFlag ==
  /\ mpc \in {"none", "set"}
  /\ mi > 0 \/ Due(mg)
  /\ run' = [run EXCEPT ![mg][mi] = FlagValue]
  /\ rflag' = [rflag EXCEPT ![mg] = FlagValue]
  /\ flag' = IF mpc = "none" THEN [flag EXCEPT ![mg] = 2] ELSE flag
  /\ IF mi < ThreadNum - 1
       THEN mi' = mi + 1 /\ UNCHANGED <<mg, mpc>>
       ELSE NextGroup
  /\ UNCHANGED <<pid, call, t, req, nonRun, slaveVars, halo>>

SkipGroup ==
  /\ mpc \in {"none", "set"}
  /\ mi = 0 /\ ~Due(mg)
  /\ UNCHANGED <<pid, call, t, flag, rflag, req, nonRun, slaveVars, run, halo>>
  /\ NextGroup

\* MPI_Testall of the group the loop has reached.
Test ==
  /\ mpc = "test"
  /\ flag' = IF rflag[mg] = 0
               THEN [flag EXCEPT ![mg] = IF req[mg] = "posted" THEN 0 ELSE 1]
               ELSE flag
  /\ IF mg = 0 THEN mg' = 1 /\ mpc' = mpc
               ELSE mg' = 0 /\ mpc' = "set"
  /\ UNCHANGED <<pid, call, t, mi, rflag, req, nonRun, slaveVars, run, halo>>

\* Mutant: the master does not wait.
AlwaysReleased == TRUE

Released == nonRun # 1

\* while (non_runnable == 1); then the next step of the loop, or its end.
Await ==
  /\ mpc = "wait"
  /\ Released
  /\ t' = t + 1
  /\ mpc' = IF t + 1 < Steps THEN "post" ELSE "join"
  /\ UNCHANGED <<pid, call, mg, mi, flag, rflag, req, nonRun, slaveVars, run,
                 halo>>

\* athread_join, return buffer[nt % 2]; the timed call follows the warm-up.
Join ==
  /\ mpc = "join"
  /\ \A i \in Slave : spc[i] = "idle"
  /\ IF call = 1 THEN call' = 2 /\ mpc' = "spawn"
                 ELSE call' = call /\ mpc' = "return"
  /\ UNCHANGED <<pid, t, mg, mi, flag, rflag, req, nonRun, slaveVars, run,
                 halo>>

\* MPI completes the requests of group g: the halo plane has arrived in
\* buffer[t % 2] and the edge plane has been sent from it.
Complete(g) ==
  /\ req[g] = "posted"
  /\ req' = [req EXCEPT ![g] = "complete"]
  /\ halo' = [halo EXCEPT ![Src(t)][g] = t]
  /\ UNCHANGED <<pid, call, mpc, t, mg, mi, flag, rflag, nonRun, slaveVars,
                 run>>

Master ==
  \/ Spawn \/ Post \/ Arm \/ WriteFlag \/ SkipGroup \/ Test \/ Await \/ Join

-----------------------------------------------------------------------------
(* The slave cores.                                                        *)

Goto(i, l) == spc' = [spc EXCEPT ![i] = l]

\* stencil_7_com clears its two flags before the time loop.
Clear0(i) ==
  /\ spc[i] = "clear0"
  /\ run' = [run EXCEPT ![0][i] = 0]
  /\ Goto(i, "clear1")
  /\ UNCHANGED <<masterVars, st, fin, mem, nonRun, halo>>

Clear1(i) ==
  /\ spc[i] = "clear1"
  /\ run' = [run EXCEPT ![1][i] = 0]
  /\ Goto(i, "main")
  /\ UNCHANGED <<masterVars, st, fin, mem, nonRun, halo>>

\* The rows that need no halo: interior planes 2 .. local_size_z - 1.
Main(i) ==
  /\ spc[i] = "main"
  /\ Write(i, "rows", Holds(Src(st[i]), st[i]))
  /\ fin' = [fin EXCEPT ![i] = {}]
  /\ Goto(i, "look0")
  /\ UNCHANGED <<masterVars, st, run, nonRun, halo>>

\* Mutant: the flag is not looked at.
Unfinished(i, g) == g \notin fin[i]

\* runnable0 && finish0 == 0, runnable1 && finish1 == 0
Sees(i, g) == run[g][i] # 0 /\ g \notin fin[i]

\* if (runnable0 && finish0 == 0) ... else ...
Look0(i) ==
  /\ spc[i] = "look0"
  /\ \/ /\ Sees(i, 0)
        /\ fin' = [fin EXCEPT ![i] = @ \cup {0}]
        /\ Goto(i, "edge0")
     \/ /\ ~Sees(i, 0)
        /\ fin' = fin
        /\ Goto(i, "look1")
  /\ UNCHANGED <<masterVars, st, mem, run, nonRun, halo>>

\* ... else if (runnable1 && finish1 == 0) ... else continue
Look1(i) ==
  /\ spc[i] = "look1"
  /\ \/ /\ Sees(i, 1)
        /\ fin' = [fin EXCEPT ![i] = @ \cup {1}]
        /\ Goto(i, "edge1")
     \/ /\ ~Sees(i, 1)
        /\ fin' = fin
        /\ Goto(i, "look0")
  /\ UNCHANGED <<masterVars, st, mem, run, nonRun, halo>>

\* The slave's rows of the top (g = 0) or bottom (g = 1) plane; then the loop
\* test finish0 && finish1.
Edge(i, g) ==
  /\ spc[i] = IF g = 0 THEN "edge0" ELSE "edge1"
  /\ Write(i, EdgePart(g), /\ Holds(Src(st[i]), st[i])
                           /\ HaloHolds(Src(st[i]), g, st[i]))
  /\ Goto(i, IF fin[i] = Group THEN "barrier1" ELSE "look0")
  /\ UNCHANGED <<masterVars, st, fin, run, nonRun, halo>>

\* Mutant: no first barrier.
Barrier1Missing ==
  \E i \in Slave :
    /\ spc[i] = "barrier1"
    /\ Goto(i, "reset0")
    /\ UNCHANGED <<masterVars, st, fin, mem, run, nonRun, halo>>

\* athread_syn(ARRAY_SCOPE, 0xffff): all slaves leave together.
Barrier1 ==
  /\ \A i \in Slave : spc[i] = "barrier1"
  /\ spc' = [i \in Slave |-> "reset0"]
  /\ UNCHANGED <<masterVars, st, fin, mem, run, nonRun, halo>>

Reset0(i) ==
  /\ spc[i] = "reset0"
  /\ run' = [run EXCEPT ![0][i] = 0]
  /\ Goto(i, "reset1")
  /\ UNCHANGED <<masterVars, st, fin, mem, nonRun, halo>>

\* Mutant: runnable1 stays set.
Reset1Missing(i) ==
  /\ spc[i] = "reset1"
  /\ Goto(i, IF i = 0 THEN "signal" ELSE "barrier2")
  /\ UNCHANGED <<masterVars, st, fin, mem, run, nonRun, halo>>

\* Mutant: no slave clears non_runnable.
Reset1Silent(i) ==
  /\ spc[i] = "reset1"
  /\ run' = [run EXCEPT ![1][i] = 0]
  /\ Goto(i, "barrier2")
  /\ UNCHANGED <<masterVars, st, fin, mem, nonRun, halo>>

Reset1(i) ==
  /\ spc[i] = "reset1"
  /\ run' = [run EXCEPT ![1][i] = 0]
  /\ Goto(i, IF i = 0 THEN "signal" ELSE "barrier2")
  /\ UNCHANGED <<masterVars, st, fin, mem, nonRun, halo>>

\* if (id == 0) *p->non_runnable = 0;
Signal(i) ==
  /\ spc[i] = "signal"
  /\ nonRun' = 0
  /\ Goto(i, "barrier2")
  /\ UNCHANGED <<masterVars, st, fin, mem, run, halo>>

Barrier2 ==
  /\ \A i \in Slave : spc[i] = "barrier2"
  /\ st' = [i \in Slave |-> st[i] + 1]
  /\ spc' = [i \in Slave |-> IF st[i] + 1 < Steps THEN "main" ELSE "idle"]
  /\ UNCHANGED <<masterVars, fin, mem, run, nonRun, halo>>

SlaveStep(i) ==
  \/ Clear0(i) \/ Clear1(i) \/ Main(i) \/ Look0(i) \/ Look1(i)
  \/ \E g \in Group : Edge(i, g)
  \/ Reset0(i) \/ Reset1(i) \/ Signal(i)

-----------------------------------------------------------------------------
Next ==
  \/ Master
  \/ \E g \in Group : Complete(g)
  \/ \E i \in Slave : SlaveStep(i)
  \/ Barrier1
  \/ Barrier2

Spec == Init /\ [][Next]_vars

(***************************************************************************)
(* Master and slaves are cores of their own that never stop running their  *)
(* program, the barrier opens once everybody is there, and the neighbours  *)
(* answer every exchange (HaloExchange shows that they do).                *)
(***************************************************************************)
Fairness ==
  /\ WF_vars(Master)
  /\ \A g \in Group : WF_vars(Complete(g))
  /\ \A i \in Slave : WF_vars(SlaveStep(i))
  /\ WF_vars(Barrier1)
  /\ WF_vars(Barrier2)

FairSpec == Spec /\ Fairness

-----------------------------------------------------------------------------
MasterPC == {"spawn", "post", "arm", "none", "test", "set", "wait", "join",
             "return"}
SlavePC  == {"idle", "clear0", "clear1", "main", "look0", "look1", "edge0",
             "edge1", "barrier1", "reset0", "reset1", "signal", "barrier2"}

\* The variables have the values the C types and the bounds of the loops allow.
TypeOK ==
  /\ pid \in 0 .. NumZ - 1
  /\ call \in {1, 2}
  /\ mpc \in MasterPC
  /\ t \in Nat
  /\ mg \in Group
  /\ mi \in Slave
  /\ flag \in [Group -> {0, 1, 2}]
  /\ rflag \in [Group -> {0, 1, 2}]
  /\ req \in [Group -> {"none", "posted", "complete"}]
  /\ nonRun \in {0, 1}
  /\ spc \in [Slave -> SlavePC]
  /\ st \in [Slave -> Nat]
  /\ fin \in [Slave -> SUBSET Group]
  /\ run \in [Group -> [Slave -> {0, 1, 2}]]
  /\ mem \in [{0, 1} -> [Slave -> [Part -> Nat \cup {Garbage}]]]
  /\ halo \in [{0, 1} -> [Group -> Nat \cup {Garbage}]]

-----------------------------------------------------------------------------
(* Accesses to the arrays that may be under way in a state: a slave that   *)
(* is computing a part, an MPI request group that is posted.               *)

Reads(i) ==
  LET cells == {<<Src(st[i]), p>> : p \in Part}
  IN CASE spc[i] = "main"  -> cells
       [] spc[i] = "edge0" -> cells \cup {<<Src(st[i]), "halo0">>}
       [] spc[i] = "edge1" -> cells \cup {<<Src(st[i]), "halo1">>}
       [] OTHER            -> {}

Writes(i) ==
  CASE spc[i] = "main"  -> {<<Dest(st[i]), "rows">>}
    [] spc[i] = "edge0" -> {<<Dest(st[i]), "top">>}
    [] spc[i] = "edge1" -> {<<Dest(st[i]), "bottom">>}
    [] OTHER            -> {}

Sends(g)    == <<Src(t), EdgePart(g)>>
Receives(g) == <<Src(t), IF g = 0 THEN "halo0" ELSE "halo1">>

\* No slave writes what another slave may be reading or what MPI may still be
\* sending, and no slave reads a halo plane MPI may still be filling: what the
\* alternation of the two arrays and the three kinds of flags are there for.
RaceFree ==
  /\ \A i, j \in Slave : Reads(i) \cap Writes(j) = {}
  /\ \A i \in Slave, g \in Group :
       req[g] = "posted" => /\ Sends(g) \notin Writes(i)
                            /\ Receives(g) \notin Reads(i)

\* The plane handed to MPI_Isend holds, as long as the request is pending, the
\* values of the master's step in the rows of every slave.
SendReady ==
  \A g \in Group :
    req[g] = "posted" => \A j \in Slave : mem[Src(t)][j][EdgePart(g)] = t

\* A slave that computes an edge plane acts on a flag of this step, never on
\* one left over: the master is in the same step and the halo has arrived.
FlagFresh ==
  \A i \in Slave, g \in Group :
    spc[i] = (IF g = 0 THEN "edge0" ELSE "edge1") =>
      /\ t = st[i]
      /\ HaloHolds(Src(t), g, t)

\* Every call starts from the input array and ends with all of its steps
\* applied to the array it returns, buffer[nt % 2]: the warm-up of benchmark.c
\* must not disturb the input of the timed call.
CallResult ==
  /\ mpc = "spawn" => Holds(0, 0)
  /\ mpc = "join" /\ (\A i \in Slave : spc[i] = "idle")
       => Holds(Steps % 2, Steps)

\* non_runnable falls only when every slave has finished both edge planes of
\* the step, although only slave 0 clears it.
ClearsLast ==
  [][nonRun = 1 /\ nonRun' = 0
       => \A i \in Slave : fin[i] = Group /\ st[i] = t]_vars

-----------------------------------------------------------------------------
(* Lost wakeups.  The master writes a slave's flag once per step; a slave  *)
(* that clears its flags after that write waits for ever.                  *)

\* The master has written the flag of group g of slave i in its step.
Signalled(g, i) ==
  /\ mpc \in {"none", "test", "set", "wait"}
  /\ rflag[g] # 0
  /\ mpc \in {"none", "set"} /\ mg = g /\ mi > 0 => i < mi

\* Slave i has yet to act on the flag of group g of the master's step.
Owes(g, i) ==
  \/ st[i] + 1 = t
  \/ /\ st[i] = t
     /\ \/ spc[i] \in {"clear0", "clear1", "main"}
        \/ spc[i] \in {"look0", "look1", "edge0", "edge1"} /\ g \notin fin[i]

LostWakeup ==
  \E g \in Group, i \in Slave :
    Signalled(g, i) /\ Owes(g, i) /\ run[g][i] = 0

\* No slave loses a flag in the first step of a call, whatever the call before
\* has left in its flags.  Holds for stencil_27, whose slaves do not clear them
\* when they start; its calls of one step lose none at all.
KeptInFirstStep == t = 0 => ~LostWakeup

\* common.h: stencil_7 and stencil_27 return the pointer to the output array.
Termination == <>(mpc = "return")

\* A lost wakeup is the only way in which the calls can fail to return.
TerminatesUnlessLost == <>LostWakeup \/ <>(mpc = "return")

-----------------------------------------------------------------------------
(* The process as its neighbours see it.                                   *)

Finished(i) ==
  IF spc[i] \in {"barrier1", "reset0", "reset1", "signal", "barrier2"}
    THEN st[i] + 1 ELSE st[i]

Rank == INSTANCE RankStep WITH
  peers    <- Peers,
  done     <- IF mpc = "spawn" THEN 0
              ELSE CHOOSE n \in 0 .. NT : /\ \E i \in Slave : Finished(i) = n
                                         /\ \A i \in Slave : n <= Finished(i),
  got      <- [g \in Group |->
                 IF mpc = "spawn" \/ g \notin Peers THEN 0
                 ELSE IF /\ mpc \notin {"post", "join", "return"}
                         /\ req[g] = "complete"
                   THEN t + 1
                 ELSE t],
  returned <- mpc = "return"

\* The core group keeps the promise its neighbours rely on.
ImplementsRankStep == Rank!Spec

=============================================================================
