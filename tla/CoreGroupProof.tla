--------------------------- MODULE CoreGroupProof ---------------------------
(***************************************************************************)
(* Proofs about CoreGroup, for every number of slaves, processes and time  *)
(* steps, in three parts: type correctness, FlagFresh, RaceFree and        *)
(* ClearsLast; what the arrays hold (CallResult, SendReady, and            *)
(* KeptInFirstStep); and that CoreGroup implements RankStep.               *)
(*                                                                         *)
(* The inductive invariant IInv says where master and slaves can be with   *)
(* respect to each other.  The barriers keep the slaves in one phase of    *)
(* one step; the master is in the slaves' step, one step behind (slave 0   *)
(* has cleared non_runnable, the master has not looked yet) or one step    *)
(* ahead (it has looked, the slaves have not left the second barrier).     *)
(***************************************************************************)
EXTENDS CoreGroup, TLAPS

\* The three phases of a slave; the barriers are their borders.
Computing(i) == spc[i] \in {"clear0", "clear1", "main", "look0", "look1",
                            "edge0", "edge1", "barrier1"}
Resetting(i) == spc[i] \in {"reset0", "reset1", "signal", "barrier2"}

AllComputing == \A i \in Slave : Computing(i)
AllResetting == \A i \in Slave : Resetting(i)
AllIdle      == \A i \in Slave : spc[i] = "idle"

\* The master is between Arm and the end of its step.
Armed == mpc \in {"none", "test", "set", "wait"}

\* The master has written all the flags of its step.
AllSent ==
  /\ mpc = "wait" \/ (mpc = "set" /\ mg = 1 /\ mi = 0)
  /\ \A g \in Group : rflag[g] # 0

\* Slave 0 has cleared non_runnable for the master's step.
Passed == \/ st[0] = t /\ AllResetting /\ spc[0] = "barrier2"
          \/ st[0] = t + 1

\* The barriers keep the slaves together.
Together ==
  /\ \A i \in Slave : st[i] = st[0]
  /\ AllComputing \/ AllResetting \/ AllIdle
  /\ \A i \in Slave : spc[i] = "signal" => i = 0

\* The master's program counter and its loop counter.
MasterBounds ==
  /\ mpc \in {"post", "arm", "none", "test", "set", "wait"} => t < Steps
  /\ mpc = "join" => t = Steps

\* The master's step against the step of the slaves.
InStep ==
  /\ mpc \in {"spawn", "return"} => AllIdle
  /\ AllIdle /\ mpc \notin {"spawn", "return"} =>
       /\ st[0] = Steps
       /\ \/ t = Steps /\ mpc = "join"
          \/ t + 1 = Steps /\ AllSent
  /\ AllComputing =>
       /\ st[0] < Steps
       /\ t = st[0] \/ (t + 1 = st[0] /\ AllSent)
  /\ AllResetting =>
       /\ st[0] < Steps
       /\ \/ t = st[0] /\ AllSent
          \/ t = st[0] + 1 /\ spc[0] = "barrier2"

\* non_runnable is 1 exactly while the master is armed and not yet released.
NonRun ==
  /\ Armed => (nonRun = 1 <=> ~Passed)
  /\ ~Armed => nonRun = 0

\* The master's flags against its requests and its place in the loops.
Requests ==
  /\ \A g \in Group :
       /\ req[g] = "posted" => /\ g \in Peers
                               /\ mpc \in {"arm", "none", "test", "set"}
                               /\ rflag[g] = 0 /\ flag[g] = 0
       /\ mpc \in {"arm"} \cup {"none", "test", "set", "wait"} /\ g \in Peers
            => /\ req[g] \in {"posted", "complete"}
               /\ req[g] = "complete" => halo[Src(t)][g] = t
  /\ mpc \in {"none", "set"} /\ mi > 0 => rflag[mg] # 0
  /\ mpc \notin {"none", "set"} => mi = 0
  /\ mpc = "arm" => \A g \in Group : rflag[g] = 0
  /\ mpc = "none" => \A g \in Group :
       g \in Peers \/ g > mg \/ (g = mg /\ mi = 0) => rflag[g] = 0
  /\ mpc = "test" => \E g \in Group : rflag[g] = 0
  /\ mpc = "set" /\ mg = 0 /\ mi = 0 => \E g \in Group : rflag[g] = 0

\* A raised flag belongs to the master's step, except for a flag that its
\* slave is about to clear in the reset phase.
Flags ==
  \A i \in Slave, g \in Group :
    run[g][i] # 0 =>
      /\ spc[i] # "idle"
      /\ Computing(i) => t = st[i] /\ Signalled(g, i)
      /\ spc[i] \in {"signal", "barrier2"} \/ (spc[i] = "reset1" /\ g = 0)
           => t = st[i] + 1 /\ Signalled(g, i)

\* A finish flag stands for a flag the master has written in this step.
Finish ==
  \A i \in Slave, g \in Group :
    /\ g \in fin[i] /\ spc[i] \in {"look0", "look1", "edge0", "edge1",
                                   "barrier1"}
         => t = st[i] /\ Signalled(g, i)
    /\ spc[i] = (IF g = 0 THEN "edge0" ELSE "edge1") => g \in fin[i]
    /\ spc[i] \in {"barrier1", "reset0", "reset1", "signal", "barrier2"}
         => fin[i] = Group

Coordination ==
  /\ Together
  /\ MasterBounds
  /\ InStep
  /\ NonRun
  /\ Requests
  /\ Flags
  /\ Finish

IInv == TypeOK /\ Coordination


-----------------------------------------------------------------------------
(* Type correctness.                                                       *)

\* The two arrays alternate.
LEMMA Parity ==
  ASSUME NEW s \in Nat
  PROVE  /\ Src(s) \in {0, 1}
         /\ Dest(s) \in {0, 1}
         /\ Dest(s) # Src(s)
         /\ Src(s + 1) = Dest(s)
  BY DEF Src, Dest

\* A slave's write keeps mem an array of versions.
LEMMA WriteType ==
  ASSUME TypeOK, NEW i \in Slave, NEW p \in Part, NEW ok \in BOOLEAN,
         Write(i, p, ok)
  PROVE  mem' \in [{0, 1} -> [Slave -> [Part -> Nat \cup {Garbage}]]]
<1>1. st[i] \in Nat
  BY DEF TypeOK
<1>2. Dest(st[i]) \in {0, 1}
  BY <1>1, Parity
<1>3. (IF ok THEN st[i] + 1 ELSE Garbage) \in Nat \cup {Garbage}
  BY <1>1
<1> QED
  BY <1>2, <1>3 DEF TypeOK, Write

\* Every step of master, slaves and neighbours keeps the types.
LEMMA TypeStep == TypeOK /\ [Next]_vars => TypeOK'
<1> SUFFICES ASSUME TypeOK, [Next]_vars PROVE TypeOK'
  OBVIOUS
<1> USE CoreGroupAssumption DEF Group
<1>1. CASE Spawn
  BY <1>1 DEF Spawn, Entry, TypeOK, MasterPC, SlavePC, slaveVars
<1>2. CASE Post
  BY <1>2 DEF Post, TypeOK, MasterPC, SlavePC, slaveVars
<1>3. CASE Arm
  BY <1>3 DEF Arm, TypeOK, MasterPC, SlavePC, slaveVars, Slave
<1>4. CASE WriteFlag
  BY <1>4, SMTT(30)
  DEF WriteFlag, TypeOK, MasterPC, SlavePC, slaveVars, FlagValue, NextGroup,
      Slave
<1>5. CASE SkipGroup
  BY <1>5
  DEF SkipGroup, TypeOK, MasterPC, SlavePC, slaveVars, NextGroup, Slave
<1>6. CASE Test
  BY <1>6 DEF Test, TypeOK, MasterPC, SlavePC, slaveVars
<1>7. CASE Await
  BY <1>7 DEF Await, TypeOK, MasterPC, SlavePC, slaveVars
<1>8. CASE Join
  BY <1>8 DEF Join, TypeOK, MasterPC, SlavePC, slaveVars
<1>9. ASSUME NEW g \in Group, Complete(g) PROVE TypeOK'
  BY <1>9, Parity DEF Complete, TypeOK, slaveVars
<1>10. ASSUME NEW i \in Slave, Clear0(i) PROVE TypeOK'
  BY <1>10 DEF Clear0, TypeOK, SlavePC, masterVars, Goto
<1>11. ASSUME NEW i \in Slave, Clear1(i) PROVE TypeOK'
  BY <1>11 DEF Clear1, TypeOK, SlavePC, masterVars, Goto
<1>12. ASSUME NEW i \in Slave, Look0(i) PROVE TypeOK'
  <2>1. \/ fin' = [fin EXCEPT ![i] = @ \cup {0}]
        \/ fin' = fin
    BY <1>12, Zenon DEF Look0
  <2>2. fin \in [Slave -> SUBSET Group] /\ fin[i] \cup {0} \in SUBSET Group
    BY DEF TypeOK
  <2>3. fin' \in [Slave -> SUBSET Group]
    BY <2>1, <2>2, Zenon
  <2>4. \/ spc' = [spc EXCEPT ![i] = "edge0"]
        \/ spc' = [spc EXCEPT ![i] = "look1"]
    BY <1>12, Zenon DEF Look0, Goto
  <2>5. spc' \in [Slave -> SlavePC]
    BY <2>4 DEF TypeOK, SlavePC
  <2> QED
    BY <1>12, <2>3, <2>5 DEF Look0, TypeOK, masterVars
<1>13. ASSUME NEW i \in Slave, Look1(i) PROVE TypeOK'
  <2>1. \/ fin' = [fin EXCEPT ![i] = @ \cup {1}]
        \/ fin' = fin
    BY <1>13, Zenon DEF Look1
  <2>2. fin \in [Slave -> SUBSET Group] /\ fin[i] \cup {1} \in SUBSET Group
    BY DEF TypeOK
  <2>3. fin' \in [Slave -> SUBSET Group]
    BY <2>1, <2>2, Zenon
  <2>4. \/ spc' = [spc EXCEPT ![i] = "edge1"]
        \/ spc' = [spc EXCEPT ![i] = "look0"]
    BY <1>13, Zenon DEF Look1, Goto
  <2>5. spc' \in [Slave -> SlavePC]
    BY <2>4 DEF TypeOK, SlavePC
  <2> QED
    BY <1>13, <2>3, <2>5 DEF Look1, TypeOK, masterVars
<1>14. ASSUME NEW i \in Slave, Reset0(i) PROVE TypeOK'
  BY <1>14 DEF Reset0, TypeOK, SlavePC, masterVars, Goto
<1>15. ASSUME NEW i \in Slave, Reset1(i) PROVE TypeOK'
  BY <1>15 DEF Reset1, TypeOK, SlavePC, masterVars, Goto
<1>16. ASSUME NEW i \in Slave, Signal(i) PROVE TypeOK'
  BY <1>16 DEF Signal, TypeOK, SlavePC, masterVars, Goto
<1>17. ASSUME NEW i \in Slave, Main(i) PROVE TypeOK'
  BY <1>17, WriteType DEF Main, TypeOK, SlavePC, masterVars, Goto, Part, Holds
<1>18. ASSUME NEW i \in Slave, NEW g \in Group, Edge(i, g) PROVE TypeOK'
  BY <1>18, WriteType
  DEF Edge, TypeOK, SlavePC, masterVars, Goto, Part, Holds, HaloHolds,
      EdgePart
<1>19. CASE Barrier1
  BY <1>19 DEF Barrier1, TypeOK, SlavePC, masterVars
<1>20. CASE Barrier2
  BY <1>20 DEF Barrier2, TypeOK, SlavePC, masterVars
<1>21. CASE UNCHANGED vars
  BY <1>21 DEF vars, masterVars, slaveVars, TypeOK
<1> QED
  BY <1>1, <1>2, <1>3, <1>4, <1>5, <1>6, <1>7, <1>8, <1>9, <1>10, <1>11,
     <1>12, <1>13, <1>14, <1>15, <1>16, <1>17, <1>18, <1>19, <1>20, <1>21
  DEF Next, Master, SlaveStep

\* Every variable of CoreGroup stays in its type in every reachable state.
THEOREM TypeCorrect == Spec => []TypeOK
<1>1. Init => TypeOK
  BY CoreGroupAssumption
  DEF Init, TypeOK, MasterPC, SlavePC, Slave, Group, Part, Garbage
<1> QED
  BY <1>1, TypeStep, PTL DEF Spec


-----------------------------------------------------------------------------
(* Facts the steps of the invariance proof share.                          *)

\* There is a slave 0, the one that clears non_runnable.
LEMMA ZeroSlave == 0 \in Slave
  BY CoreGroupAssumption DEF Slave

\* Every call has at least one time step.
LEMMA StepsType == TypeOK => Steps \in Nat \ {0}
  BY CoreGroupAssumption DEF TypeOK, Steps, WarmUp

\* A flag that counts as written stays so while the master writes others.
LEMMA SignalledKept ==
  ASSUME TypeOK, Requests, WriteFlag,
         NEW g \in Group, NEW i \in Slave, Signalled(g, i)
  PROVE  Signalled(g, i)'
<1> USE CoreGroupAssumption
    DEF TypeOK, Requests, WriteFlag, Signalled, FlagValue, Due, Group, Slave
<1>1. CASE mi < ThreadNum - 1
  BY <1>1
<1>2. CASE mi = ThreadNum - 1 /\ mg = 0
  BY <1>2 DEF NextGroup
<1>3. CASE mi = ThreadNum - 1 /\ mg = 1
  BY <1>3 DEF NextGroup
<1> QED
  BY <1>1, <1>2, <1>3

\* The flag the master has just written counts as written.
LEMMA SignalledNow ==
  ASSUME TypeOK, WriteFlag, NEW g \in Group, NEW i \in Slave, g = mg, i = mi
  PROVE  Signalled(g, i)'
<1> USE CoreGroupAssumption
    DEF TypeOK, WriteFlag, Signalled, FlagValue, Due, Group, Slave
<1>1. CASE mi < ThreadNum - 1
  BY <1>1
<1>2. CASE mi = ThreadNum - 1 /\ mg = 0
  BY <1>2 DEF NextGroup
<1>3. CASE mi = ThreadNum - 1 /\ mg = 1
  BY <1>3 DEF NextGroup
<1> QED
  BY <1>1, <1>2, <1>3

-----------------------------------------------------------------------------
(* One lemma per action of CoreGroup: the step keeps the seven parts.      *)

\* athread_spawn: all slaves start in step 0, none has a flag yet.
LEMMA SpawnStep ==
  ASSUME IInv, Spawn
  PROVE  Coordination'
<1>1. Together'
  BY ZeroSlave
  DEF IInv, Coordination, Spawn, Entry, Together, AllComputing, AllResetting,
      AllIdle, Computing, Resetting, slaveVars, TypeOK, Group
<1>2. MasterBounds'
  BY CoreGroupAssumption DEF MasterBounds, Spawn, Steps, WarmUp
<1>3. InStep'
  <2>1. \A i \in Slave : spc'[i] \in {"clear0", "main"}
    BY CoreGroupAssumption DEF Spawn, Entry
  <2>2. AllComputing' /\ ~AllResetting' /\ ~AllIdle'
    BY <2>1, ZeroSlave
    DEF AllComputing, AllResetting, AllIdle, Computing, Resetting
  <2>3. Steps' > 0 /\ st'[0] = 0 /\ t' = 0 /\ mpc' = "post"
    BY CoreGroupAssumption, ZeroSlave DEF Spawn, Steps, WarmUp
  <2> QED
    BY <2>2, <2>3 DEF InStep
<1>4. NonRun'
  BY DEF IInv, Coordination, Spawn, NonRun, Armed, Passed, AllResetting,
         Resetting, slaveVars
<1>5. Requests'
  BY DEF IInv, Coordination, Spawn, Requests, Peers, Group, slaveVars
<1>6. Flags'
  BY ZeroSlave
  DEF IInv, Coordination, Spawn, Flags, Computing, Signalled, Group,
      slaveVars, TypeOK, Together, InStep, AllSent, AllComputing,
      AllResetting, AllIdle, Resetting
<1>7. Finish'
  BY DEF IInv, Coordination, Spawn, Entry, Finish, Signalled, Group, slaveVars
<1> QED
  BY <1>1, <1>2, <1>3, <1>4, <1>5, <1>6, <1>7 DEF Coordination

\* Isend and Irecv: the requests of the new step are pending, no flag set.
LEMMA PostStep ==
  ASSUME IInv, Post
  PROVE  Coordination'
<1>1. /\ Together' /\ MasterBounds' /\ InStep' /\ NonRun'
      /\ Requests' /\ Flags' /\ Finish'
  BY DEF IInv, Coordination, Post, Together, AllComputing, AllResetting,
         AllIdle, Computing, Resetting, slaveVars, MasterBounds, Steps,
         InStep, AllSent, NonRun, Armed, Passed, Requests, Peers, Group,
         Flags, Signalled, Finish
<1> QED
  BY <1>1 DEF Coordination

\* non_runnable rises while slave 0 still has this step before it.
LEMMA ArmStep ==
  ASSUME IInv, Arm
  PROVE  Coordination'
<1>1. /\ Together' /\ MasterBounds' /\ InStep' /\ Requests'
      /\ Flags' /\ Finish'
  BY DEF IInv, Coordination, Arm, Together, AllComputing, AllResetting,
         AllIdle, Computing, Resetting, slaveVars, MasterBounds, Steps,
         InStep, AllSent, Requests, Peers, Group, Flags, Signalled, Finish
<1>2. NonRun'
  BY ZeroSlave
  DEF IInv, Coordination, Arm, NonRun, Armed, Passed, AllResetting, Resetting,
      slaveVars, TypeOK, Together, InStep, AllSent, AllComputing, AllIdle,
      Computing
<1> QED
  BY <1>1, <1>2 DEF Coordination

\* h2ldm: a flag is written for this step, its requests being complete.
LEMMA WriteFlagStep ==
  ASSUME IInv, WriteFlag
  PROVE  Coordination'
<1>1. Together' /\ MasterBounds' /\ NonRun'
  BY DEF IInv, Coordination, WriteFlag, Together, AllComputing, AllResetting,
         AllIdle, Computing, Resetting, slaveVars, FlagValue, NextGroup, Due,
         MasterBounds, Steps, NonRun, Armed, Passed
<1>2. InStep'
  BY DEF IInv, Coordination, WriteFlag, InStep, AllComputing, AllResetting,
         AllIdle, Computing, Resetting, AllSent, Steps, slaveVars, FlagValue,
         NextGroup, Due, TypeOK
<1>3. Requests'
  <2>1. /\ mg \in Group /\ mi \in 0 .. ThreadNum - 1
        /\ ThreadNum \in Nat \ {0}
        /\ Peers' = Peers
        /\ mpc \in {"none", "set"}
        /\ rflag \in [Group -> {0, 1, 2}] /\ flag \in [Group -> {0, 1, 2}]
        /\ UNCHANGED <<t, req, halo>>
    BY CoreGroupAssumption
    DEF IInv, Coordination, TypeOK, Slave, WriteFlag, Peers
  <2>2. req[mg] # "posted"
    BY <2>1 DEF IInv, Coordination, Requests, WriteFlag, Due
  <2>3. rflag' = [rflag EXCEPT ![mg] = FlagValue] /\ FlagValue # 0
    BY DEF WriteFlag, FlagValue
  <2>4. mpc = "none" => mg \notin Peers
    BY <2>1 DEF IInv, Coordination, Requests, WriteFlag, Due
  <2>5. \E g \in Group : g \in Peers
    BY CoreGroupAssumption DEF Peers, Group, IInv, TypeOK
  <2>6. CASE mi < ThreadNum - 1
    <3>1. mi' = mi + 1 /\ mg' = mg /\ mpc' = mpc
      BY <2>6 DEF WriteFlag
    <3> QED
      BY <3>1, <2>1, <2>2, <2>3, <2>4
      DEF IInv, Coordination, Requests, WriteFlag, Group, Src
  <2>7. CASE mi = ThreadNum - 1 /\ mg = 0
    <3>1. mi' = 0 /\ mg' = 1 /\ mpc' = mpc
      BY <2>1, <2>7 DEF WriteFlag, NextGroup
    <3> QED
      BY <3>1, <2>7, <2>1, <2>2, <2>3, <2>4
      DEF IInv, Coordination, Requests, WriteFlag, Group, Src
  <2>8. CASE mi = ThreadNum - 1 /\ mg = 1
    <3>1. /\ mi' = 0 /\ mg' = 0
          /\ mpc' = IF mpc = "set" /\ \A g \in Group : rflag'[g] # 0
                      THEN "wait" ELSE "test"
      BY <2>1, <2>8 DEF WriteFlag, NextGroup
    <3>2. mpc = "none" => rflag'[0] = 0
      BY <2>1, <2>3, <2>4, <2>5, <2>8 DEF Group, IInv, Coordination, Requests
    <3>3. mpc' = "test" => \E g \in Group : rflag'[g] = 0
      BY <3>1, <3>2, <2>1 DEF Group
    <3> QED
      BY <3>1, <3>3, <2>8, <2>1, <2>2, <2>3, <2>4
      DEF IInv, Coordination, Requests, WriteFlag, Group, Src
  <2> QED
    BY <2>1, <2>6, <2>7, <2>8 DEF Group
<1>4. Flags'
  <2> SUFFICES ASSUME NEW i \in Slave, NEW g \in Group, run'[g][i] # 0
               PROVE  /\ spc[i] # "idle"
                      /\ Computing(i) => t = st[i] /\ Signalled(g, i)'
                      /\ \/ spc[i] \in {"signal", "barrier2"}
                         \/ spc[i] = "reset1" /\ g = 0
                         => t = st[i] + 1 /\ Signalled(g, i)'
    BY DEF Flags, WriteFlag, slaveVars, Computing
  <2>1. CASE run[g][i] # 0
    BY <2>1, SignalledKept DEF IInv, Coordination, Flags
  <2>2. CASE run[g][i] = 0
    <3>1. g = mg /\ i = mi
      BY <2>2 DEF IInv, Coordination, TypeOK, WriteFlag
    <3>2. Signalled(g, i)'
      BY <3>1, SignalledNow DEF IInv, Coordination
    <3>3. ~AllSent
      BY <3>1
      DEF AllSent, IInv, Coordination, Requests, WriteFlag, Due
    <3>4. mpc \notin {"spawn", "return", "join"} /\ st[i] = st[0]
      BY DEF WriteFlag, IInv, Coordination, Together
    <3>5. spc[i] # "idle"
      <4>1. ~AllIdle
        BY <3>3, <3>4 DEF IInv, Coordination, InStep
      <4> QED
        BY <4>1
        DEF IInv, Coordination, Together, AllComputing, AllResetting, AllIdle,
            Computing, Resetting
    <3>6. Computing(i) => t = st[i]
      <4>1. Computing(i) => AllComputing
        BY DEF IInv, Coordination, Together, AllComputing, AllResetting,
               AllIdle, Computing, Resetting
      <4> QED
        BY <3>3, <3>4, <4>1 DEF IInv, Coordination, InStep
    <3>7. Resetting(i) => t = st[i] + 1
      <4>1. Resetting(i) => AllResetting
        BY DEF IInv, Coordination, Together, AllComputing, AllResetting,
               AllIdle, Computing, Resetting
      <4> QED
        BY <3>3, <3>4, <4>1 DEF IInv, Coordination, InStep
    <3> QED
      BY <3>2, <3>5, <3>6, <3>7 DEF Resetting
  <2> QED
    BY <2>1, <2>2 DEF IInv, Coordination, TypeOK
<1>5. Finish'
  BY SignalledKept DEF IInv, Coordination, Finish, WriteFlag, slaveVars, Group
<1> QED
  BY <1>1, <1>2, <1>3, <1>4, <1>5 DEF Coordination

\* The loops over the slaves pass by a group that is not due.
LEMMA SkipGroupStep ==
  ASSUME IInv, SkipGroup
  PROVE  Coordination'
<1>1. /\ Together' /\ MasterBounds' /\ InStep' /\ NonRun'
      /\ Requests' /\ Flags' /\ Finish'
  BY DEF IInv, Coordination, SkipGroup, Together, AllComputing, AllResetting,
         AllIdle, Computing, Resetting, slaveVars, NextGroup, Due,
         MasterBounds, Steps, InStep, AllSent, NonRun, Armed, Passed,
         Requests, Peers, Group, Flags, Signalled, Finish
<1> QED
  BY <1>1 DEF Coordination

\* MPI_Testall: a group that is complete has its halo plane in place.
LEMMA TestStep ==
  ASSUME IInv, Test
  PROVE  Coordination'
<1>1. /\ Together' /\ MasterBounds' /\ InStep' /\ NonRun'
      /\ Requests'
  BY DEF IInv, Coordination, Test, Together, AllComputing, AllResetting,
         AllIdle, Computing, Resetting, slaveVars, MasterBounds, Steps,
         InStep, AllSent, NonRun, Armed, Passed, Requests, Peers, Group
<1>2. Flags'
  BY CoreGroupAssumption
  DEF IInv, Coordination, Test, Flags, Computing, Signalled, Group, slaveVars,
      TypeOK, Requests, Peers, Slave
<1>3. Finish'
  BY CoreGroupAssumption
  DEF IInv, Coordination, Test, Finish, Signalled, Group, slaveVars, TypeOK,
      Requests, Peers, Slave
<1> QED
  BY <1>1, <1>2, <1>3 DEF Coordination

\* The master leaves the spin only after slave 0 has cleared non_runnable.
LEMMA AwaitStep ==
  ASSUME IInv, Await
  PROVE  Coordination'
<1>1. Together' /\ Requests'
  BY DEF IInv, Coordination, Await, Together, AllComputing, AllResetting,
         AllIdle, Computing, Resetting, slaveVars, Requests, Peers, Group
<1>2. MasterBounds'
  <2>1. t < Steps /\ t \in Nat /\ Steps \in Nat
    BY StepsType DEF IInv, Coordination, TypeOK, MasterBounds, Await
  <2>2. Steps' = Steps
    BY DEF Await, Steps
  <2> QED
    BY <2>1, <2>2 DEF MasterBounds, Await
<1>3. InStep'
  <2>1. Passed
    BY DEF IInv, Coordination, TypeOK, NonRun, Armed, Await, Released
  <2>2. spc' = spc /\ st' = st /\ call' = call
    BY DEF Await, slaveVars
  <2>3. /\ t < Steps /\ t \in Nat /\ Steps \in Nat
        /\ Steps' = Steps /\ st[0] \in Nat
    BY CoreGroupAssumption, ZeroSlave
    DEF IInv, Coordination, TypeOK, MasterBounds, Await, Steps, WarmUp
  <2>4. /\ ~(AllIdle /\ AllComputing)
        /\ ~(AllIdle /\ AllResetting)
        /\ ~(AllComputing /\ AllResetting)
    BY ZeroSlave DEF AllIdle, AllComputing, AllResetting, Computing, Resetting
  <2>5. /\ mpc = "wait" /\ t' = t + 1
        /\ mpc' = IF t' < Steps THEN "post" ELSE "join"
    BY DEF Await
  <2>6. CASE AllResetting /\ st[0] = t /\ spc[0] = "barrier2"
    BY <2>2, <2>3, <2>4, <2>5, <2>6
    DEF IInv, Coordination, InStep, AllIdle, AllComputing, AllResetting,
        Computing, Resetting
  <2>7. CASE st[0] = t + 1
    BY <2>2, <2>3, <2>4, <2>5, <2>7
    DEF IInv, Coordination, InStep, AllIdle, AllComputing, AllResetting,
        Computing, Resetting
  <2> QED
    BY <2>1, <2>6, <2>7 DEF Passed
<1>4. NonRun'
  BY DEF IInv, Coordination, Await, Released, NonRun, Armed, Passed,
         AllResetting, Resetting, slaveVars, TypeOK
<1>5. Flags'
  BY ZeroSlave
  DEF IInv, Coordination, Await, Released, Flags, Computing, Signalled, Group,
      slaveVars, TypeOK, Together, MasterBounds, InStep, NonRun, AllSent,
      Passed, Armed, Steps, AllComputing, AllResetting, AllIdle, Resetting
<1>6. Finish'
  <2>1. Passed
    BY DEF IInv, Coordination, TypeOK, NonRun, Armed, Await, Released
  <2>2. ASSUME NEW i \in Slave, Computing(i) PROVE st[i] # t
    <3>1. st[i] = st[0] /\ t \in Nat
      BY DEF IInv, Coordination, Together, TypeOK
    <3>2. ~AllResetting
      BY <2>2 DEF AllResetting, Resetting, Computing
    <3> QED
      BY <3>1, <3>2, <2>1 DEF Passed
  <2> QED
    BY <2>2 DEF IInv, Coordination, Finish, Await, slaveVars, Computing
<1> QED
  BY <1>1, <1>2, <1>3, <1>4, <1>5, <1>6 DEF Coordination

\* athread_join: every slave is idle when the call returns.
LEMMA JoinStep ==
  ASSUME IInv, Join
  PROVE  Coordination'
<1>1. /\ Together' /\ MasterBounds' /\ NonRun' /\ Requests'
      /\ Flags' /\ Finish'
  BY DEF IInv, Coordination, Join, Together, AllComputing, AllResetting,
         AllIdle, Computing, Resetting, slaveVars, MasterBounds, Steps,
         NonRun, Armed, Passed, Requests, Peers, Group, Flags, Signalled,
         Finish
<1>2. InStep'
  BY DEF IInv, Coordination, Join, InStep, AllComputing, AllResetting,
         AllIdle, Computing, Resetting, AllSent, Steps, slaveVars, TypeOK
<1> QED
  BY <1>1, <1>2 DEF Coordination

\* MPI fills the halo plane of the master's step.
LEMMA CompleteStep ==
  ASSUME IInv, NEW g \in Group, Complete(g)
  PROVE  Coordination'
<1>1. /\ Together' /\ MasterBounds' /\ InStep' /\ NonRun'
      /\ Flags' /\ Finish'
  BY DEF IInv, Coordination, Complete, Together, AllComputing, AllResetting,
         AllIdle, Computing, Resetting, slaveVars, MasterBounds, Steps,
         InStep, AllSent, NonRun, Armed, Passed, Flags, Signalled, Group,
         Finish
<1>2. Requests'
  BY Parity
  DEF IInv, Coordination, TypeOK, Requests, Complete, Peers, slaveVars, Group
<1> QED
  BY <1>1, <1>2 DEF Coordination

\* stencil_7_com clears runnable0 as it starts.
LEMMA Clear0Step ==
  ASSUME IInv, NEW i \in Slave, Clear0(i)
  PROVE  Coordination'
<1>1. /\ Together' /\ MasterBounds' /\ InStep' /\ NonRun'
      /\ Requests' /\ Flags' /\ Finish'
  BY DEF IInv, Coordination, Clear0, Together, AllComputing, AllResetting,
         AllIdle, Computing, Resetting, masterVars, Goto, MasterBounds, Steps,
         InStep, AllSent, NonRun, Armed, Passed, Requests, Peers, Group,
         Flags, Signalled, Finish
<1> QED
  BY <1>1 DEF Coordination

\* stencil_7_com clears runnable1 as it starts.
LEMMA Clear1Step ==
  ASSUME IInv, NEW i \in Slave, Clear1(i)
  PROVE  Coordination'
<1>1. /\ Together' /\ MasterBounds' /\ InStep' /\ NonRun'
      /\ Requests' /\ Flags' /\ Finish'
  BY DEF IInv, Coordination, Clear1, Together, AllComputing, AllResetting,
         AllIdle, Computing, Resetting, masterVars, Goto, MasterBounds, Steps,
         InStep, AllSent, NonRun, Armed, Passed, Requests, Peers, Group,
         Flags, Signalled, Finish
<1> QED
  BY <1>1 DEF Coordination

\* The interior rows; the finish flags start at 0.
LEMMA MainStep ==
  ASSUME IInv, NEW i \in Slave, Main(i)
  PROVE  Coordination'
<1>1. /\ Together' /\ MasterBounds' /\ InStep' /\ NonRun'
      /\ Requests' /\ Flags'
  BY DEF IInv, Coordination, Main, Together, AllComputing, AllResetting,
         AllIdle, Computing, Resetting, masterVars, Goto, MasterBounds, Steps,
         InStep, AllSent, NonRun, Armed, Passed, Requests, Peers, Group,
         Flags, Signalled
<1>2. Finish'
  BY DEF IInv, Coordination, Main, Finish, Signalled, Group, masterVars, Goto,
         TypeOK
<1> QED
  BY <1>1, <1>2 DEF Coordination

\* A slave that sees runnable0 sees a flag of this step.
LEMMA Look0Step ==
  ASSUME IInv, NEW i \in Slave, Look0(i)
  PROVE  Coordination'
<1>1. MasterBounds' /\ Requests'
  BY DEF IInv, Coordination, Look0, MasterBounds, Steps, masterVars, Goto,
         Requests, Peers, Group
<1>2. Together'
  BY DEF IInv, Coordination, Look0, Together, AllComputing, AllResetting,
         AllIdle, Computing, Resetting, masterVars, Goto, TypeOK
<1>3. InStep'
  <2>1. spc[i] = "look0" /\ spc'[i] \in {"edge0", "look1"}
    BY DEF IInv, Coordination, TypeOK, Look0, Goto
  <2>2. \A j \in Slave : j # i => spc'[j] = spc[j]
    BY DEF IInv, Coordination, TypeOK, Look0, Goto
  <2>3. AllComputing /\ AllComputing' /\ ~AllResetting' /\ ~AllIdle'
    BY <2>1, <2>2
    DEF IInv, Coordination, Together, AllComputing, AllResetting, AllIdle,
        Computing, Resetting
  <2> QED
    BY <2>3, ZeroSlave
    DEF IInv, Coordination, InStep, AllSent, Look0, masterVars, Steps,
        AllIdle, AllComputing, Computing
<1>4. NonRun'
  BY DEF IInv, Coordination, Look0, NonRun, Armed, Passed, AllResetting,
         Resetting, masterVars, Goto, TypeOK
<1>5. Flags'
  BY DEF IInv, Coordination, Look0, Flags, Computing, Signalled, Group,
         masterVars, Goto, TypeOK
<1>6. Finish'
  <2>1. ASSUME NEW j \in Slave, NEW g \in Group, g \in fin'[j], g \notin fin[j]
        PROVE  j = i /\ g = 0 /\ run[0][i] # 0 
    BY <2>1 DEF IInv, Coordination, TypeOK, Look0, Sees
  <2>2. ASSUME NEW j \in Slave, j # i
        PROVE  spc'[j] = spc[j] /\ fin'[j] = fin[j]
    BY <2>2 DEF IInv, Coordination, TypeOK, Look0, Goto
  <2>3. run[0][i] # 0 => t = st[i] /\ Signalled(0, i)
    BY DEF IInv, Coordination, Flags, Computing, Look0, Group
  <2>4. \/ spc'[i] = "look1" /\ fin'[i] = fin[i]
        \/ spc'[i] = "edge0" /\ 0 \in fin'[i]
    BY DEF IInv, Coordination, TypeOK, Look0, Goto
  <2>5. UNCHANGED <<t, st, mpc, rflag, mg, mi>> /\ spc[i] = "look0"
    BY DEF Look0, masterVars
  <2> SUFFICES ASSUME NEW j \in Slave, NEW g \in Group
               PROVE  /\ g \in fin'[j] /\ spc'[j] \in {"look0", "look1",
                                            "edge0", "edge1", "barrier1"}
                           => t = st[j] /\ Signalled(g, j)
                      /\ spc'[j] = (IF g = 0 THEN "edge0" ELSE "edge1")
                           => g \in fin'[j]
                      /\ spc'[j] \in {"barrier1", "reset0", "reset1", "signal",
                                       "barrier2"}
                         => fin'[j] = Group
    BY <2>5 DEF Finish, Signalled
  <2>6. CASE j = i
    BY <2>1, <2>3, <2>4, <2>5, <2>6 DEF Group, IInv, Coordination, Finish
  <2>7. CASE j # i
    BY <2>2, <2>7 DEF IInv, Coordination, Finish
  <2> QED
    BY <2>6, <2>7
<1> QED
  BY <1>1, <1>2, <1>3, <1>4, <1>5, <1>6 DEF Coordination

\* A slave that sees runnable1 sees a flag of this step.
LEMMA Look1Step ==
  ASSUME IInv, NEW i \in Slave, Look1(i)
  PROVE  Coordination'
<1>1. MasterBounds' /\ Requests'
  BY DEF IInv, Coordination, Look1, MasterBounds, Steps, masterVars, Goto,
         Requests, Peers, Group
<1>2. Together'
  BY DEF IInv, Coordination, Look1, Together, AllComputing, AllResetting,
         AllIdle, Computing, Resetting, masterVars, Goto, TypeOK
<1>3. InStep'
  <2>1. spc[i] = "look1" /\ spc'[i] \in {"edge1", "look0"}
    BY DEF IInv, Coordination, TypeOK, Look1, Goto
  <2>2. \A j \in Slave : j # i => spc'[j] = spc[j]
    BY DEF IInv, Coordination, TypeOK, Look1, Goto
  <2>3. AllComputing /\ AllComputing' /\ ~AllResetting' /\ ~AllIdle'
    BY <2>1, <2>2
    DEF IInv, Coordination, Together, AllComputing, AllResetting, AllIdle,
        Computing, Resetting
  <2> QED
    BY <2>3, ZeroSlave
    DEF IInv, Coordination, InStep, AllSent, Look1, masterVars, Steps,
        AllIdle, AllComputing, Computing
<1>4. NonRun'
  BY DEF IInv, Coordination, Look1, NonRun, Armed, Passed, AllResetting,
         Resetting, masterVars, Goto, TypeOK
<1>5. Flags'
  BY DEF IInv, Coordination, Look1, Flags, Computing, Signalled, Group,
         masterVars, Goto, TypeOK
<1>6. Finish'
  <2>1. ASSUME NEW j \in Slave, NEW g \in Group, g \in fin'[j], g \notin fin[j]
        PROVE  j = i /\ g = 1 /\ run[1][i] # 0 
    BY <2>1 DEF IInv, Coordination, TypeOK, Look1, Sees
  <2>2. ASSUME NEW j \in Slave, j # i
        PROVE  spc'[j] = spc[j] /\ fin'[j] = fin[j]
    BY <2>2 DEF IInv, Coordination, TypeOK, Look1, Goto
  <2>3. run[1][i] # 0 => t = st[i] /\ Signalled(1, i)
    BY DEF IInv, Coordination, Flags, Computing, Look1, Group
  <2>4. \/ spc'[i] = "look0" /\ fin'[i] = fin[i]
        \/ spc'[i] = "edge1" /\ 1 \in fin'[i]
    BY DEF IInv, Coordination, TypeOK, Look1, Goto
  <2>5. UNCHANGED <<t, st, mpc, rflag, mg, mi>> /\ spc[i] = "look1"
    BY DEF Look1, masterVars
  <2> SUFFICES ASSUME NEW j \in Slave, NEW g \in Group
               PROVE  /\ g \in fin'[j] /\ spc'[j] \in {"look0", "look1",
                                            "edge0", "edge1", "barrier1"}
                           => t = st[j] /\ Signalled(g, j)
                      /\ spc'[j] = (IF g = 0 THEN "edge0" ELSE "edge1")
                           => g \in fin'[j]
                      /\ spc'[j] \in {"barrier1", "reset0", "reset1", "signal",
                                       "barrier2"}
                         => fin'[j] = Group
    BY <2>5 DEF Finish, Signalled
  <2>6. CASE j = i
    BY <2>1, <2>3, <2>4, <2>5, <2>6 DEF Group, IInv, Coordination, Finish
  <2>7. CASE j # i
    BY <2>2, <2>7 DEF IInv, Coordination, Finish
  <2> QED
    BY <2>6, <2>7
<1> QED
  BY <1>1, <1>2, <1>3, <1>4, <1>5, <1>6 DEF Coordination

\* An edge plane; the slave leaves the loop with both finish flags set.
LEMMA EdgeStep ==
  ASSUME IInv, NEW i \in Slave, NEW g \in Group, Edge(i, g)
  PROVE  Coordination'
<1>1. /\ Together' /\ MasterBounds' /\ InStep' /\ Requests'
      /\ Flags' /\ Finish'
  BY DEF IInv, Coordination, Edge, Together, AllComputing, AllResetting,
         AllIdle, Computing, Resetting, masterVars, Goto, MasterBounds, Steps,
         InStep, AllSent, Requests, Peers, Group, Flags, Signalled, Finish
<1>2. NonRun'
  <2>1. Computing(i) /\ ~Resetting(i)
    BY DEF Edge, Computing, Resetting, Group
  <2>2. Computing(i)' /\ ~Resetting(i)'
    BY DEF IInv, Coordination, TypeOK, Edge, Goto, Computing, Resetting, Group
  <2>3. ~AllResetting /\ ~AllResetting'
    BY <2>1, <2>2 DEF AllResetting
  <2> QED
    BY <2>3 DEF IInv, Coordination, NonRun, Armed, Passed, Edge, masterVars
<1> QED
  BY <1>1, <1>2 DEF Coordination

\* The slave clears runnable0 after the first barrier.
LEMMA Reset0Step ==
  ASSUME IInv, NEW i \in Slave, Reset0(i)
  PROVE  Coordination'
<1>1. /\ Together' /\ MasterBounds' /\ InStep' /\ NonRun'
      /\ Requests' /\ Finish'
  BY DEF IInv, Coordination, Reset0, Together, AllComputing, AllResetting,
         AllIdle, Computing, Resetting, masterVars, Goto, MasterBounds, Steps,
         InStep, AllSent, NonRun, Armed, Passed, Requests, Peers, Group,
         Finish, Signalled
<1>2. Flags'
  BY DEF IInv, Coordination, Reset0, Flags, Computing, Signalled, Group,
         masterVars, Goto, TypeOK
<1> QED
  BY <1>1, <1>2 DEF Coordination

\* The slave clears runnable1 after the first barrier.
LEMMA Reset1Step ==
  ASSUME IInv, NEW i \in Slave, Reset1(i)
  PROVE  Coordination'
<1>1. /\ Together' /\ MasterBounds' /\ InStep' /\ NonRun'
      /\ Requests' /\ Finish'
  BY DEF IInv, Coordination, Reset1, Together, AllComputing, AllResetting,
         AllIdle, Computing, Resetting, masterVars, Goto, MasterBounds, Steps,
         InStep, AllSent, NonRun, Armed, Passed, Requests, Peers, Group,
         Finish, Signalled
<1>2. Flags'
  BY DEF IInv, Coordination, Reset1, Flags, Computing, Signalled, Group,
         masterVars, Goto, TypeOK
<1> QED
  BY <1>1, <1>2 DEF Coordination

\* Slave 0 clears non_runnable, in the master's step.
LEMMA SignalStep ==
  ASSUME IInv, NEW i \in Slave, Signal(i)
  PROVE  Coordination'
<1>1. /\ Together' /\ MasterBounds' /\ InStep' /\ Requests'
      /\ Flags' /\ Finish'
  BY DEF IInv, Coordination, Signal, Together, AllComputing, AllResetting,
         AllIdle, Computing, Resetting, masterVars, Goto, MasterBounds, Steps,
         InStep, AllSent, Requests, Peers, Group, Flags, Signalled, Finish
<1>2. NonRun'
  <2>1. i = 0 /\ spc[0] = "signal" /\ spc' = [spc EXCEPT ![0] = "barrier2"]
    BY DEF IInv, Coordination, Together, Signal, Goto
  <2>2. AllResetting /\ AllResetting' /\ spc'[0] = "barrier2"
    BY <2>1, ZeroSlave
    DEF IInv, Coordination, TypeOK, Together, AllResetting, AllComputing,
        AllIdle, Resetting, Computing
  <2>3. st[0] = t
    BY <2>1, <2>2, ZeroSlave DEF IInv, Coordination, InStep
  <2> QED
    BY <2>2, <2>3 DEF NonRun, Passed, Signal, masterVars
<1> QED
  BY <1>1, <1>2 DEF Coordination

\* All slaves are done: the master has written every flag.
LEMMA Barrier1Step ==
  ASSUME IInv, Barrier1
  PROVE  Coordination'
<1>1. MasterBounds' /\ Requests'
  BY DEF IInv, Coordination, Barrier1, MasterBounds, Steps, masterVars,
         Requests, Peers, Group
<1>2. Together'
  BY DEF IInv, Coordination, Barrier1, Together, AllComputing, AllResetting,
         AllIdle, Computing, Resetting, masterVars
<1>3. InStep'
  <2>1. \A i \in Slave, g \in Group : t = st[i] /\ Signalled(g, i)
    BY DEF IInv, Coordination, Finish, Barrier1
  <2>2. \A g \in Group : rflag[g] # 0
    BY <2>1, ZeroSlave DEF Signalled
  <2>3. ThreadNum - 1 \in Slave
    BY CoreGroupAssumption DEF Slave
  <2>4. ~(mpc \in {"none", "set"} /\ mi > 0)
    BY <2>1, <2>3, CoreGroupAssumption
    DEF IInv, Coordination, TypeOK, Slave, Signalled, Group
  <2>5. AllSent
    BY <2>1, <2>2, <2>4, ZeroSlave
    DEF IInv, Coordination, TypeOK, Requests, AllSent, Signalled, Group,
        Slave
  <2>6. AllComputing /\ st[0] < Steps /\ t = st[0]
    <3>1. AllComputing
      BY DEF Barrier1, AllComputing, Computing
    <3>2. t = st[0]
      BY <2>1, ZeroSlave DEF Group
    <3> QED
      BY <3>1, <3>2 DEF IInv, Coordination, InStep
  <2>7. AllResetting' /\ ~AllComputing' /\ ~AllIdle'
    BY ZeroSlave
    DEF Barrier1, AllResetting, AllComputing, AllIdle, Resetting, Computing
  <2>8. mpc \notin {"spawn", "return"}
    BY <2>5 DEF AllSent
  <2> QED
    BY <2>5, <2>6, <2>7, <2>8 DEF InStep, Barrier1, AllSent, masterVars, Steps
<1>4. NonRun'
  BY ZeroSlave
  DEF IInv, Coordination, Barrier1, NonRun, Armed, Passed, AllResetting,
      Resetting, masterVars, TypeOK, Group
<1>5. Flags'
  BY DEF IInv, Coordination, Barrier1, Flags, Computing, Signalled, Group,
         masterVars
<1>6. Finish'
  BY DEF IInv, Coordination, Barrier1, Finish, Signalled, Group, masterVars
<1> QED
  BY <1>1, <1>2, <1>3, <1>4, <1>5, <1>6 DEF Coordination

\* The slaves enter the next step together, or end.
LEMMA Barrier2Step ==
  ASSUME IInv, Barrier2
  PROVE  Coordination'
<1>1. MasterBounds' /\ Requests' /\ Finish'
  BY DEF IInv, Coordination, Barrier2, MasterBounds, Steps, masterVars,
         Requests, Peers, Group, Finish, Signalled
<1>2. Together'
  BY ZeroSlave
  DEF IInv, Coordination, Barrier2, Together, AllComputing, AllResetting,
      AllIdle, Computing, Resetting, masterVars, TypeOK, Group
<1>3. InStep'
  <2>1. AllResetting /\ ~AllIdle
    BY ZeroSlave DEF Barrier2, AllResetting, AllIdle, Resetting
  <2>2. /\ st[0] < Steps
        /\ (t = st[0] /\ AllSent) \/ t = st[0] + 1
    BY <2>1 DEF IInv, Coordination, InStep
  <2>3. st'[0] = st[0] + 1
    BY ZeroSlave DEF Barrier2
  <2>4. /\ mpc \notin {"spawn", "return"}
        /\ UNCHANGED <<mpc, t, mg, mi, rflag, call>>
    BY <2>1 DEF IInv, Coordination, InStep, Barrier2, masterVars
  <2>5. Steps' = Steps /\ Steps \in Nat /\ st[0] \in Nat /\ t \in Nat
    BY <2>4, ZeroSlave, CoreGroupAssumption DEF Steps, WarmUp, IInv, TypeOK
  <2>6. AllSent' = AllSent
    BY <2>4 DEF AllSent
  <2>7. CASE st[0] + 1 < Steps
    <3>1. AllComputing' /\ ~AllResetting' /\ ~AllIdle'
      BY <2>7, ZeroSlave
      DEF Barrier2, IInv, Coordination, TypeOK, Together, AllComputing,
          AllResetting, AllIdle, Computing, Resetting
    <3> QED
      BY <3>1, <2>2, <2>3, <2>4, <2>5, <2>6, <2>7 DEF InStep
  <2>8. CASE st[0] + 1 = Steps
    <3>1. AllIdle' /\ ~AllResetting' /\ ~AllComputing'
      BY <2>8, <2>5, ZeroSlave
      DEF Barrier2, IInv, Coordination, TypeOK, Together, AllComputing,
          AllResetting, AllIdle, Computing, Resetting
    <3>2. t = Steps => mpc = "join"
      BY <2>4, <2>5 DEF IInv, Coordination, TypeOK, MasterPC, MasterBounds
    <3> QED
      BY <3>1, <3>2, <2>2, <2>3, <2>4, <2>5, <2>6, <2>8 DEF InStep
  <2> QED
    BY <2>2, <2>5, <2>7, <2>8
<1>4. NonRun'
  BY ZeroSlave
  DEF IInv, Coordination, Barrier2, NonRun, Armed, Passed, AllResetting,
      Resetting, masterVars, TypeOK, Together, InStep, AllSent, AllComputing,
      AllIdle, Computing
<1>5. Flags'
  BY ZeroSlave
  DEF IInv, Coordination, Barrier2, Flags, Computing, Signalled, Group,
      masterVars, TypeOK, Together, MasterBounds, InStep, NonRun, AllSent,
      Passed, Armed, Steps, AllComputing, AllResetting, AllIdle, Resetting
<1> QED
  BY <1>1, <1>2, <1>3, <1>4, <1>5 DEF Coordination


-----------------------------------------------------------------------------
(* The invariant and what follows from it.                                 *)

\* The program starts before any slave is spawned, with every flag clear.
LEMMA InitInv == Init => IInv
<1> SUFFICES ASSUME Init PROVE IInv
  OBVIOUS
<1>1. TypeOK
  BY CoreGroupAssumption
  DEF Init, TypeOK, MasterPC, SlavePC, Slave, Group, Part, Garbage
<1>2. AllIdle /\ Together
  BY ZeroSlave DEF Init, Together, AllIdle
<1>3. ~AllComputing /\ ~AllResetting
  BY ZeroSlave DEF Init, AllComputing, AllResetting, Computing, Resetting
<1>4. InStep
  BY <1>2, <1>3 DEF Init, InStep
<1>5. MasterBounds /\ NonRun
  BY DEF Init, MasterBounds, NonRun, Armed
<1>6. Requests
  BY DEF Init, Requests
<1>7. Flags /\ Finish
  BY DEF Init, Flags, Finish, Group
<1> QED
  BY <1>1, <1>2, <1>4, <1>5, <1>6, <1>7 DEF IInv, Coordination

\* No step of the process breaks the invariant.
LEMMA InvStep == IInv /\ [Next]_vars => IInv'
<1> SUFFICES ASSUME IInv, [Next]_vars PROVE IInv'
  OBVIOUS
<1>1. TypeOK'
  BY TypeStep DEF IInv
<1>2. CASE Next
  BY <1>2, SpawnStep, PostStep, ArmStep, WriteFlagStep, SkipGroupStep,
     TestStep, AwaitStep, JoinStep, CompleteStep, Clear0Step, Clear1Step,
     MainStep, Look0Step, Look1Step, EdgeStep, Reset0Step, Reset1Step,
     SignalStep, Barrier1Step, Barrier2Step, <1>1
  DEF Next, Master, SlaveStep, IInv
<1>3. CASE UNCHANGED vars
  <2>1. /\ Together' = Together /\ MasterBounds' = MasterBounds
        /\ InStep' = InStep /\ NonRun' = NonRun
    BY <1>3
    DEF vars, masterVars, slaveVars, Together, MasterBounds, InStep, NonRun,
        AllComputing, AllResetting, AllIdle, Computing, Resetting, Armed,
        Passed, AllSent, Steps
  <2>2. Requests' = Requests /\ Flags' = Flags /\ Finish' = Finish
    BY <1>3
    DEF vars, masterVars, slaveVars, Requests, Flags, Finish, Peers, Computing,
        Signalled
  <2> QED
    BY <1>1, <2>1, <2>2 DEF IInv, Coordination
<1> QED
  BY <1>2, <1>3

\* The coordination of master and slaves holds in every reachable state.
THEOREM Coordinated == Spec => []IInv
  BY InitInv, InvStep, PTL DEF Spec

\* The invariant implies FlagFresh.
LEMMA FreshNow == IInv => FlagFresh
<1> SUFFICES ASSUME IInv, NEW i \in Slave, NEW g \in Group,
                    spc[i] = IF g = 0 THEN "edge0" ELSE "edge1"
             PROVE  t = st[i] /\ HaloHolds(Src(t), g, t)
  BY DEF FlagFresh
<1>1. t = st[i] /\ Signalled(g, i)
  BY DEF IInv, Coordination, Finish, Group
<1>2. g \in Peers => req[g] = "complete"
  BY <1>1 DEF IInv, Coordination, Requests, Signalled
<1>3. g \in Peers => halo[Src(t)][g] = t
  BY <1>1, <1>2 DEF IInv, Coordination, Requests, Signalled
<1> QED
  BY <1>1, <1>3 DEF HaloHolds

\* A slave that computes an edge plane acts on a flag of the master's present
\* step and finds the halo plane of that step.
THEOREM FlagsAreFresh == Spec => []FlagFresh
  BY FreshNow, Coordinated, PTL

\* No slave reads what another one writes or what MPI is still receiving, and
\* none writes what MPI is still sending.
THEOREM NoRaces == Spec => []RaceFree
<1>1. IInv => RaceFree
  <2> SUFFICES ASSUME IInv PROVE RaceFree
    OBVIOUS
  <2>1. ASSUME NEW i \in Slave
        PROVE  /\ st[i] = st[0] /\ st[i] \in Nat
               /\ Dest(st[i]) # Src(st[i])
    BY ZeroSlave, Parity DEF IInv, Coordination, TypeOK, Together
  <2>2. ASSUME NEW i \in Slave, NEW j \in Slave
        PROVE  Reads(i) \cap Writes(j) = {}
    <3>1. \A c \in Reads(i) : c[1] = Src(st[0])
      BY <2>1 DEF Reads
    <3>2. \A c \in Writes(j) : c[1] = Dest(st[0])
      BY <2>1 DEF Writes
    <3> QED
      BY <3>1, <3>2, <2>1, ZeroSlave
  <2>3. ASSUME NEW i \in Slave, NEW g \in Group, req[g] = "posted"
        PROVE  Sends(g) \notin Writes(i) /\ Receives(g) \notin Reads(i)
    <3>1. rflag[g] = 0 /\ ~AllSent /\ mpc \notin {"spawn", "return", "join"}
      BY <2>3 DEF IInv, Coordination, Requests, AllSent
    <3>2. Computing(i) => t = st[i]
      <4>1. Computing(i) => AllComputing
        BY DEF IInv, Coordination, Together, AllComputing, AllResetting,
               AllIdle, Computing, Resetting
      <4> QED
        BY <4>1, <3>1, <2>1 DEF IInv, Coordination, InStep
    <3>3. Sends(g) \notin Writes(i)
      BY <2>1, <3>2 DEF Sends, Writes, Computing
    <3>4. spc[i] # IF g = 0 THEN "edge0" ELSE "edge1"
      BY <3>1 DEF IInv, Coordination, Finish, Signalled, Group
    <3>5. Receives(g) \notin Reads(i)
      BY <3>4 DEF Receives, Reads, Part, Group
    <3> QED
      BY <3>3, <3>5
  <2> QED
    BY <2>2, <2>3 DEF RaceFree
<1> QED
  BY <1>1, Coordinated, PTL

\* non_runnable falls only after every slave has finished both edge planes.
THEOREM SlavesClearLast == Spec => ClearsLast
<1>1. IInv /\ [Next]_vars =>
        [nonRun = 1 /\ nonRun' = 0
           => \A i \in Slave : fin[i] = Group /\ st[i] = t]_vars
  <2> SUFFICES ASSUME IInv, Next, nonRun = 1, nonRun' = 0
               PROVE  \A i \in Slave : fin[i] = Group /\ st[i] = t
    BY DEF vars
  <2>1. ~Spawn
    BY DEF Spawn, IInv, Coordination, NonRun, Armed
  <2>2. PICK i \in Slave : Signal(i)
    BY <2>1
    DEF Next, Master, SlaveStep, Post, Arm, WriteFlag, SkipGroup, Test, Await,
        Join, Complete, Clear0, Clear1, Main, Look0, Look1, Edge, Reset0,
        Reset1, Barrier1, Barrier2
  <2>3. AllResetting /\ spc[0] = "signal"
    BY <2>2
    DEF Signal, IInv, Coordination, Together, AllComputing, AllResetting,
        AllIdle, Computing, Resetting
  <2>4. t = st[0]
    BY <2>3 DEF IInv, Coordination, InStep
  <2>5. \A j \in Slave : fin[j] = Group
    BY <2>3, ZeroSlave
    DEF AllResetting, Resetting, IInv, Coordination, Finish, Group
  <2> QED
    BY <2>4, <2>5 DEF IInv, Coordination, Together
<1> QED
  BY <1>1, Coordinated, PTL DEF Spec, ClearsLast


-----------------------------------------------------------------------------
(***************************************************************************)
(* What the arrays hold: CallResult and SendReady; and that no flag is     *)
(* lost in the first step of a call of stencil_27.                         *)
(*                                                                         *)
(* The invariant Contents adds to the coordination above what it is good   *)
(* for: the array of the slaves' step is complete, and what a slave has    *)
(* written of the next one is right.                                       *)
(***************************************************************************)

\* Slave i has written its inner rows of the step.
PastMain(i) == spc[i] \in {"look0", "look1", "edge0", "edge1", "barrier1",
                           "reset0", "reset1", "signal", "barrier2"}

\* What slave i has written of the array of the next step.
Written(i) ==
  PastMain(i) =>
    /\ mem[Dest(st[i])][i]["rows"] = st[i] + 1
    /\ \A g \in fin[i] :
         spc[i] # (IF g = 0 THEN "edge0" ELSE "edge1") =>
           mem[Dest(st[i])][i][EdgePart(g)] = st[i] + 1

\* The array of the slaves' step is complete, and the warm-up leaves the input
\* in place.
Contents ==
  /\ mpc # "spawn" => Holds(Src(st[0]), st[0])
  /\ mpc = "spawn" \/ call = 1 => Holds(0, 0)
  /\ \A i \in Slave : Written(i)

\* A step of a slave that writes nothing and does not pass the first rows.
LEMMA QuietStep ==
  ASSUME IInv, Contents, UNCHANGED <<call, mem, st, fin>>,
         mpc' = "spawn" => mpc = "spawn", mpc = "spawn" => mpc' = "spawn",
         \A i \in Slave :
           PastMain(i)' => /\ PastMain(i)
                           /\ spc[i] \in {"edge0", "edge1"} => spc'[i] = spc[i]
  PROVE  Contents'
<1>1. \A b, s : Holds(b, s)' <=> Holds(b, s)
  BY DEF Holds
<1>2. ASSUME NEW i \in Slave PROVE Written(i)'
  BY DEF Contents, Written, PastMain, Dest, EdgePart
<1> QED
  BY <1>1, <1>2 DEF Contents, Src

\* A slave writes a part of the array of the next step, from inputs that are
\* all of this step.
LEMMA WriteKeeps ==
  ASSUME IInv, Contents, NEW i \in Slave, NEW p \in Part, Write(i, p, TRUE),
         Computing(i), UNCHANGED <<call, mpc, st>>
  PROVE  /\ mem'[Dest(st[i])][i][p] = st[i] + 1
         /\ \A q \in Part : q # p =>
              mem'[Dest(st[i])][i][q] = mem[Dest(st[i])][i][q]
         /\ \A j \in Slave : j # i =>
              mem'[Dest(st[i])][j] = mem[Dest(st[i])][j]
         /\ (mpc # "spawn" => Holds(Src(st[0]), st[0]))'
         /\ (mpc = "spawn" \/ call = 1 => Holds(0, 0))'
<1>1. /\ st[i] = st[0] /\ st[i] \in Nat /\ 0 \in Slave
      /\ Dest(st[i]) \in {0, 1} /\ Src(st[i]) \in {0, 1}
      /\ Dest(st[i]) # Src(st[i])
  BY ZeroSlave, Parity DEF IInv, Coordination, TypeOK, Together
<1>2. mem' = [mem EXCEPT ![Dest(st[i])][i][p] = st[i] + 1]
  BY DEF Write
<1>3. mem'[Src(st[i])] = mem[Src(st[i])]
  BY <1>1, <1>2 DEF IInv, TypeOK
<1>4. AllComputing
  BY DEF IInv, Coordination, Together, AllComputing, AllResetting, AllIdle,
         Computing, Resetting
<1>5. call = 1 => Dest(st[i]) = 1
  BY <1>1, <1>4 DEF IInv, Coordination, InStep, Steps, WarmUp, Dest
<1>6. mpc # "spawn"
  BY <1>1, <1>4
  DEF IInv, Coordination, InStep, AllIdle, AllComputing, Computing
<1>7. call = 1 => mem'[0] = mem[0]
  BY <1>1, <1>2, <1>5 DEF IInv, TypeOK
<1> QED
  BY <1>1, <1>2, <1>3, <1>6, <1>7 DEF IInv, TypeOK, Contents, Holds, Src

\* Every step keeps the contents of the arrays right.
LEMMA ContentsStep == IInv /\ Contents /\ [Next]_vars => Contents'
<1> SUFFICES ASSUME IInv, Contents, [Next]_vars PROVE Contents'
  OBVIOUS
<1> USE ZeroSlave DEF slaveVars, masterVars
<1>1. CASE Spawn
  <2>1. /\ mpc = "spawn" /\ mpc' = "post" /\ UNCHANGED <<call, mem>>
        /\ st' = [i \in Slave |-> 0] /\ spc' = [i \in Slave |-> Entry]
    BY <1>1 DEF Spawn
  <2>2. Holds(0, 0)'
    BY <2>1 DEF Contents, Holds
  <2>3. Src(st'[0]) = 0 /\ st'[0] = 0
    BY <2>1 DEF Src
  <2>4. \A i \in Slave : ~PastMain(i)'
    BY <2>1 DEF PastMain, Entry
  <2> QED
    BY <2>1, <2>2, <2>3, <2>4 DEF Contents, Written
<1>2. CASE Join
  <2>1. \A b, s : Holds(b, s)' <=> Holds(b, s)
    BY <1>2 DEF Join, Holds
  <2>2. \A i \in Slave : Written(i)'
    BY <1>2 DEF Join, Contents, Written, PastMain, Dest, EdgePart
  <2> QED
    BY <1>2, <2>1, <2>2 DEF Join, Contents, Src
<1>3. CASE Post \/ Arm \/ WriteFlag \/ SkipGroup \/ Test \/ Await
  BY <1>3, QuietStep
  DEF Post, Arm, WriteFlag, SkipGroup, Test, Await, NextGroup, PastMain
<1>4. ASSUME NEW g \in Group, Complete(g) PROVE Contents'
  BY <1>4, QuietStep DEF Complete, PastMain
<1>5. ASSUME NEW i \in Slave,
             Clear0(i) \/ Clear1(i) \/ Reset0(i) \/ Reset1(i) \/ Signal(i)
      PROVE  Contents'
  <2>1. UNCHANGED <<call, mpc, mem, st, fin>>
    BY <1>5 DEF Clear0, Clear1, Reset0, Reset1, Signal
  <2>2. \A j \in Slave :
          PastMain(j)' => /\ PastMain(j)
                          /\ spc[j] \in {"edge0", "edge1"} => spc'[j] = spc[j]
    BY <1>5
    DEF Clear0, Clear1, Reset0, Reset1, Signal, Goto, PastMain, IInv, TypeOK
  <2> QED
    BY <2>1, <2>2, QuietStep
<1>6. ASSUME NEW i \in Slave, Main(i) PROVE Contents'
  <2>1. /\ spc[i] = "main" /\ UNCHANGED <<call, mpc, st>>
        /\ fin' = [fin EXCEPT ![i] = {}]
        /\ spc' = [spc EXCEPT ![i] = "look0"]
        /\ Write(i, "rows", Holds(Src(st[i]), st[i]))
    BY <1>6 DEF Main, Goto
  <2>2. Holds(Src(st[i]), st[i])
    BY <2>1 DEF IInv, Coordination, Together, InStep, AllIdle, Contents
  <2>3. Write(i, "rows", TRUE) /\ Computing(i) /\ "rows" \in Part
    BY <2>1, <2>2 DEF Write, Computing, Part
  <2>4. ASSUME NEW j \in Slave PROVE Written(j)'
    <3>1. CASE j = i
      BY <2>1, <2>3, <3>1, WriteKeeps DEF Written, IInv, TypeOK
    <3>2. CASE j # i
      <4>1. mem'[Dest(st[i])][j] = mem[Dest(st[i])][j] /\ st[j] = st[i]
        BY <2>1, <2>3, <3>2, WriteKeeps DEF IInv, Coordination, Together
      <4>2. spc'[j] = spc[j] /\ fin'[j] = fin[j]
        BY <2>1, <3>2 DEF IInv, TypeOK
      <4>3. Written(j)
        BY DEF Contents
      <4> QED
        BY <2>1, <4>1, <4>2, <4>3 DEF Written, PastMain, Dest, EdgePart
    <3> QED
      BY <3>1, <3>2
  <2> QED
    BY <2>1, <2>3, <2>4, WriteKeeps DEF Contents
<1>7. ASSUME NEW i \in Slave, Look0(i) \/ Look1(i) PROVE Contents'
  <2>1. UNCHANGED <<call, mpc, mem, st>>
    BY <1>7 DEF Look0, Look1
  <2>2. \A b, s : Holds(b, s)' <=> Holds(b, s)
    BY <2>1 DEF Holds
  <2>3. ASSUME NEW j \in Slave PROVE Written(j)'
    <3>1. PastMain(j)' => PastMain(j)
      BY <1>7 DEF Look0, Look1, Goto, PastMain, IInv, TypeOK
    <3>2. \A g \in fin'[j] :
            g \in fin[j] \/ spc'[j] = (IF g = 0 THEN "edge0" ELSE "edge1")
      <4>1. CASE fin'[j] = fin[j]
        BY <4>1
      <4>2. CASE fin'[j] # fin[j]
        <5>1. \/ fin' = [fin EXCEPT ![i] = @ \cup {0}] /\ Goto(i, "edge0")
              \/ fin' = [fin EXCEPT ![i] = @ \cup {1}] /\ Goto(i, "edge1")
          BY <1>7, <4>2, Zenon DEF Look0, Look1
        <5>2. j = i
          BY <4>2, <5>1 DEF IInv, TypeOK
        <5>3. \/ fin'[j] = fin[j] \cup {0} /\ spc'[j] = "edge0"
              \/ fin'[j] = fin[j] \cup {1} /\ spc'[j] = "edge1"
          BY <5>1, <5>2 DEF Goto, IInv, TypeOK
        <5> QED
          BY <5>3
      <4> QED
        BY <4>1, <4>2
    <3>3. spc[j] \in {"edge0", "edge1"} => spc'[j] = spc[j]
      BY <1>7 DEF Look0, Look1, Goto, IInv, TypeOK
    <3> QED
      BY <2>1, <3>1, <3>2, <3>3 DEF Contents, Written, Dest, EdgePart
  <2> QED
    BY <2>1, <2>2, <2>3 DEF Contents, Src
<1>8. ASSUME NEW i \in Slave, NEW g \in Group, Edge(i, g) PROVE Contents'
  <2> DEFINE l == IF fin[i] = Group THEN "barrier1" ELSE "look0"
  <2>1. /\ spc[i] = (IF g = 0 THEN "edge0" ELSE "edge1")
        /\ UNCHANGED <<call, mpc, st, fin>>
        /\ spc' = [spc EXCEPT ![i] = l]
        /\ Write(i, EdgePart(g), /\ Holds(Src(st[i]), st[i])
                                 /\ HaloHolds(Src(st[i]), g, st[i]))
    BY <1>8 DEF Edge, Goto
  <2>2. Holds(Src(st[i]), st[i])
    BY <2>1 DEF IInv, Coordination, Together, InStep, AllIdle, Contents
  <2>3. HaloHolds(Src(st[i]), g, st[i])
    BY <2>1, FreshNow DEF FlagFresh
  <2>4. Write(i, EdgePart(g), TRUE) /\ Computing(i) /\ EdgePart(g) \in Part
    BY <2>1, <2>2, <2>3 DEF Write, Computing, Part, EdgePart
  <2>5. ASSUME NEW j \in Slave PROVE Written(j)'
    <3>1. CASE j = i
      <4>1. /\ mem'[Dest(st[i])][i][EdgePart(g)] = st[i] + 1
            /\ \A q \in Part : q # EdgePart(g) =>
                 mem'[Dest(st[i])][i][q] = mem[Dest(st[i])][i][q]
        BY <2>1, <2>4, WriteKeeps
      <4>2. /\ mem[Dest(st[i])][i]["rows"] = st[i] + 1
            /\ \A h \in fin[i] : h # g =>
                 mem[Dest(st[i])][i][EdgePart(h)] = st[i] + 1
        BY <2>1 DEF Contents, Written, PastMain, IInv, TypeOK, Group
      <4>3. /\ fin[i] \subseteq Group /\ "rows" \in Part /\ "rows" # EdgePart(g)
            /\ \A h \in Group : /\ EdgePart(h) \in Part
                                /\ h # g => EdgePart(h) # EdgePart(g)
        BY DEF IInv, TypeOK, Group, Part, EdgePart
      <4> QED
        BY <2>1, <3>1, <4>1, <4>2, <4>3 DEF Written, Dest, EdgePart
    <3>2. CASE j # i
      <4>1. mem'[Dest(st[i])][j] = mem[Dest(st[i])][j] /\ st[j] = st[i]
        BY <2>1, <2>4, <3>2, WriteKeeps DEF IInv, Coordination, Together
      <4>2. spc'[j] = spc[j] /\ fin'[j] = fin[j]
        BY <2>1, <3>2 DEF IInv, TypeOK
      <4>3. Written(j)
        BY DEF Contents
      <4> QED
        BY <2>1, <4>1, <4>2, <4>3 DEF Written, PastMain, Dest, EdgePart
    <3> QED
      BY <3>1, <3>2
  <2> QED
    BY <2>1, <2>4, <2>5, WriteKeeps DEF Contents
<1>9. CASE Barrier1
  BY <1>9, QuietStep DEF Barrier1, PastMain
<1>10. CASE Barrier2
  <2>1. /\ UNCHANGED <<call, mpc, mem>>
        /\ \A i \in Slave : spc[i] = "barrier2"
        /\ st' = [i \in Slave |-> st[i] + 1]
        /\ \A i \in Slave : spc'[i] \in {"main", "idle"}
    BY <1>10 DEF Barrier2
  <2>2. /\ st[0] \in Nat /\ \A i \in Slave : st[i] = st[0] /\ fin[i] = Group
    BY <2>1 DEF IInv, Coordination, Together, Finish, TypeOK, Group
  <2>3. ASSUME NEW i \in Slave, NEW p \in Part
        PROVE  mem[Dest(st[0])][i][p] = st[0] + 1
    <3>1. p = "rows" \/ \E g \in Group : p = EdgePart(g)
      BY DEF Part, EdgePart, Group
    <3> QED
      BY <2>1, <2>2, <3>1 DEF Contents, Written, PastMain
  <2>4. Holds(Src(st[0]), st[0])'
    BY <2>1, <2>2, <2>3, Parity DEF Holds, Src
  <2>5. \A b, s : Holds(b, s)' <=> Holds(b, s)
    BY <2>1 DEF Holds
  <2> QED
    BY <2>1, <2>4, <2>5 DEF Contents, Written, PastMain
<1>11. CASE UNCHANGED vars
  BY <1>11, QuietStep DEF vars, PastMain
<1> QED
  BY <1>1, <1>2, <1>3, <1>4, <1>5, <1>6, <1>7, <1>8, <1>9, <1>10, <1>11
  DEF Next, Master, SlaveStep

\* The contents of the arrays are right in every reachable state.
THEOREM ArraysAreRight == Spec => []Contents
<1>1. Init => Contents
  BY ZeroSlave DEF Init, Contents, Holds, Written, PastMain, Src
<1> QED
  BY <1>1, ContentsStep, Coordinated, PTL DEF Spec

\* A call starts from the input and ends with all its steps in the array it
\* returns; the warm-up does not disturb the input.
THEOREM CallsReturnResult == Spec => []CallResult
<1>1. IInv /\ Contents => CallResult
  <2> SUFFICES ASSUME IInv, Contents PROVE CallResult
    OBVIOUS
  <2>1. mpc = "join" /\ AllIdle => st[0] = Steps
    BY DEF IInv, Coordination, InStep
  <2> QED
    BY <2>1 DEF Contents, CallResult, AllIdle, Src
<1> QED
  BY <1>1, Coordinated, ArraysAreRight, PTL

\* While MPI may read a plane, all slaves have written it and it is of the
\* master's step, although the master does not wait for them before it posts.
THEOREM SendsAreReady == Spec => []SendReady
<1>1. IInv /\ Contents => SendReady
  <2> SUFFICES ASSUME IInv, Contents, NEW g \in Group, req[g] = "posted",
                      NEW j \in Slave
               PROVE  mem[Src(t)][j][EdgePart(g)] = t
    BY DEF SendReady
  <2>1. rflag[g] = 0 /\ ~AllSent /\ mpc \notin {"spawn", "return", "join"}
    BY DEF IInv, Coordination, Requests, AllSent
  <2>2. /\ st[0] \in Nat /\ st[j] = st[0] /\ EdgePart(g) \in Part
        /\ 0 \in Slave
    BY ZeroSlave DEF IInv, Coordination, Together, TypeOK, EdgePart, Part
  <2>3. CASE AllComputing
    <3>1. t = st[0]
      BY <2>1, <2>3 DEF IInv, Coordination, InStep
    <3> QED
      BY <2>1, <2>2, <3>1 DEF Contents, Holds
  <2>4. CASE AllResetting
    <3>1. t = st[0] + 1
      BY <2>1, <2>4 DEF IInv, Coordination, InStep
    <3>2. fin[j] = Group /\ PastMain(j) /\ spc[j] \notin {"edge0", "edge1"}
      BY <2>4
      DEF AllResetting, Resetting, PastMain, IInv, Coordination, Finish, Group
    <3>3. mem[Dest(st[0])][j][EdgePart(g)] = st[0] + 1
      BY <2>2, <3>2 DEF Contents, Written
    <3> QED
      BY <2>2, <3>1, <3>3, Parity
  <2>5. CASE AllIdle
    BY <2>1, <2>5 DEF IInv, Coordination, InStep
  <2> QED
    BY <2>3, <2>4, <2>5 DEF IInv, Coordination, Together
<1> QED
  BY <1>1, Coordinated, ArraysAreRight, PTL

-----------------------------------------------------------------------------
(* Flags in the first step of a call.                                      *)

\* In the first step of a call of stencil_27 a flag the master has written is
\* still set while the slave computes.
Kept ==
  /\ \A i \in Slave : spc[i] \notin {"clear0", "clear1"}
  /\ t = 0 => \A i \in Slave, g \in Group :
       Computing(i) /\ st[i] = 0 /\ Signalled(g, i) => run[g][i] # 0

\* A flag that counts as written was so before, or has just been written.
LEMMA SignalledBefore ==
  ASSUME IInv, WriteFlag, NEW g \in Group, NEW i \in Slave, Signalled(g, i)'
  PROVE  Signalled(g, i) \/ (g = mg /\ i = mi)
<1> USE CoreGroupAssumption
    DEF IInv, Coordination, TypeOK, Requests, WriteFlag, Signalled, FlagValue,
        Due, Group, Slave
<1>1. CASE mi < ThreadNum - 1
  BY <1>1
<1>2. CASE mi = ThreadNum - 1 /\ mg = 0
  BY <1>2 DEF NextGroup
<1>3. CASE mi = ThreadNum - 1 /\ mg = 1
  BY <1>3 DEF NextGroup
<1> QED
  BY <1>1, <1>2, <1>3

\* The slaves of stencil_27 do not clear their flags when they start, and they
\* reset them only after they have computed the first step.
LEMMA KeptStep ==
  ASSUME StencilType = 27
  PROVE  IInv /\ Kept /\ [Next]_vars => Kept'
<1> SUFFICES ASSUME IInv, Kept, [Next]_vars PROVE Kept'
  OBVIOUS
<1> USE ZeroSlave DEF slaveVars, masterVars
<1>1. CASE Spawn
  BY <1>1 DEF Spawn, Entry, Kept, Signalled
<1>2. CASE Post \/ Join \/ Await
  BY <1>2 DEF Post, Join, Await, Kept, Signalled
<1>3. CASE Arm
  BY <1>3 DEF Arm, Kept, Signalled, IInv, Coordination, Requests
<1>4. CASE WriteFlag
  <2>1. /\ UNCHANGED <<t, spc, st>>
        /\ run' = [run EXCEPT ![mg][mi] = FlagValue] /\ FlagValue # 0
    BY <1>4 DEF WriteFlag, FlagValue
  <2>2. ASSUME NEW i \in Slave, NEW g \in Group
        PROVE  run'[g][i] = IF g = mg /\ i = mi THEN FlagValue ELSE run[g][i]
    BY <2>1 DEF IInv, TypeOK
  <2> QED
    BY <1>4, <2>1, <2>2, SignalledBefore DEF Kept, Computing
<1>5. CASE SkipGroup
  BY <1>5
  DEF SkipGroup, NextGroup, Kept, Signalled, Computing, Due, Group, IInv,
      TypeOK
<1>6. CASE Test
  BY <1>6
  DEF Test, Kept, Signalled, Computing, IInv, Coordination, Requests, TypeOK
<1>7. ASSUME NEW g \in Group, Complete(g) PROVE Kept'
  BY <1>7 DEF Complete, Kept, Signalled, Computing
<1>8. ASSUME NEW i \in Slave, Clear0(i) \/ Clear1(i) PROVE Kept'
  BY <1>8 DEF Clear0, Clear1, Kept
<1>9. ASSUME NEW i \in Slave, Reset0(i) \/ Reset1(i) \/ Signal(i) PROVE Kept'
  <2>1. UNCHANGED <<t, mpc, mg, mi, rflag, st>> /\ ~Computing(i)'
    BY <1>9 DEF Reset0, Reset1, Signal, Goto, Computing, IInv, TypeOK
  <2>2. \A j \in Slave : j # i =>
          spc'[j] = spc[j] /\ \A g \in Group : run'[g][j] = run[g][j]
    BY <1>9 DEF Reset0, Reset1, Signal, Goto, IInv, TypeOK
  <2> QED
    BY <1>9, <2>1, <2>2 DEF Kept, Signalled, Computing
<1>10. ASSUME NEW i \in Slave,
              Main(i) \/ Look0(i) \/ Look1(i) \/ \E g \in Group : Edge(i, g)
       PROVE  Kept'
  <2>1. /\ UNCHANGED <<t, mpc, mg, mi, rflag, st, run>> /\ Computing(i)
        /\ \E l \in SlavePC \ {"clear0", "clear1"} :
              spc' = [spc EXCEPT ![i] = l]
    BY <1>10 DEF Main, Look0, Look1, Edge, Goto, Computing, SlavePC
  <2> QED
    BY <2>1 DEF Kept, Signalled, Computing, IInv, TypeOK
<1>11. CASE Barrier1
  BY <1>11 DEF Barrier1, Kept, Computing
<1>12. CASE Barrier2
  <2>1. \A i \in Slave : st'[i] = st[i] + 1 /\ st[i] \in Nat
    BY <1>12 DEF Barrier2, IInv, TypeOK
  <2> QED
    BY <1>12, <2>1 DEF Barrier2, Kept
<1>13. CASE UNCHANGED vars
  BY <1>13 DEF vars, Kept, Signalled, Computing
<1> QED
  BY <1>1, <1>2, <1>3, <1>4, <1>5, <1>6, <1>7, <1>8, <1>9, <1>10, <1>11,
     <1>12, <1>13
  DEF Next, Master, SlaveStep

\* No slave of stencil_27 loses a flag in the first step of a call, so its
\* warm-up loses none at all: the lost wakeup needs two steps.
THEOREM FirstStepKeepsFlags ==
  ASSUME StencilType = 27
  PROVE  Spec => []KeptInFirstStep
<1>1. Init => Kept
  BY DEF Init, Kept, Computing
<1>2. IInv /\ Kept => KeptInFirstStep
  <2> SUFFICES ASSUME IInv, Kept, t = 0,
                      NEW g \in Group, NEW i \in Slave,
                      Signalled(g, i), Owes(g, i), run[g][i] = 0
               PROVE  FALSE
    BY DEF KeptInFirstStep, LostWakeup
  <2>1. st[i] = 0 /\ Computing(i)
    BY DEF Owes, Computing, IInv, TypeOK
  <2> QED
    BY <2>1 DEF Kept
<1>3. IInv /\ Kept /\ [Next]_vars => Kept'
  BY KeptStep
<1> QED
  BY <1>1, <1>2, <1>3, Coordinated, PTL DEF Spec


-----------------------------------------------------------------------------
(***************************************************************************)
(* CoreGroup implements RankStep: from outside, the flags, the barriers    *)
(* and the polling of a core group are one process that swaps the planes   *)
(* of a step, takes the step and returns.                                  *)
(*                                                                         *)
(* The step of the process is that of the slowest slave; it ends when the  *)
(* last slave writes its last edge plane, not when the master counts on.   *)
(***************************************************************************)

\* What Rank substitutes for the variables done and got of RankStep.
Slowest ==
  CHOOSE n \in 0 .. NT : /\ \E i \in Slave : Finished(i) = n
                         /\ \A i \in Slave : n <= Finished(i)

RankDone == IF mpc = "spawn" THEN 0 ELSE Slowest

RankGot(g) ==
  IF mpc = "spawn" \/ g \notin Peers THEN 0
  ELSE IF /\ mpc \notin {"post", "join", "return"}
          /\ req[g] = "complete"
    THEN t + 1
  ELSE t

\* All slaves have written both edge planes of their step.
AllFinished ==
  \A i \in Slave : spc[i] \in {"barrier1", "reset0", "reset1", "signal",
                               "barrier2"}

\* Slaves are in the same step, so the slowest is a step on when all are.
LEMMA SlowestIs ==
  IInv /\ mpc \notin {"spawn", "return"}
    => Slowest = IF AllFinished THEN st[0] + 1 ELSE st[0]
<1> SUFFICES ASSUME IInv, mpc \notin {"spawn", "return"}
             PROVE  Slowest = IF AllFinished THEN st[0] + 1 ELSE st[0]
  OBVIOUS
<1> DEFINE P(n) == /\ \E i \in Slave : Finished(i) = n
                   /\ \A i \in Slave : n <= Finished(i)
           D == IF AllFinished THEN st[0] + 1 ELSE st[0]
<1>1. /\ 0 \in Slave /\ st[0] \in Nat /\ NT \in Nat /\ Steps \in Nat /\ Steps <= NT
      /\ \A i \in Slave : st[i] = st[0]
  BY ZeroSlave, CoreGroupAssumption
  DEF IInv, Coordination, Together, TypeOK, Steps, WarmUp
<1>2. \A i \in Slave : Finished(i) \in {st[0], st[0] + 1}
  BY <1>1 DEF Finished
<1>3. AllFinished => \A i \in Slave : Finished(i) = st[0] + 1
  BY <1>1 DEF AllFinished, Finished
<1>4. ~AllFinished => \E i \in Slave : Finished(i) = st[0]
  BY <1>1 DEF AllFinished, Finished
<1>5. D \in 0 .. NT
  <2>1. AllFinished => ~AllIdle
    BY <1>1 DEF AllFinished, AllIdle
  <2>2. st[0] <= Steps /\ (~AllIdle => st[0] < Steps)
    BY <1>1 DEF IInv, Coordination, Together, InStep
  <2> QED
    BY <1>1, <2>1, <2>2
<1>6. P(D)
  BY <1>1, <1>2, <1>3, <1>4
<1>7. ASSUME NEW n \in 0 .. NT, P(n) PROVE n = D
  BY <1>1, <1>2, <1>3, <1>4, <1>7
<1> HIDE DEF P, D
<1>8. (CHOOSE n \in 0 .. NT : P(n)) = D
  BY <1>5, <1>6, <1>7
<1> QED
  BY <1>8 DEF P, D, Slowest

\* The same of the next state.
LEMMA SlowestNext ==
  ASSUME IInv', mpc' \notin {"spawn", "return"}
  PROVE  Slowest' = IF AllFinished' THEN st'[0] + 1 ELSE st'[0]
<1>1. (IInv /\ mpc \notin {"spawn", "return"}
        => Slowest = IF AllFinished THEN st[0] + 1 ELSE st[0])'
  BY SlowestIs, PTL
<1> QED
  BY <1>1

\* The steps of RankStep in the terms of CoreGroup: none of them,
LEMMA RankStutter ==
  ASSUME Peers' = Peers, call' = call, RankDone' = RankDone,
         \A g \in Group : RankGot(g)' = RankGot(g),
         (mpc' = "return") = (mpc = "return")
  PROVE  UNCHANGED Rank!rankVars
<1>1. [g \in Group |-> RankGot(g)]' = [g \in Group |-> RankGot(g)]
  OBVIOUS
<1> QED
  BY <1>1, Zenon DEF Rank!rankVars, RankDone, RankGot, Slowest

\* planes are swapped,
LEMMA RankExchange ==
  ASSUME Peers' = Peers, call' = call, RankDone' = RankDone,
         (mpc' = "return") = (mpc = "return"),
         NEW g \in Peers, RankDone < Steps, RankGot(g) = RankDone,
         RankGot(g)' = RankGot(g) + 1,
         \A h \in Group : h # g => RankGot(h)' = RankGot(h)
  PROVE  Rank!Next
<1> DEFINE got == [h \in Group |-> RankGot(h)]
<1>1. g \in Group /\ g \in {0, 1}
  BY DEF Peers, Group
<1>2. got' = [got EXCEPT ![g] = @ + 1] /\ got[g] = RankDone
  BY <1>1
<1>3. RankDone < Rank!Steps
  BY DEF Rank!Steps, Steps
<1>4. Rank!Exchange(g)
  BY <1>2, <1>3, Zenon DEF Rank!Exchange, RankDone, RankGot, Slowest
<1> QED
  BY <1>1, <1>4 DEF Rank!Next

\* a time step ends,
LEMMA RankAdvance ==
  ASSUME Peers' = Peers, call' = call, RankDone < Steps,
         \A g \in Peers : RankGot(g) = RankDone + 1,
         RankDone' = RankDone + 1,
         \A g \in Group : RankGot(g)' = RankGot(g),
         (mpc' = "return") = (mpc = "return")
  PROVE  Rank!Next
<1> DEFINE got == [h \in Group |-> RankGot(h)]
<1>1. got' = got /\ \A g \in Peers : got[g] = RankDone + 1
  BY DEF Peers
<1>2. RankDone < Rank!Steps
  BY DEF Rank!Steps, Steps
<1>3. Rank!Advance
  BY <1>1, <1>2, Zenon DEF Rank!Advance, RankDone, RankGot, Slowest
<1> QED
  BY <1>3 DEF Rank!Next

\* the warm-up call returns,
LEMMA RankReturnWarmUp ==
  ASSUME Peers' = Peers, mpc # "return", mpc' # "return", RankDone = Steps,
         call = 1, call' = 2, RankDone' = 0, \A g \in Group : RankGot(g)' = 0
  PROVE  Rank!Next
<1> DEFINE got == [h \in Group |-> RankGot(h)]
<1>1. RankDone = Rank!Steps
  BY DEF Rank!Steps, Steps
<1>2. got' = [g \in {0, 1} |-> 0]
  BY DEF Group
<1>3. (mpc = "return")' = (mpc = "return")
  OBVIOUS
<1>4. Rank!Return
  BY <1>1, <1>2, <1>3 DEF Rank!Return, RankDone, RankGot, Slowest
<1> QED
  BY <1>4 DEF Rank!Next

\* the timed call returns.
LEMMA RankReturnTimed ==
  ASSUME Peers' = Peers, mpc # "return", mpc' = "return", RankDone = Steps,
         call = 2, call' = call, RankDone' = RankDone,
         \A g \in Group : RankGot(g)' = RankGot(g)
  PROVE  Rank!Next
<1> DEFINE got == [h \in Group |-> RankGot(h)]
<1>1. RankDone = Rank!Steps
  BY DEF Rank!Steps, Steps
<1>2. got' = got
  OBVIOUS
<1>3. (mpc = "return")' = TRUE
  OBVIOUS
<1>4. Rank!Return
  BY <1>1, <1>2, <1>3 DEF Rank!Return, RankDone, RankGot, Slowest
<1> QED
  BY <1>4 DEF Rank!Next

\* A step of the master or of the neighbours moves no slave.
LEMMA SlavesStay ==
  ASSUME UNCHANGED <<spc, st>>
  PROVE  Slowest' = Slowest
  BY DEF Slowest, Finished

\* A step of slaves that leaves as many of them finished.
LEMMA SlowestStays ==
  ASSUME IInv, IInv', mpc \notin {"spawn", "return"}, mpc' = mpc,
         (st'[0] = st[0] /\ AllFinished' = AllFinished)
           \/ (st'[0] = st[0] + 1 /\ AllFinished /\ ~AllFinished')
  PROVE  Slowest' = Slowest
  BY SlowestIs, SlowestNext

\* While requests are pending, the process has finished the master's steps.
LEMMA PendingDone ==
  ASSUME IInv, NEW g \in Group, req[g] = "posted"
  PROVE  /\ g \in Peers /\ mpc \in {"arm", "none", "test", "set"}
         /\ t < Steps /\ Slowest = t
<1>1. /\ g \in Peers /\ mpc \in {"arm", "none", "test", "set"}
      /\ rflag[g] = 0 /\ ~AllSent /\ t < Steps
  BY DEF IInv, Coordination, Requests, MasterBounds, AllSent
<1>2. /\ 0 \in Slave /\ st[0] \in Nat /\ spc[0] \in SlavePC
      /\ \A i \in Slave : st[i] = st[0]
  BY ZeroSlave DEF IInv, Coordination, Together, TypeOK
<1>3. CASE AllComputing
  <2>1. t = st[0]
    BY <1>1, <1>3 DEF IInv, Coordination, InStep
  <2>2. spc[0] # "barrier1"
    BY <1>1, <1>2 DEF IInv, Coordination, Finish, Signalled, Group
  <2>3. ~AllFinished
    BY <1>2, <1>3, <2>2 DEF AllFinished, AllComputing, Computing
  <2> QED
    BY <1>1, <2>1, <2>3, SlowestIs
<1>4. CASE AllResetting
  <2>1. t = st[0] + 1
    BY <1>1, <1>4 DEF IInv, Coordination, InStep
  <2>2. AllFinished
    BY <1>4 DEF AllFinished, AllResetting, Resetting
  <2> QED
    BY <1>1, <2>1, <2>2, SlowestIs
<1>5. CASE AllIdle
  BY <1>1, <1>5 DEF IInv, Coordination, InStep
<1> QED
  BY <1>3, <1>4, <1>5 DEF IInv, Coordination, Together

\* A slave writes an edge plane: the last of the last slave ends the step.
LEMMA EdgeRank ==
  ASSUME IInv, IInv', NEW i \in Slave, NEW g \in Group, Edge(i, g)
  PROVE  [Rank!Next]_(Rank!rankVars)
<1>1. /\ spc[i] = (IF g = 0 THEN "edge0" ELSE "edge1")
      /\ UNCHANGED <<masterVars, st, fin>>
      /\ spc' = [spc EXCEPT ![i] = IF fin[i] = Group THEN "barrier1"
                                                     ELSE "look0"]
  BY DEF Edge, Goto
<1>2. /\ AllComputing /\ ~AllFinished /\ mpc \notin {"spawn", "return"}
      /\ st[0] < Steps /\ st[0] \in Nat /\ st[i] = st[0]
  BY <1>1, ZeroSlave
  DEF IInv, Coordination, Together, InStep, AllComputing, AllResetting,
      AllIdle, Computing, Resetting, AllFinished, TypeOK
<1>3. /\ Peers' = Peers /\ call' = call /\ mpc' = mpc
      /\ \A h \in Group : RankGot(h)' = RankGot(h)
  BY <1>1 DEF Peers, RankGot, masterVars
<1>4. RankDone = st[0]
  BY <1>2, SlowestIs DEF RankDone
<1>5. CASE ~AllFinished'
  <2>1. RankDone' = RankDone
    BY <1>1, <1>2, <1>3, <1>4, <1>5, SlowestNext DEF RankDone
  <2> QED
    BY <1>3, <2>1, RankStutter
<1>6. CASE AllFinished'
  <2>1. RankDone' = RankDone + 1
    BY <1>1, <1>2, <1>3, <1>4, <1>6, SlowestNext DEF RankDone
  <2>2. fin[i] = Group
    BY <1>1, <1>6 DEF AllFinished, IInv, TypeOK
  <2>3. ASSUME NEW h \in Peers PROVE RankGot(h) = RankDone + 1
    <3>1. h \in Group
      BY DEF Peers
    <3>2. t = st[i] /\ Signalled(h, i)
      BY <1>1, <2>2, <3>1 DEF IInv, Coordination, Finish
    <3>3. /\ mpc \in {"none", "test", "set", "wait"}
          /\ req[h] = "complete"
      BY <3>1, <3>2 DEF Signalled, IInv, Coordination, Requests
    <3> QED
      BY <1>2, <1>4, <3>2, <3>3 DEF RankGot
  <2> QED
    BY <1>2, <1>3, <1>4, <2>1, <2>3, RankAdvance
<1> QED
  BY <1>5, <1>6

\* Every step of CoreGroup is a step of RankStep or changes none of its
\* variables.
LEMMA RankStepSimulated ==
  ASSUME IInv, IInv', [Next]_vars
  PROVE  [Rank!Next]_(Rank!rankVars)
<1> USE DEF slaveVars, masterVars
<1>1. CASE Spawn
  <2>1. /\ mpc = "spawn" /\ mpc' = "post" /\ t' = 0
        /\ UNCHANGED <<pid, call>>
        /\ st' = [i \in Slave |-> 0] /\ spc' = [i \in Slave |-> Entry]
    BY <1>1 DEF Spawn
  <2>2. ~AllFinished' /\ st'[0] = 0
    BY <2>1, ZeroSlave DEF AllFinished, Entry
  <2>3. RankDone' = RankDone
    BY <2>1, <2>2, SlowestNext DEF RankDone
  <2>4. Peers' = Peers /\ \A g \in Group : RankGot(g)' = RankGot(g)
    BY <2>1 DEF Peers, RankGot
  <2> QED
    BY <2>1, <2>3, <2>4, RankStutter
<1>2. CASE Post
  <2>1. /\ mpc = "post" /\ mpc' = "arm" /\ Peers' = Peers
        /\ UNCHANGED <<call, t, spc, st>>
        /\ \A g \in Peers : req'[g] # "complete"
    BY <1>2 DEF Post, Peers
  <2>2. \A g \in Group : RankGot(g)' = RankGot(g)
    BY <2>1 DEF RankGot
  <2> QED
    BY <2>1, <2>2, SlavesStay, RankStutter DEF RankDone
<1>3. CASE Arm \/ WriteFlag \/ SkipGroup \/ Test
  <2>1. /\ mpc \in {"arm", "none", "test", "set"}
        /\ mpc' \in {"none", "test", "set", "wait"}
        /\ UNCHANGED <<pid, call, t, req, spc, st>>
    BY <1>3 DEF Arm, WriteFlag, SkipGroup, Test, NextGroup
  <2>2. Peers' = Peers /\ \A g \in Group : RankGot(g)' = RankGot(g)
    BY <2>1 DEF Peers, RankGot
  <2> QED
    BY <2>1, <2>2, SlavesStay, RankStutter DEF RankDone
<1>4. CASE Await
  <2>1. /\ mpc = "wait" /\ mpc' \in {"post", "join"} /\ t' = t + 1
        /\ UNCHANGED <<pid, call, req, spc, st>>
    BY <1>4 DEF Await
  <2>2. \A g \in Peers : req[g] = "complete"
    BY <2>1 DEF IInv, Coordination, Requests, Peers
  <2>3. Peers' = Peers
    BY <2>1 DEF Peers
  <2>4. \A g \in Group : RankGot(g)' = RankGot(g)
    BY <2>1, <2>2, <2>3 DEF RankGot
  <2> QED
    BY <2>1, <2>3, <2>4, SlavesStay, RankStutter DEF RankDone
<1>5. CASE Join
  <2>1. /\ mpc = "join" /\ AllIdle /\ call \in {1, 2}
        /\ UNCHANGED <<pid, t, req, spc, st>>
    BY <1>5 DEF Join, AllIdle, IInv, TypeOK
  <2>2. st[0] = Steps /\ ~AllFinished
    BY <2>1, ZeroSlave
    DEF IInv, Coordination, InStep, AllIdle, AllFinished
  <2>3. RankDone = Steps
    BY <2>1, <2>2, SlowestIs DEF RankDone
  <2>4. Peers' = Peers
    BY <2>1 DEF Peers
  <2>5. CASE call = 1
    BY <1>5, <2>1, <2>3, <2>4, <2>5, RankReturnWarmUp
    DEF Join, RankDone, RankGot
  <2>6. CASE call = 2
    <3>1. call' = call /\ mpc' = "return"
      BY <1>5, <2>6 DEF Join
    <3>2. RankDone' = RankDone /\ \A g \in Group : RankGot(g)' = RankGot(g)
      BY <2>1, <2>4, <3>1, SlavesStay DEF RankDone, RankGot
    <3> QED
      BY <2>1, <2>3, <2>4, <2>6, <3>1, <3>2, RankReturnTimed
  <2> QED
    BY <2>1, <2>5, <2>6
<1>6. ASSUME NEW g \in Group, Complete(g)
      PROVE  [Rank!Next]_(Rank!rankVars)
  <2>1. /\ req[g] = "posted" /\ req' = [req EXCEPT ![g] = "complete"]
        /\ UNCHANGED <<pid, call, mpc, t, spc, st>>
    BY <1>6 DEF Complete
  <2>2. /\ g \in Peers /\ mpc \in {"arm", "none", "test", "set"}
        /\ t < Steps /\ RankDone = t
    BY <2>1, PendingDone DEF RankDone
  <2>3. Peers' = Peers /\ RankDone' = RankDone
    BY <2>1, SlavesStay DEF Peers, RankDone
  <2>4. /\ RankGot(g) = t /\ RankGot(g)' = t + 1
        /\ \A h \in Group : h # g => RankGot(h)' = RankGot(h)
    BY <2>1, <2>2, <2>3 DEF RankGot, IInv, TypeOK
  <2> QED
    BY <2>1, <2>2, <2>3, <2>4, RankExchange
<1>7. ASSUME NEW i \in Slave,
             \/ Clear0(i) \/ Clear1(i) \/ Main(i) \/ Look0(i) \/ Look1(i)
             \/ Reset0(i) \/ Reset1(i) \/ Signal(i)
      PROVE  [Rank!Next]_(Rank!rankVars)
  <2>1. UNCHANGED <<pid, call, mpc, t, req, st>>
    BY <1>7
    DEF Clear0, Clear1, Main, Look0, Look1, Reset0, Reset1, Signal
  <2>2. AllFinished' = AllFinished
    BY <1>7, ZenonT(30)
    DEF Clear0, Clear1, Main, Look0, Look1, Reset0, Reset1, Signal, Goto,
        AllFinished, IInv, TypeOK
  <2>3. mpc \notin {"spawn", "return"}
    BY <1>7
    DEF Clear0, Clear1, Main, Look0, Look1, Reset0, Reset1, Signal, IInv,
        Coordination, InStep, AllIdle
  <2>4. Peers' = Peers /\ \A g \in Group : RankGot(g)' = RankGot(g)
    BY <2>1 DEF Peers, RankGot
  <2> QED
    BY <2>1, <2>2, <2>3, <2>4, SlowestStays, RankStutter DEF RankDone
<1>8. ASSUME NEW i \in Slave, NEW g \in Group, Edge(i, g)
      PROVE  [Rank!Next]_(Rank!rankVars)
  BY <1>8, EdgeRank
<1>9. CASE Barrier1 \/ Barrier2
  <2>1. UNCHANGED <<pid, call, mpc, t, req>> /\ mpc \notin {"spawn", "return"}
    BY <1>9, ZeroSlave
    DEF Barrier1, Barrier2, IInv, Coordination, InStep, AllIdle
  <2>2. \/ st'[0] = st[0] /\ AllFinished' = AllFinished
        \/ st'[0] = st[0] + 1 /\ AllFinished /\ ~AllFinished'
    BY <1>9, ZeroSlave DEF Barrier1, Barrier2, AllFinished
  <2>3. Peers' = Peers /\ \A g \in Group : RankGot(g)' = RankGot(g)
    BY <2>1 DEF Peers, RankGot
  <2> QED
    BY <2>1, <2>2, <2>3, SlowestStays, RankStutter DEF RankDone
<1>10. CASE UNCHANGED vars
  <2>1. Peers' = Peers /\ \A g \in Group : RankGot(g)' = RankGot(g)
    BY <1>10 DEF vars, Peers, RankGot
  <2> QED
    BY <1>10, <2>1, SlavesStay, RankStutter DEF vars, RankDone
<1> QED
  BY <1>1, <1>2, <1>3, <1>4, <1>5, <1>6, <1>7, <1>8, <1>9, <1>10
  DEF Next, Master, SlaveStep

\* The core group keeps the contract its neighbours rely on: no step ends
\* before the planes of the step are swapped, and no call returns early.
THEOREM GroupKeepsContract == Spec => ImplementsRankStep
<1>1. Init => Rank!Init
  <2> SUFFICES ASSUME Init PROVE Rank!Init
    OBVIOUS
  <2>1. Peers \in {{0}, {1}, {0, 1}}
    <3>1. Peers \subseteq {0, 1}
      BY DEF Peers, Group
    <3>2. 0 \in Peers \/ 1 \in Peers
      BY CoreGroupAssumption DEF Init, Peers, Group
    <3> QED
      BY <3>1, <3>2
  <2> QED
    BY <2>1 DEF Init, Rank!Init, Group
<1>2. IInv /\ IInv' /\ [Next]_vars => [Rank!Next]_(Rank!rankVars)
  BY RankStepSimulated
<1> QED
  BY <1>1, <1>2, Coordinated, PTL DEF Spec, ImplementsRankStep, Rank!Spec
=============================================================================
