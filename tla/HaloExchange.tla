---------------------------- MODULE HaloExchange ----------------------------
(***************************************************************************)
(* The processes of a run and the planes they exchange: the MPI part of    *)
(* stencil_7 / stencil_27 (stencil-optimized.c) for num_x = num_y = 1, the *)
(* decomposition create_dist_grid chooses, under the two calls of          *)
(* benchmark.c.                                                            *)
(*                                                                         *)
(* In every time step a process posts MPI_Isend and MPI_Irecv to the       *)
(* process above (group 0) and below (group 1), and leaves the step when   *)
(* all of them are complete and its slaves are done.  Every message from   *)
(* r to s carries the tag r, in every step: which step a message belongs   *)
(* to is decided by MPI's order of messages alone.                         *)
(*                                                                         *)
(* MPI may copy a plane at once and complete the send, or read it from the *)
(* array when it is delivered: until then the send is pending.  A process  *)
(* is abstracted to what RankStep promises of it; arrays are abstracted to *)
(* the time step of their values, Garbage while the slaves write them.     *)
(***************************************************************************)
EXTENDS Integers, Sequences

CONSTANTS
  NumZ,  \* num_z, the processes
  NT     \* nt of the timed call

ASSUME HaloExchangeAssumption ==
  /\ NumZ \in Nat /\ NumZ > 1
  /\ NT \in Nat \ {0}

Rank  == 0 .. NumZ - 1
Group == {0, 1}

WarmUp    == 1    \* nt of the warm-up call
Garbage   == -1   \* an array the slaves are writing, or mixed values
NotCopied == -2   \* a message whose plane is still in the sender's array

VARIABLES
  pc,    \* pc[r]: "post", "exchange", "barrier" or "end"
  call,  \* call[r]: 1 the warm-up call, 2 the timed call
  step,  \* step[r]: t
  array, \* array[r][b]: time step of the block's values in grid (0), aux (1)
  halo,  \* halo[r][b][g]: time step of the halo plane of group g
  send,  \* send[r][g]: the Isend request, "none", "pending" or "complete"
  recv,  \* recv[r][g]: the Irecv request
  wire   \* wire[r][g]: messages of r to its neighbour g, oldest first

vars == <<pc, call, step, array, halo, send, recv, wire>>

-----------------------------------------------------------------------------
\* pid + 1 and pid - 1.
Neighbour(r, g) == IF g = 0 THEN r + 1 ELSE r - 1

Peers(r) == {g \in Group : Neighbour(r, g) \in Rank}

Steps(r) == IF call[r] = 1 THEN WarmUp ELSE NT

\* Mutant: the arrays do not alternate.
SrcOfStep(s) == s

\* buffer[t % 2] is read and exchanged in step t, the other array is written.
Src(s) == s % 2

Requests(r, state) ==
  [g \in Group |-> IF g \in Peers(r) THEN state ELSE "none"]

\* The plane a message carries, read from the sender's array if need be.
Plane(r, m) == IF m.plane = NotCopied THEN array[r][m.from] ELSE m.plane

-----------------------------------------------------------------------------
Init ==
  /\ pc = [r \in Rank |-> "post"]
  /\ call = [r \in Rank |-> 1]
  /\ step = [r \in Rank |-> 0]
  /\ array = [r \in Rank |-> [b \in {0, 1} |-> IF b = 0 THEN 0 ELSE Garbage]]
  /\ halo = [r \in Rank |-> [b \in {0, 1} |-> [g \in Group |-> Garbage]]]
  /\ send = [r \in Rank |-> [g \in Group |-> "none"]]
  /\ recv = [r \in Rank |-> [g \in Group |-> "none"]]
  /\ wire = [r \in Rank |-> [g \in Group |-> <<>>]]

\* Mutant: a process with two neighbours forgets to send to the one below.
PostOneSend(r) ==
  /\ pc[r] = "post"
  /\ send' = [send EXCEPT ![r] = Requests(r, "pending")]
  /\ recv' = [recv EXCEPT ![r] = Requests(r, "pending")]
  /\ wire' = [wire EXCEPT ![r] = [g \in Group |->
       IF g \in Peers(r) /\ (g = 0 \/ 0 \notin Peers(r))
         THEN Append(@[g], [from |-> Src(step[r]), plane |-> NotCopied])
         ELSE @[g]]]
  /\ pc' = [pc EXCEPT ![r] = "exchange"]
  /\ UNCHANGED <<call, step, array, halo>>

\* The Isend and Irecv calls of a time step.
Post(r) ==
  /\ pc[r] = "post"
  /\ send' = [send EXCEPT ![r] = Requests(r, "pending")]
  /\ recv' = [recv EXCEPT ![r] = Requests(r, "pending")]
  /\ wire' = [wire EXCEPT ![r] = [g \in Group |->
       IF g \in Peers(r)
         THEN Append(@[g], [from |-> Src(step[r]), plane |-> NotCopied])
         ELSE @[g]]]
  /\ pc' = [pc EXCEPT ![r] = "exchange"]
  /\ UNCHANGED <<call, step, array, halo>>

\* MPI copies the plane of message k and completes the send.
Copy(r, g, k) ==
  /\ wire[r][g][k].plane = NotCopied
  /\ wire' = [wire EXCEPT ![r][g][k] =
                [@ EXCEPT !.plane = Plane(r, wire[r][g][k])]]
  /\ send' = [send EXCEPT ![r][g] = "complete"]
  /\ UNCHANGED <<pc, call, step, array, halo, recv>>

\* The oldest message of the neighbour arrives at the pending Irecv of r.
Deliver(r, g) ==
  LET s == Neighbour(r, g)
      m == Head(wire[s][1 - g])
  IN /\ recv[r][g] = "pending"
     /\ wire[s][1 - g] # <<>>
     /\ halo' = [halo EXCEPT ![r][Src(step[r])][g] = Plane(s, m)]
     /\ recv' = [recv EXCEPT ![r][g] = "complete"]
     /\ wire' = [wire EXCEPT ![s][1 - g] = Tail(@)]
     /\ send' = IF m.plane = NotCopied
                  THEN [send EXCEPT ![s][1 - g] = "complete"] ELSE send
     /\ UNCHANGED <<pc, call, step, array>>

\* MPI_Testall of both groups, over sends and receives (each alone: a mutant).
SendsDone(r)    == \A g \in Peers(r) : send[r][g] = "complete"
ReceivesDone(r) == \A g \in Peers(r) : recv[r][g] = "complete"

ExchangeDone(r) == SendsDone(r) /\ ReceivesDone(r)

\* The end of a time step: all requests are complete, the slaves have written
\* every row.  In the next step they begin at once to overwrite the array this
\* step has read.
Advance(r) ==
  LET b == Src(step[r])
      ok == /\ array[r][b] = step[r]
            /\ \A g \in Peers(r) : halo[r][b][g] = step[r]
      last == step[r] + 1 = Steps(r)
  IN /\ pc[r] = "exchange"
     /\ ExchangeDone(r)
     /\ array' = [array EXCEPT
          ![r][1 - b] = IF ok THEN step[r] + 1 ELSE Garbage,
          ![r][b] = IF last THEN @ ELSE Garbage]
     /\ step' = [step EXCEPT ![r] = @ + 1]
     /\ pc' = [pc EXCEPT ![r] = IF last THEN "barrier" ELSE "post"]
     /\ UNCHANGED <<call, halo, send, recv, wire>>

\* Mutant: a barrier that holds nobody.
BarrierAlwaysOpen(r) == TRUE

\* Every process has come to the barrier r is at.
BarrierOpen(r) ==
  \A s \in Rank :
    call[s] > call[r] \/ (call[s] = call[r] /\ pc[s] \in {"barrier", "end"})

\* MPI_Barrier after a call.  After the first the timed call starts, whose
\* slaves write aux.
LeaveBarrier(r) ==
  /\ pc[r] = "barrier"
  /\ BarrierOpen(r)
  /\ \/ /\ call[r] = 1
        /\ call' = [call EXCEPT ![r] = 2]
        /\ step' = [step EXCEPT ![r] = 0]
        /\ array' = [array EXCEPT ![r][1] = Garbage]
        /\ pc' = [pc EXCEPT ![r] = "post"]
     \/ /\ call[r] = 2
        /\ pc' = [pc EXCEPT ![r] = "end"]
        /\ UNCHANGED <<call, step, array>>
  /\ UNCHANGED <<halo, send, recv, wire>>

Next ==
  \E r \in Rank :
    \/ Post(r) \/ Advance(r) \/ LeaveBarrier(r)
    \/ \E g \in Group :
         \/ Deliver(r, g)
         \/ \E k \in DOMAIN wire[r][g] : Copy(r, g, k)

Spec == Init /\ [][Next]_vars

(***************************************************************************)
(* Processes run; MPI delivers a message that a receive waits for.  It may *)
(* copy a plane early, or never.                                           *)
(***************************************************************************)
Fairness ==
  \A r \in Rank :
    /\ WF_vars(Post(r)) /\ WF_vars(Advance(r)) /\ WF_vars(LeaveBarrier(r))
    /\ \A g \in Group : WF_vars(Deliver(r, g))

FairSpec == Spec /\ Fairness

-----------------------------------------------------------------------------
Request == {"none", "pending", "complete"}
Version == Nat \cup {Garbage}
Message == [from : {0, 1}, plane : Version \cup {NotCopied}]

\* The variables have values of their types.
TypeOK ==
  /\ pc \in [Rank -> {"post", "exchange", "barrier", "end"}]
  /\ call \in [Rank -> {1, 2}]
  /\ step \in [Rank -> Nat]
  /\ array \in [Rank -> [{0, 1} -> Version]]
  /\ halo \in [Rank -> [{0, 1} -> [Group -> Version]]]
  /\ send \in [Rank -> [Group -> Request]]
  /\ recv \in [Rank -> [Group -> Request]]
  /\ wire \in [Rank -> [Group -> Seq(Message)]]

\* A halo plane received in a step is of that step, although the tags do not
\* tell the steps apart and the neighbour may be a step ahead.
HaloCurrent ==
  \A r \in Rank : \A g \in Peers(r) :
    pc[r] = "exchange" /\ recv[r][g] = "complete" =>
      halo[r][Src(step[r])][g] = step[r]

\* A plane MPI has yet to read is still in place: the sender is in the step in
\* which it posted the send, and its slaves do not write that array.
SendIntact ==
  \A r \in Rank : \A g \in Peers(r) : \A k \in DOMAIN wire[r][g] :
    LET m == wire[r][g][k]
    IN m.plane = NotCopied =>
         /\ k = Len(wire[r][g])
         /\ send[r][g] = "pending"
         /\ m.from = Src(step[r]) /\ array[r][m.from] = step[r]

\* Neighbours in the same call are at most one step apart, and neither starts
\* the timed call, or ends it, before the other is through with the same steps;
\* so MPI never holds more than two planes from one to the other.
Lockstep ==
  \A r, s \in Rank : s = r + 1 =>
    /\ call[r] = call[s] => step[r] - step[s] \in {-1, 0, 1}
    /\ call[r] < call[s] => pc[r] = "barrier"
    /\ call[s] < call[r] => pc[s] = "barrier"
    /\ "end" \in {pc[r], pc[s]} => {pc[r], pc[s]} \subseteq {"barrier", "end"}
    /\ Len(wire[r][0]) <= 2 /\ Len(wire[s][1]) <= 2

Blocks == INSTANCE Jacobi WITH
  value <- [r \in Rank |-> array[r][Src(step[r])]]

\* The exchange keeps every process at the step, and the values, of the global
\* iteration, and the iteration goes on to its end.
ImplementsJacobi == Blocks!FairSpec

\* The exchanges of the call that process r has finished with neighbour g.
Got(r, g) ==
  IF g \notin Peers(r) THEN 0
  ELSE IF pc[r] = "exchange" /\ send[r][g] = "complete" /\ recv[r][g] = "complete"
    THEN step[r] + 1
  ELSE step[r]

View(r) == INSTANCE RankStep WITH
  peers <- Peers(r), call <- call[r], done <- step[r],
  got <- [g \in Group |-> Got(r, g)], returned <- pc[r] = "end"

\* Every process is to its neighbours what RankStep says, the contract that
\* CoreGroup keeps from the inside: no step ends before the planes of that
\* step are swapped both ways, and none is swapped twice.
ImplementsRankStep ==
  /\ \A r \in Rank : View(r)!Init
  /\ [][\A r \in Rank : [View(r)!Next]_(View(r)!rankVars)]_vars

\* Every process returns from both calls.
Termination == <>(\A r \in Rank : pc[r] = "end")

=============================================================================
