------------------------- MODULE HaloExchangeProof --------------------------
(***************************************************************************)
(* Proofs about HaloExchange, for every number of processes and of time    *)
(* steps: type correctness, HaloCurrent, SendIntact and Lockstep; and that *)
(* HaloExchange implements RankStep and the safety part of Jacobi.         *)
(*                                                                         *)
(* Messages carry no step.  The argument counts them: over both calls, a   *)
(* process has sent Sent(r) planes to each neighbour and received          *)
(* Received(r, g) from neighbour g.  What is on the wire are the messages  *)
(* between the two numbers, in order, so the number of a message, and with *)
(* it its step, is known from its place; and as a wire holds no negative   *)
(* number of messages, neighbours cannot be more than a step apart.        *)
(***************************************************************************)
EXTENDS HaloExchange, SequenceTheorems, TLAPS

\* Exchanges that are behind process r, in both calls.
Done(r) == (IF call[r] = 1 THEN 0 ELSE WarmUp) + step[r]

\* Planes r has sent to each neighbour, and received from neighbour g.
Sent(r) == IF pc[r] = "exchange" THEN Done(r) + 1 ELSE Done(r)

Received(r, g) ==
  IF pc[r] = "exchange" /\ recv[r][g] = "complete" THEN Done(r) + 1 ELSE Done(r)

\* The time step of the n-th exchange, from 0.
StepOf(n) == IF n < WarmUp THEN n ELSE n - WarmUp

\* Where a process is, and which requests it can have there.
Places ==
  \A r \in Rank :
    /\ pc[r] \in {"post", "exchange"} => step[r] < Steps(r)
    /\ pc[r] \in {"barrier", "end"} => step[r] = Steps(r)
    /\ pc[r] = "end" => call[r] = 2
    /\ \A g \in Group :
         /\ pc[r] # "exchange" => send[r][g] # "pending" /\ recv[r][g] # "pending"
         /\ pc[r] = "exchange" /\ g \in Peers(r) =>
              send[r][g] # "none" /\ recv[r][g] # "none"
         /\ g \notin Peers(r) => send[r][g] = "none" /\ recv[r][g] = "none"

\* The barrier between the calls and the one after the second.
Barriers ==
  \A r, s \in Rank :
    /\ call[r] < call[s] => pc[r] = "barrier"
    /\ pc[s] = "end" => call[r] = 2 /\ pc[r] \in {"barrier", "end"}

\* The array of the step has the values of the step; the warm-up leaves the
\* input in place.
Arrays ==
  \A r \in Rank :
    /\ array[r][Src(step[r])] = step[r]
    /\ call[r] = 1 => array[r][0] = 0

\* The messages on the wire are those sent and not received.
Counts ==
  \A r \in Rank, g \in Group :
    Len(wire[r][g]) =
      IF g \in Peers(r) THEN Sent(r) - Received(Neighbour(r, g), 1 - g) ELSE 0

\* Message k on the wire is of the exchange its place says.  A plane that has
\* not been copied is the last, that of the step its sender is in.
Messages ==
  \A r \in Rank : \A g \in Peers(r) : \A k \in 1 .. Len(wire[r][g]) :
    LET m == wire[r][g][k]
        n == Received(Neighbour(r, g), 1 - g) + k - 1
    IN IF m.plane = NotCopied
         THEN /\ k = Len(wire[r][g])
              /\ pc[r] = "exchange" /\ send[r][g] = "pending"
              /\ m.from = Src(step[r])
         ELSE m.plane = StepOf(n)

IInv ==
  /\ TypeOK /\ Places /\ Barriers /\ Arrays /\ Counts /\ Messages /\ HaloCurrent

-----------------------------------------------------------------------------
(* Operators.                                                              *)

\* Neighbours have each other as neighbours, in the other group.
LEMMA PeerOfPeer ==
  ASSUME NEW r \in Rank, NEW g \in Peers(r)
  PROVE  /\ g \in Group /\ 1 - g \in Group /\ g # 1 - g
         /\ Neighbour(r, g) \in Rank /\ Neighbour(r, g) # r
         /\ 1 - g \in Peers(Neighbour(r, g))
         /\ Neighbour(Neighbour(r, g), 1 - g) = r
         /\ 1 - (1 - g) = g
  BY HaloExchangeAssumption DEF Peers, Group, Neighbour, Rank

\* The two arrays alternate.
LEMMA SrcType ==
  ASSUME NEW s \in Nat
  PROVE  /\ Src(s) \in {0, 1} /\ 1 - Src(s) \in {0, 1} /\ 1 - Src(s) # Src(s)
         /\ Src(s + 1) = 1 - Src(s)
  BY DEF Src

\* Both calls have at least one step.
LEMMA StepsType ==
  ASSUME NEW r \in Rank
  PROVE  Steps(r) \in Nat \ {0} /\ (call[r] = 1 => Steps(r) = 1)
  BY HaloExchangeAssumption DEF Steps, WarmUp

\* The numbers of exchanges are natural numbers.
LEMMA CountTypes ==
  ASSUME TypeOK, NEW r \in Rank, NEW g \in Group
  PROVE  /\ Done(r) \in Nat /\ Sent(r) \in Nat /\ Received(r, g) \in Nat
         /\ Sent(r) \in {Done(r), Done(r) + 1}
         /\ Received(r, g) \in {Done(r), Done(r) + 1}
<1>1. step[r] \in Nat /\ call[r] \in {1, 2}
  BY DEF TypeOK
<1>2. Done(r) \in Nat
  BY <1>1 DEF Done, WarmUp
<1> QED
  BY <1>2 DEF Sent, Received

\* A process that has posted the exchange n is in the step of n.
LEMMA StepOfDone ==
  ASSUME TypeOK, Places, NEW r \in Rank, pc[r] \in {"post", "exchange"}
  PROVE  /\ StepOf(Done(r)) = step[r]
         /\ call[r] = 1 <=> Done(r) = 0
<1>1. step[r] \in Nat /\ call[r] \in {1, 2} /\ step[r] < Steps(r)
  BY DEF TypeOK, Places
<1> QED
  BY <1>1, StepsType DEF StepOf, Done, WarmUp

-----------------------------------------------------------------------------
(* Type correctness.                                                       *)

\* A plane on the wire, or read from its sender's array, is a version.
LEMMA PlaneType ==
  ASSUME TypeOK, NEW r \in Rank, NEW m \in Message
  PROVE  Plane(r, m) \in Version
<1>1. m.from \in {0, 1} /\ m.plane \in Version \cup {NotCopied}
  BY DEF Message
<1>2. array[r][m.from] \in Version
  BY <1>1 DEF TypeOK
<1> QED
  BY <1>1, <1>2 DEF Plane

\* A type-correct wire with one of its two sequences replaced is type-correct.
LEMMA WireType ==
  ASSUME TypeOK, NEW r \in Rank, NEW g \in Group, NEW q \in Seq(Message)
  PROVE  [wire EXCEPT ![r][g] = q] \in [Rank -> [Group -> Seq(Message)]]
  BY DEF TypeOK

\* The same for send and recv.
LEMMA RequestType ==
  ASSUME NEW f \in [Rank -> [Group -> Request]],
         NEW r \in Rank, NEW g \in Group
  PROVE  [f EXCEPT ![r][g] = "complete"] \in [Rank -> [Group -> Request]]
  BY DEF Request

\* Every step keeps the types.
LEMMA TypeStep ==
  ASSUME TypeOK, Places, [Next]_vars
  PROVE  TypeOK'
<1>1. ASSUME NEW r \in Rank, Post(r) PROVE TypeOK'
  <2>1. Requests(r, "pending") \in [Group -> Request]
    BY DEF Requests, Request
  <2>2. send' \in [Rank -> [Group -> Request]] /\ recv' \in [Rank -> [Group -> Request]]
    BY <1>1, <2>1 DEF Post, TypeOK
  <2>3. step[r] \in Nat
    BY DEF TypeOK
  <2> DEFINE m == [from |-> Src(step[r]), plane |-> NotCopied]
  <2>4. m \in Message
    BY <2>3, SrcType DEF Message
  <2>5. \A g \in Group : wire[r][g] \in Seq(Message) /\ Append(wire[r][g], m) \in Seq(Message)
    BY <2>4, AppendProperties DEF TypeOK
  <2> HIDE DEF m
  <2>6. wire' = [wire EXCEPT ![r] = [g \in Group |->
                   IF g \in Peers(r) THEN Append(wire[r][g], m) ELSE wire[r][g]]]
    BY <1>1 DEF Post, TypeOK, m
  <2>7. wire' \in [Rank -> [Group -> Seq(Message)]]
    BY <2>5, <2>6 DEF TypeOK
  <2> QED
    BY <1>1, <2>2, <2>7 DEF Post, TypeOK
<1>2. ASSUME NEW r \in Rank, NEW g \in Group, NEW k \in DOMAIN wire[r][g],
             Copy(r, g, k)
      PROVE  TypeOK'
  <2>1. wire[r][g] \in Seq(Message) /\ k \in 1 .. Len(wire[r][g])
    BY LenProperties DEF TypeOK
  <2>2. wire[r][g][k] \in Message
    BY <2>1, ElementOfSeq
  <2> DEFINE m == [wire[r][g][k] EXCEPT !.plane = Plane(r, wire[r][g][k])]
  <2>3. m \in Message
    BY <2>2, PlaneType DEF Message
  <2>4. [wire[r][g] EXCEPT ![k] = m] \in Seq(Message)
    BY <2>1, <2>3, ExceptSeq
  <2>5. wire' = [wire EXCEPT ![r][g] = [wire[r][g] EXCEPT ![k] = m]]
    BY <1>2 DEF Copy, TypeOK
  <2>6. wire' \in [Rank -> [Group -> Seq(Message)]]
    BY <2>4, <2>5, WireType
  <2>7. send' \in [Rank -> [Group -> Request]]
    BY <1>2, RequestType DEF Copy, TypeOK
  <2> QED
    BY <1>2, <2>6, <2>7 DEF Copy, TypeOK
<1>3. ASSUME NEW r \in Rank, NEW g \in Group, Deliver(r, g)
      PROVE  TypeOK'
  <2> DEFINE s == Neighbour(r, g)
             h == 1 - g
  <2>1. g \in Peers(r)
    BY <1>3 DEF Places, Deliver
  <2>2. s \in Rank /\ h \in Group
    BY <2>1, PeerOfPeer
  <2>3. wire[s][h] \in Seq(Message) /\ wire[s][h] # <<>>
    BY <1>3, <2>2 DEF TypeOK, Deliver
  <2>4. Head(wire[s][h]) \in Message /\ Tail(wire[s][h]) \in Seq(Message)
    BY <2>3, HeadTailProperties
  <2>5. wire' = [wire EXCEPT ![s][h] = Tail(wire[s][h])]
    BY <1>3, <2>2 DEF Deliver, TypeOK
  <2>6. wire' \in [Rank -> [Group -> Seq(Message)]]
    BY <2>2, <2>4, <2>5, WireType
  <2>7. send' \in [Rank -> [Group -> Request]]
    BY <1>3, <2>2, RequestType DEF Deliver, TypeOK
  <2>8. recv' \in [Rank -> [Group -> Request]]
    BY <1>3, RequestType DEF Deliver, TypeOK
  <2>9. Plane(s, Head(wire[s][h])) \in Version
    BY <2>2, <2>4, PlaneType
  <2>10. step[r] \in Nat /\ Src(step[r]) \in {0, 1}
    BY SrcType DEF TypeOK
  <2>11. halo' = [halo EXCEPT ![r][Src(step[r])][g] = Plane(s, Head(wire[s][h]))]
    BY <1>3 DEF Deliver
  <2>12. halo' \in [Rank -> [{0, 1} -> [Group -> Version]]]
    BY <2>9, <2>10, <2>11 DEF TypeOK
  <2> QED
    BY <1>3, <2>6, <2>7, <2>8, <2>12 DEF Deliver, TypeOK
<1>4. ASSUME NEW r \in Rank, Advance(r) PROVE TypeOK'
  <2>1. step[r] \in Nat /\ Src(step[r]) \in {0, 1} /\ 1 - Src(step[r]) \in {0, 1}
    BY SrcType DEF TypeOK
  <2>2. step[r] + 1 \in Version /\ Garbage \in Version
    BY <2>1 DEF Version
  <2>3. array' \in [Rank -> [{0, 1} -> Version]]
    BY <1>4, <2>1, <2>2 DEF Advance, TypeOK
  <2> QED
    BY <1>4, <2>1, <2>3 DEF Advance, TypeOK
<1>5. ASSUME NEW r \in Rank, LeaveBarrier(r) PROVE TypeOK'
  <2>1. CASE call[r] = 1
    <3>1. /\ call' = [call EXCEPT ![r] = 2] /\ step' = [step EXCEPT ![r] = 0]
          /\ array' = [array EXCEPT ![r][1] = Garbage]
          /\ pc' = [pc EXCEPT ![r] = "post"]
      BY <1>5, <2>1 DEF LeaveBarrier
    <3>2. Garbage \in Version
      BY DEF Version
    <3>3. array' \in [Rank -> [{0, 1} -> Version]]
      BY <3>1, <3>2 DEF TypeOK
    <3> QED
      BY <1>5, <3>1, <3>3 DEF LeaveBarrier, TypeOK
  <2>2. CASE call[r] # 1
    BY <1>5, <2>2 DEF LeaveBarrier, TypeOK
  <2> QED
    BY <2>1, <2>2
<1>6. CASE UNCHANGED vars
  BY <1>6 DEF vars, TypeOK
<1> QED
  BY <1>1, <1>2, <1>3, <1>4, <1>5, <1>6 DEF Next

-----------------------------------------------------------------------------
(* One lemma per action: the step keeps the parts of the invariant.        *)

\* What the invariant says of the sequence on a wire.
LEMMA WireSeq ==
  ASSUME TypeOK, NEW r \in Rank, NEW g \in Group
  PROVE  /\ wire[r][g] \in Seq(Message)
         /\ Len(wire[r][g]) \in Nat
         /\ DOMAIN wire[r][g] = 1 .. Len(wire[r][g])
         /\ \A k \in 1 .. Len(wire[r][g]) : wire[r][g][k] \in Message
<1>1. wire[r][g] \in Seq(Message)
  BY DEF TypeOK
<1> QED
  BY <1>1, LenProperties, ElementOfSeq

\* Isend and Irecv: one message more to each neighbour, of the step of r.
LEMMA PostStep ==
  ASSUME IInv, NEW r \in Rank, Post(r)
  PROVE  Places' /\ Barriers' /\ Arrays' /\ Counts' /\ Messages' /\ HaloCurrent'
<1> USE DEF IInv
<1>1. /\ pc[r] = "post" /\ pc' = [pc EXCEPT ![r] = "exchange"]
      /\ \A q \in Rank, g \in Group :
           /\ send'[q][g] = IF q = r THEN IF g \in Peers(r) THEN "pending" ELSE "none"
                            ELSE send[q][g]
           /\ recv'[q][g] = IF q = r THEN IF g \in Peers(r) THEN "pending" ELSE "none"
                            ELSE recv[q][g]
      /\ UNCHANGED <<call, step, array, halo>>
  BY DEF Post, TypeOK, Requests
<1> DEFINE m == [from |-> Src(step[r]), plane |-> NotCopied]
<1>2. \A q \in Rank, g \in Group :
        wire'[q][g] = IF q = r /\ g \in Peers(r)
                        THEN Append(wire[q][g], m) ELSE wire[q][g]
  BY DEF Post, TypeOK
<1>3. m \in Message /\ m.plane = NotCopied /\ m.from = Src(step[r])
  <2>1. Src(step[r]) \in {0, 1}
    BY SrcType DEF TypeOK
  <2> QED
    BY <2>1 DEF Message
<1> HIDE DEF m
<1>4. \A q \in Rank, g \in Group :
        /\ q = r /\ g \in Peers(r) =>
             /\ Len(wire'[q][g]) = Len(wire[q][g]) + 1
             /\ \A k \in 1 .. Len(wire[q][g]) : wire'[q][g][k] = wire[q][g][k]
             /\ wire'[q][g][Len(wire[q][g]) + 1] = m
        /\ ~(q = r /\ g \in Peers(r)) => wire'[q][g] = wire[q][g]
  <2> TAKE q \in Rank, g \in Group
  <2>1. wire[q][g] \in Seq(Message)
    BY WireSeq
  <2>2. CASE q = r /\ g \in Peers(r)
    <3>1. wire'[q][g] = Append(wire[q][g], m)
      BY <1>2, <2>2
    <3> QED
      BY <1>3, <2>1, <2>2, <3>1, AppendProperties
  <2>3. CASE ~(q = r /\ g \in Peers(r))
    BY <1>2, <2>3
  <2> QED
    BY <2>2, <2>3
<1>5. \A q \in Rank, g \in Group :
        /\ Done(q)' = Done(q)
        /\ Received(q, g)' = Received(q, g)
        /\ Sent(q)' = IF q = r THEN Sent(q) + 1 ELSE Sent(q)
  <2>1. call' = call /\ step' = step
    BY <1>1
  <2>2. \A q \in Rank : pc'[q] = IF q = r THEN "exchange" ELSE pc[q]
    BY <1>1 DEF TypeOK
  <2>3. \A q \in Rank : Done(q)' = Done(q)
    BY <2>1 DEF Done
  <2>4. \A q \in Rank : Sent(q)' = IF q = r THEN Sent(q) + 1 ELSE Sent(q)
    BY <1>1, <2>2, <2>3 DEF Sent
  <2>5. \A q \in Rank, g \in Group : Received(q, g)' = Received(q, g)
    BY <1>1, <2>2, <2>3 DEF Received
  <2> QED
    BY <2>3, <2>4, <2>5
<1>6. Places'
  BY <1>1 DEF Places, Peers, Steps, TypeOK
<1>7. Barriers'
  BY <1>1 DEF Barriers, TypeOK
<1>8. Arrays'
  BY <1>1 DEF Arrays
<1>9. \A q \in Rank, g \in Group :
        Len(wire'[q][g]) = IF q = r /\ g \in Peers(r)
                             THEN Len(wire[q][g]) + 1 ELSE Len(wire[q][g])
  BY <1>4
<1>10. Counts'
  <2> SUFFICES ASSUME NEW q \in Rank, NEW g \in Group
               PROVE  Len(wire'[q][g]) =
                        IF g \in Peers(q)
                          THEN Sent(q)' - Received(Neighbour(q, g), 1 - g)' ELSE 0
    BY DEF Counts, Peers, Neighbour
  <2>1. CASE g \in Peers(q)
    <3>1. /\ Neighbour(q, g) \in Rank /\ 1 - g \in Group
      BY <2>1, PeerOfPeer
    <3>2. Len(wire[q][g]) = Sent(q) - Received(Neighbour(q, g), 1 - g)
      BY <2>1 DEF Counts
    <3>3. Sent(q) \in Nat /\ Received(Neighbour(q, g), 1 - g) \in Nat
      BY <3>1, CountTypes
    <3> QED
      BY <1>5, <1>9, <2>1, <3>1, <3>2, <3>3
  <2>2. CASE g \notin Peers(q)
    BY <1>9, <2>2 DEF Counts
  <2> QED
    BY <2>1, <2>2
<1>11. Messages'
  <2> SUFFICES ASSUME NEW q \in Rank, NEW g \in Peers(q),
                      NEW k \in 1 .. Len(wire'[q][g])
               PROVE  IF wire'[q][g][k].plane = NotCopied
                        THEN /\ k = Len(wire'[q][g])
                             /\ pc'[q] = "exchange" /\ send'[q][g] = "pending"
                             /\ wire'[q][g][k].from = Src(step'[q])
                        ELSE wire'[q][g][k].plane =
                               StepOf(Received(Neighbour(q, g), 1 - g)' + k - 1)
    BY DEF Messages, Peers, Neighbour, StepOf
  <2>1. /\ Neighbour(q, g) \in Rank /\ 1 - g \in Group /\ g \in Group
        /\ Received(Neighbour(q, g), 1 - g)' = Received(Neighbour(q, g), 1 - g)
    BY <1>5, PeerOfPeer
  <2>2. CASE q = r /\ k = Len(wire[q][g]) + 1
    <3>1. wire'[q][g][k] = m
      BY <1>4, <2>1, <2>2
    <3> QED
      BY <1>1, <1>3, <1>9, <2>1, <2>2, <3>1 DEF TypeOK
  <2>3. CASE ~(q = r /\ k = Len(wire[q][g]) + 1)
    <3>1. k \in 1 .. Len(wire[q][g])
      BY <1>9, <2>1, <2>3, WireSeq
    <3>2. wire'[q][g][k] = wire[q][g][k]
      BY <1>4, <2>1, <3>1
    <3>3. IF wire[q][g][k].plane = NotCopied
            THEN /\ k = Len(wire[q][g])
                 /\ pc[q] = "exchange" /\ send[q][g] = "pending"
                 /\ wire[q][g][k].from = Src(step[q])
            ELSE wire[q][g][k].plane =
                   StepOf(Received(Neighbour(q, g), 1 - g) + k - 1)
      BY <3>1 DEF Messages
    <3>4. wire[q][g][k].plane = NotCopied => q # r
      BY <1>1, <3>3
    <3> QED
      BY <1>1, <1>9, <2>1, <3>2, <3>3, <3>4 DEF TypeOK
  <2> QED
    BY <2>2, <2>3
<1>12. HaloCurrent'
  BY <1>1, PeerOfPeer DEF HaloCurrent, Peers, TypeOK
<1> QED
  BY <1>6, <1>7, <1>8, <1>10, <1>11, <1>12

\* MPI copies a plane: it is the last one sent, of the step the sender is in.
LEMMA CopyStep ==
  ASSUME IInv, NEW r \in Rank, NEW g \in Group, NEW k \in DOMAIN wire[r][g],
         Copy(r, g, k)
  PROVE  Places' /\ Barriers' /\ Arrays' /\ Counts' /\ Messages' /\ HaloCurrent'
<1> USE DEF IInv
<1>1. /\ wire[r][g] \in Seq(Message) /\ k \in 1 .. Len(wire[r][g])
      /\ Len(wire[r][g]) \in Nat
  BY WireSeq
<1>2. g \in Peers(r)
  BY <1>1 DEF Counts
<1>3. /\ wire[r][g][k].plane = NotCopied
      /\ k = Len(wire[r][g]) /\ pc[r] = "exchange" /\ send[r][g] = "pending"
      /\ wire[r][g][k].from = Src(step[r])
  BY <1>1, <1>2 DEF Copy, Messages
<1>4. /\ \A q \in Rank, h \in Group :
           send'[q][h] = IF q = r /\ h = g THEN "complete" ELSE send[q][h]
      /\ UNCHANGED <<pc, call, step, array, halo, recv>>
  BY DEF Copy, TypeOK
<1> DEFINE m == [wire[r][g][k] EXCEPT !.plane = Plane(r, wire[r][g][k])]
<1>5. wire[r][g][k] \in Message /\ step[r] \in Nat
  BY <1>1, ElementOfSeq DEF TypeOK
<1>6. m \in Message /\ m.plane = step[r]
  <2>1. Plane(r, wire[r][g][k]) = step[r]
    BY <1>3 DEF Plane, Arrays
  <2> QED
    BY <1>5, <2>1 DEF Message, Version
<1>7. wire' = [wire EXCEPT ![r][g] = [wire[r][g] EXCEPT ![k] = m]]
  BY DEF Copy, TypeOK
<1> HIDE DEF m
<1>8. \A q \in Rank, h \in Group :
        /\ Len(wire'[q][h]) = Len(wire[q][h])
        /\ \A j \in 1 .. Len(wire[q][h]) :
             wire'[q][h][j] = IF q = r /\ h = g /\ j = k THEN m ELSE wire[q][h][j]
  <2> TAKE q \in Rank, h \in Group
  <2>1. CASE q = r /\ h = g
    <3>1. wire'[q][h] = [wire[r][g] EXCEPT ![k] = m]
      BY <1>7, <2>1 DEF TypeOK
    <3> QED
      BY <1>1, <1>6, <2>1, <3>1, ExceptSeq
  <2>2. CASE ~(q = r /\ h = g)
    <3>1. wire'[q][h] = wire[q][h]
      BY <1>7, <2>2 DEF TypeOK
    <3> QED
      BY <2>2, <3>1
  <2> QED
    BY <2>1, <2>2
<1>9. \A q \in Rank, h \in Group :
        Done(q)' = Done(q) /\ Received(q, h)' = Received(q, h) /\ Sent(q)' = Sent(q)
  BY <1>4 DEF Done, Received, Sent
<1>10. Places' /\ Barriers' /\ Arrays' /\ HaloCurrent'
  BY <1>2, <1>3, <1>4
  DEF Places, Barriers, Arrays, HaloCurrent, Peers, Neighbour, Steps, TypeOK
<1>11. Counts'
  <2> SUFFICES ASSUME NEW q \in Rank, NEW h \in Group
               PROVE  Len(wire'[q][h]) =
                        IF h \in Peers(q)
                          THEN Sent(q)' - Received(Neighbour(q, h), 1 - h)' ELSE 0
    BY DEF Counts, Peers, Neighbour
  <2> QED
    BY <1>8, <1>9, PeerOfPeer DEF Counts
<1>12. Messages'
  <2> SUFFICES ASSUME NEW q \in Rank, NEW h \in Peers(q),
                      NEW j \in 1 .. Len(wire'[q][h])
               PROVE  IF wire'[q][h][j].plane = NotCopied
                        THEN /\ j = Len(wire'[q][h])
                             /\ pc'[q] = "exchange" /\ send'[q][h] = "pending"
                             /\ wire'[q][h][j].from = Src(step'[q])
                        ELSE wire'[q][h][j].plane =
                               StepOf(Received(Neighbour(q, h), 1 - h)' + j - 1)
    BY DEF Messages, Peers, Neighbour, StepOf
  <2>1. /\ Neighbour(q, h) \in Rank /\ 1 - h \in Group /\ h \in Group
        /\ Received(Neighbour(q, h), 1 - h)' = Received(Neighbour(q, h), 1 - h)
        /\ j \in 1 .. Len(wire[q][h])
    BY <1>8, <1>9, PeerOfPeer
  <2>2. CASE q = r /\ h = g /\ j = k
    <3>1. Received(Neighbour(r, g), 1 - g) + k - 1 = Done(r)
      <4>1. Len(wire[r][g]) = Sent(r) - Received(Neighbour(r, g), 1 - g)
        BY <1>2 DEF Counts
      <4> QED
        BY <1>3, <2>1, <2>2, <4>1, CountTypes DEF Sent
    <3>2. StepOf(Done(r)) = step[r]
      BY <1>3, StepOfDone
    <3>3. wire'[q][h][j] = m
      BY <1>8, <2>1, <2>2
    <3>4. wire'[q][h][j].plane # NotCopied
      BY <1>5, <1>6, <3>3 DEF NotCopied
    <3> QED
      BY <1>6, <2>1, <2>2, <3>1, <3>2, <3>3, <3>4
  <2>3. CASE ~(q = r /\ h = g /\ j = k)
    <3>1. wire'[q][h][j] = wire[q][h][j]
      BY <1>8, <2>1, <2>3
    <3>2. IF wire[q][h][j].plane = NotCopied
            THEN /\ j = Len(wire[q][h])
                 /\ pc[q] = "exchange" /\ send[q][h] = "pending"
                 /\ wire[q][h][j].from = Src(step[q])
            ELSE wire[q][h][j].plane =
                   StepOf(Received(Neighbour(q, h), 1 - h) + j - 1)
      BY <2>1 DEF Messages
    <3>3. wire[q][h][j].plane = NotCopied => ~(q = r /\ h = g)
      BY <1>3, <2>3, <3>2
    <3> QED
      BY <1>4, <1>8, <2>1, <3>1, <3>2, <3>3
  <2> QED
    BY <2>2, <2>3
<1> QED
  BY <1>10, <1>11, <1>12

\* A message arrives: it is the one of the step the receiver is in.
LEMMA DeliverStep ==
  ASSUME IInv, NEW r \in Rank, NEW g \in Group, Deliver(r, g)
  PROVE  Places' /\ Barriers' /\ Arrays' /\ Counts' /\ Messages' /\ HaloCurrent'
<1> USE DEF IInv
<1> DEFINE s == Neighbour(r, g)
           h == 1 - g
           m == Head(wire[s][h])
<1>1. /\ recv[r][g] = "pending" /\ wire[s][h] # <<>>
      /\ recv' = [recv EXCEPT ![r][g] = "complete"]
      /\ wire' = [wire EXCEPT ![s][h] = Tail(@)]
      /\ halo' = [halo EXCEPT ![r][Src(step[r])][g] = Plane(s, m)]
      /\ send' = IF m.plane = NotCopied
                   THEN [send EXCEPT ![s][h] = "complete"] ELSE send
      /\ UNCHANGED <<pc, call, step, array>>
  BY DEF Deliver
<1>2. g \in Peers(r) /\ pc[r] = "exchange"
  BY <1>1 DEF Places
<1>3. /\ s \in Rank /\ h \in Group /\ s # r /\ h \in Peers(s)
      /\ Neighbour(s, h) = r /\ 1 - h = g
  BY <1>2, PeerOfPeer
<1> HIDE DEF s, h
<1>4. /\ wire[s][h] \in Seq(Message) /\ Len(wire[s][h]) \in Nat
      /\ Len(wire[s][h]) >= 1 /\ m = wire[s][h][1] /\ m \in Message
  <2>1. wire[s][h] \in Seq(Message)
    BY <1>3, WireSeq
  <2> QED
    BY <1>1, <2>1, EmptySeq, ElementOfSeq, LenProperties
<1>5. /\ Received(r, g) = Done(r) /\ Sent(r) = Done(r) + 1
      /\ StepOf(Done(r)) = step[r]
      /\ Done(r) \in Nat /\ step[r] \in Nat
  BY <1>1, <1>2, StepOfDone, CountTypes DEF Received, Sent, TypeOK
<1>6. Len(wire[s][h]) = Sent(s) - Done(r)
  BY <1>3, <1>5 DEF Counts
<1>7. Plane(s, m) = IF m.plane = NotCopied THEN array[s][m.from] ELSE m.plane
  BY DEF Plane
<1>8. \A q \in Rank, f \in Group :
        send'[q][f] = IF q = s /\ f = h /\ m.plane = NotCopied
                        THEN "complete" ELSE send[q][f]
  BY <1>1, <1>3 DEF TypeOK
<1> HIDE DEF m
<1>9. IF m.plane = NotCopied
        THEN /\ 1 = Len(wire[s][h])
             /\ pc[s] = "exchange" /\ send[s][h] = "pending"
             /\ m.from = Src(step[s])
        ELSE m.plane = StepOf(Done(r))
  <2>1. 1 \in 1 .. Len(wire[s][h])
    BY <1>4
  <2>2. IF wire[s][h][1].plane = NotCopied
          THEN /\ 1 = Len(wire[s][h])
               /\ pc[s] = "exchange" /\ send[s][h] = "pending"
               /\ wire[s][h][1].from = Src(step[s])
          ELSE wire[s][h][1].plane =
                 StepOf(Received(Neighbour(s, h), 1 - h) + 1 - 1)
    BY <1>3, <2>1 DEF Messages
  <2>3. Received(Neighbour(s, h), 1 - h) + 1 - 1 = Done(r)
    BY <1>3, <1>5
  <2> QED
    BY <1>4, <2>2, <2>3
<1>10. m.plane = NotCopied => step[s] = step[r]
  <2> SUFFICES ASSUME m.plane = NotCopied PROVE step[s] = step[r]
    OBVIOUS
  <2>1. Done(s) \in Nat /\ Sent(s) = Done(s) + 1 /\ StepOf(Done(s)) = step[s]
    BY <1>3, <1>9, StepOfDone, CountTypes DEF Sent
  <2>2. Done(s) = Done(r)
    BY <1>5, <1>6, <1>9, <2>1
  <2> QED
    BY <1>5, <2>1, <2>2
<1>11. Plane(s, m) = step[r]
  BY <1>3, <1>5, <1>10, <1>7, <1>9 DEF Arrays
<1>12. \A q \in Rank, f \in Group :
        /\ recv'[q][f] = IF q = r /\ f = g THEN "complete" ELSE recv[q][f]
        /\ send'[q][f] = IF q = s /\ f = h /\ m.plane = NotCopied
                           THEN "complete" ELSE send[q][f]
        /\ halo'[q][Src(step[q])][f] =
             IF q = r /\ f = g THEN step[r] ELSE halo[q][Src(step[q])][f]
  <2>1. \A q \in Rank : Src(step[q]) \in {0, 1}
    BY SrcType DEF TypeOK
  <2>3. halo' = [halo EXCEPT ![r][Src(step[r])][g] = step[r]]
    BY <1>1, <1>11
  <2>4. \A q \in Rank, f \in Group :
          halo'[q][Src(step[q])][f] =
             IF q = r /\ f = g THEN step[r] ELSE halo[q][Src(step[q])][f]
    BY <2>1, <2>3 DEF TypeOK
  <2> QED
    BY <1>1, <1>8, <2>4 DEF TypeOK
<1>13. \A q \in Rank, f \in Group :
        /\ q = s /\ f = h => /\ Len(wire'[q][f]) = Len(wire[q][f]) - 1
                            /\ \A j \in 1 .. Len(wire'[q][f]) :
                                 wire'[q][f][j] = wire[q][f][j + 1]
        /\ ~(q = s /\ f = h) => wire'[q][f] = wire[q][f]
  <2> TAKE q \in Rank, f \in Group
  <2>1. CASE q = s /\ f = h
    <3>1. wire'[q][f] = Tail(wire[s][h])
      BY <1>1, <1>3, <2>1 DEF TypeOK
    <3> QED
      <4>1. \A j \in 1 .. Len(Tail(wire[s][h])) :
              Tail(wire[s][h])[j] = wire[s][h][j + 1]
        BY <1>1, <1>4, HeadTailProperties
      <4>2. Len(Tail(wire[s][h])) = Len(wire[s][h]) - 1
        BY <1>1, <1>4, HeadTailProperties
      <4> QED
        BY <2>1, <3>1, <4>1, <4>2
  <2>2. CASE ~(q = s /\ f = h)
    BY <1>1, <1>3, <2>2 DEF TypeOK
  <2> QED
    BY <2>1, <2>2
<1>14. \A q \in Rank, f \in Group :
        /\ Done(q)' = Done(q) /\ Sent(q)' = Sent(q)
        /\ Received(q, f)' = IF q = r /\ f = g THEN Received(q, f) + 1
                             ELSE Received(q, f)
  BY <1>1, <1>2, <1>12 DEF Done, Received, Sent
<1>15. Places' /\ Barriers' /\ Arrays'
  <2>1. UNCHANGED <<pc, call, step, array>>
    BY <1>1
  <2>2. Barriers' /\ Arrays'
    BY <2>1 DEF Barriers, Arrays, Src
  <2>3. \A q \in Rank : Peers(q)' = Peers(q) /\ Steps(q)' = Steps(q)
    BY <2>1 DEF Peers, Neighbour, Steps
  <2>4. pc[r] = "exchange" /\ g \in Peers(r)
    BY <1>2, <1>3
  <2>5. m.plane = NotCopied => pc[s] = "exchange" /\ h \in Peers(s)
    BY <1>3, <1>9
  <2>6. ASSUME NEW q \in Rank, NEW f \in Group
        PROVE  /\ pc[q] # "exchange" =>
                    send'[q][f] # "pending" /\ recv'[q][f] # "pending"
               /\ pc[q] = "exchange" /\ f \in Peers(q) =>
                    send'[q][f] # "none" /\ recv'[q][f] # "none"
               /\ f \notin Peers(q) =>
                    send'[q][f] = "none" /\ recv'[q][f] = "none"
    <3>1. \/ recv'[q][f] = recv[q][f]
          \/ q = r /\ f = g /\ recv'[q][f] = "complete"
      BY <1>12
    <3>2. \/ send'[q][f] = send[q][f]
          \/ q = s /\ f = h /\ m.plane = NotCopied /\ send'[q][f] = "complete"
      BY <1>12
    <3> QED
      BY <2>4, <2>5, <3>1, <3>2 DEF Places
  <2>7. Places'
    BY <2>1, <2>3, <2>6 DEF Places
  <2> QED
    BY <2>2, <2>7
<1>16. HaloCurrent'
  BY <1>1, <1>5, <1>12, PeerOfPeer DEF HaloCurrent, Peers, Neighbour
<1>17. \A q \in Rank : \A f \in Peers(q) :
         /\ f \in Group /\ 1 - f \in Group /\ Neighbour(q, f) \in Rank
         /\ (q = s /\ f = h) <=> (Neighbour(q, f) = r /\ 1 - f = g)
  <2> TAKE q \in Rank
  <2> TAKE f \in Peers(q)
  <2>1. /\ f \in Group /\ 1 - f \in Group /\ Neighbour(q, f) \in Rank
        /\ Neighbour(Neighbour(q, f), 1 - f) = q /\ 1 - (1 - f) = f
    BY PeerOfPeer
  <2> QED
    BY <1>3, <2>1 DEF s, h
<1>18. Counts'
  <2> SUFFICES ASSUME NEW q \in Rank, NEW f \in Group
               PROVE  Len(wire'[q][f]) =
                        IF f \in Peers(q)
                          THEN Sent(q)' - Received(Neighbour(q, f), 1 - f)' ELSE 0
    BY DEF Counts, Peers, Neighbour
  <2>1. CASE f \in Peers(q)
    <3>1. Len(wire[q][f]) = Sent(q) - Received(Neighbour(q, f), 1 - f)
      BY <2>1 DEF Counts
    <3>2. Sent(q) \in Nat /\ Received(Neighbour(q, f), 1 - f) \in Nat
      BY <1>17, <2>1, CountTypes
    <3> QED
      BY <1>13, <1>14, <1>17, <2>1, <3>1, <3>2, SMTT(30)
  <2>2. CASE f \notin Peers(q)
    BY <1>3, <1>13, <2>2 DEF Counts
  <2> QED
    BY <2>1, <2>2
<1>19. Messages'
  <2> SUFFICES ASSUME NEW q \in Rank, NEW f \in Peers(q),
                      NEW j \in 1 .. Len(wire'[q][f])
               PROVE  IF wire'[q][f][j].plane = NotCopied
                        THEN /\ j = Len(wire'[q][f])
                             /\ pc'[q] = "exchange" /\ send'[q][f] = "pending"
                             /\ wire'[q][f][j].from = Src(step'[q])
                        ELSE wire'[q][f][j].plane =
                               StepOf(Received(Neighbour(q, f), 1 - f)' + j - 1)
    BY DEF Messages, Peers, Neighbour, StepOf
  <2>1. /\ f \in Group /\ 1 - f \in Group /\ Neighbour(q, f) \in Rank
        /\ Received(Neighbour(q, f), 1 - f) \in Nat
        /\ Len(wire[q][f]) \in Nat
    BY <1>17, CountTypes, WireSeq
  <2>2. CASE q = s /\ f = h
    <3>1. /\ j + 1 \in 1 .. Len(wire[q][f]) /\ wire'[q][f][j] = wire[q][f][j + 1]
          /\ Len(wire'[q][f]) = Len(wire[q][f]) - 1
      BY <1>13, <2>1, <2>2, SMTT(30)
    <3>2. IF wire[q][f][j + 1].plane = NotCopied
            THEN /\ j + 1 = Len(wire[q][f])
                 /\ pc[q] = "exchange" /\ send[q][f] = "pending"
                 /\ wire[q][f][j + 1].from = Src(step[q])
            ELSE wire[q][f][j + 1].plane =
                   StepOf(Received(Neighbour(q, f), 1 - f) + (j + 1) - 1)
      BY <3>1 DEF Messages
    <3>3. m.plane # NotCopied
      BY <1>9, <2>2, <3>1
    <3>4. Received(Neighbour(q, f), 1 - f)' + j - 1
            = Received(Neighbour(q, f), 1 - f) + (j + 1) - 1
      BY <1>14, <1>17, <2>1, <2>2
    <3> QED
      BY <1>1, <1>12, <2>1, <3>1, <3>2, <3>3, <3>4, SMTT(30)
  <2>3. CASE ~(q = s /\ f = h)
    <3>1. wire'[q][f] = wire[q][f] /\ send'[q][f] = send[q][f]
      BY <1>12, <1>13, <2>1, <2>3
    <3>2. Received(Neighbour(q, f), 1 - f)' = Received(Neighbour(q, f), 1 - f)
      BY <1>14, <1>17, <2>3
    <3>3. IF wire[q][f][j].plane = NotCopied
            THEN /\ j = Len(wire[q][f])
                 /\ pc[q] = "exchange" /\ send[q][f] = "pending"
                 /\ wire[q][f][j].from = Src(step[q])
            ELSE wire[q][f][j].plane =
                   StepOf(Received(Neighbour(q, f), 1 - f) + j - 1)
      BY <3>1 DEF Messages
    <3> QED
      BY <1>1, <3>1, <3>2, <3>3
  <2> QED
    BY <2>2, <2>3
<1> QED
  BY <1>15, <1>16, <1>18, <1>19

\* A step ends: its exchanges were complete before and are behind r now, so no
\* count changes; the new array is that of the next step.
LEMMA AdvanceStep ==
  ASSUME IInv, NEW r \in Rank, Advance(r)
  PROVE  Places' /\ Barriers' /\ Arrays' /\ Counts' /\ Messages' /\ HaloCurrent'
<1> USE DEF IInv
<1> DEFINE b == Src(step[r])
           last == step[r] + 1 = Steps(r)
<1>1. /\ pc[r] = "exchange"
      /\ \A g \in Peers(r) : send[r][g] = "complete" /\ recv[r][g] = "complete"
      /\ step' = [step EXCEPT ![r] = @ + 1]
      /\ pc' = [pc EXCEPT ![r] = IF last THEN "barrier" ELSE "post"]
      /\ UNCHANGED <<call, halo, send, recv, wire>>
  BY DEF Advance, ExchangeDone, SendsDone, ReceivesDone
<1>2. /\ step[r] \in Nat /\ b \in {0, 1} /\ 1 - b \in {0, 1} /\ 1 - b # b
      /\ Src(step[r] + 1) = 1 - b
      /\ step[r] < Steps(r) /\ Steps(r) \in Nat /\ (call[r] = 1 => Steps(r) = 1)
      /\ call[r] \in {1, 2}
  BY <1>1, SrcType, StepsType DEF TypeOK, Places
<1>3. /\ array'[r][1 - b] = step[r] + 1
      /\ last => array'[r][b] = array[r][b]
      /\ \A q \in Rank : q # r => array'[q] = array[q]
  <2>1. array[r][b] = step[r] /\ \A g \in Peers(r) : halo[r][b][g] = step[r]
    BY <1>1 DEF Arrays, HaloCurrent
  <2>2. array' = [array EXCEPT ![r][1 - b] = step[r] + 1,
                               ![r][b] = IF last THEN @ ELSE Garbage]
    BY <2>1 DEF Advance
  <2> HIDE DEF b, last
  <2> QED
    BY <1>2, <2>2 DEF TypeOK
<1>4. \A q \in Rank : step'[q] = IF q = r THEN step[q] + 1 ELSE step[q]
  BY <1>1 DEF TypeOK
<1>5. \A q \in Rank :
        /\ Done(q)' = IF q = r THEN Done(q) + 1 ELSE Done(q)
        /\ Sent(q)' = Sent(q)
        /\ \A g \in Peers(q) : Received(q, g)' = Received(q, g)
  <2> TAKE q \in Rank
  <2>1. Done(q)' = IF q = r THEN Done(q) + 1 ELSE Done(q)
    BY <1>1, <1>2, <1>4 DEF Done, WarmUp
  <2>2. /\ pc'[q] = IF q = r THEN IF last THEN "barrier" ELSE "post" ELSE pc[q]
        /\ recv' = recv
    BY <1>1 DEF TypeOK
  <2> QED
    BY <1>1, <2>1, <2>2 DEF Sent, Received
<1>6. Places'
  BY <1>1, <1>2, <1>4 DEF Places, Peers, Steps, TypeOK, Neighbour
<1>7. Barriers'
  BY <1>1 DEF Barriers, TypeOK
<1>8. Arrays'
  <2>1. ASSUME NEW q \in Rank
        PROVE  /\ array'[q][Src(step'[q])] = step'[q]
               /\ call'[q] = 1 => array'[q][0] = 0
    <3>1. CASE q = r
      <4>1. call[r] = 1 => last /\ b = 0
        BY <1>2 DEF Src
      <4> QED
        BY <1>1, <1>2, <1>3, <1>4, <3>1, <4>1 DEF Arrays
    <3>2. CASE q # r
      BY <1>1, <1>3, <1>4, <3>2 DEF Arrays
    <3> QED
      BY <3>1, <3>2
  <2> QED
    BY <2>1 DEF Arrays, Src
<1>9. \A q \in Rank : \A g \in Peers(q) :
        Received(Neighbour(q, g), 1 - g)' = Received(Neighbour(q, g), 1 - g)
  BY <1>5, PeerOfPeer DEF Neighbour
<1>10. Counts'
  <2> SUFFICES ASSUME NEW q \in Rank, NEW g \in Group
               PROVE  Len(wire'[q][g]) =
                        IF g \in Peers(q)
                          THEN Sent(q)' - Received(Neighbour(q, g), 1 - g)' ELSE 0
    BY DEF Counts, Peers, Neighbour
  <2> QED
    BY <1>1, <1>5, <1>9 DEF Counts
<1>11. Messages'
  <2> SUFFICES ASSUME NEW q \in Rank, NEW g \in Peers(q),
                      NEW k \in 1 .. Len(wire[q][g])
               PROVE  IF wire[q][g][k].plane = NotCopied
                        THEN /\ k = Len(wire[q][g])
                             /\ pc'[q] = "exchange" /\ send[q][g] = "pending"
                             /\ wire[q][g][k].from = Src(step'[q])
                        ELSE wire[q][g][k].plane =
                               StepOf(Received(Neighbour(q, g), 1 - g)' + k - 1)
    BY <1>1 DEF Messages, Peers, Neighbour, StepOf
  <2>1. IF wire[q][g][k].plane = NotCopied
          THEN /\ k = Len(wire[q][g])
               /\ pc[q] = "exchange" /\ send[q][g] = "pending"
               /\ wire[q][g][k].from = Src(step[q])
          ELSE wire[q][g][k].plane =
                 StepOf(Received(Neighbour(q, g), 1 - g) + k - 1)
    BY DEF Messages
  <2>2. wire[q][g][k].plane = NotCopied => q # r
    BY <1>1, <2>1
  <2> QED
    BY <1>1, <1>4, <1>9, <2>1, <2>2 DEF TypeOK
<1>12. HaloCurrent'
  BY <1>1, <1>4 DEF HaloCurrent, Peers, TypeOK, Neighbour
<1> QED
  BY <1>6, <1>7, <1>8, <1>10, <1>11, <1>12

\* A process leaves a barrier: it counts on, the timed call starts from the
\* input the warm-up has left in place.
LEMMA LeaveBarrierStep ==
  ASSUME IInv, NEW r \in Rank, LeaveBarrier(r)
  PROVE  Places' /\ Barriers' /\ Arrays' /\ Counts' /\ Messages' /\ HaloCurrent'
<1> USE DEF IInv
<1>1. /\ pc[r] = "barrier" /\ BarrierOpen(r) /\ step[r] = Steps(r)
      /\ call[r] \in {1, 2} /\ step[r] \in Nat
      /\ UNCHANGED <<halo, send, recv, wire>>
  BY DEF LeaveBarrier, Places, TypeOK
<1>2. CASE call[r] = 1
  <2>1. /\ call' = [call EXCEPT ![r] = 2] /\ step' = [step EXCEPT ![r] = 0]
        /\ array' = [array EXCEPT ![r][1] = Garbage]
        /\ pc' = [pc EXCEPT ![r] = "post"] /\ step[r] = 1
    BY <1>1, <1>2 DEF LeaveBarrier, Steps, WarmUp
  <2>2. Places'
    BY <1>1, <2>1, HaloExchangeAssumption DEF Places, Peers, Steps, TypeOK, Neighbour
  <2>3. Barriers'
    BY <1>1, <1>2, <2>1, SMTT(30) DEF Barriers, BarrierOpen, TypeOK
  <2>4. Arrays'
    BY <1>2, <2>1 DEF Arrays, TypeOK, Src
  <2>5. \A q \in Rank, g \in Group :
          Done(q)' = Done(q) /\ Sent(q)' = Sent(q) /\ Received(q, g)' = Received(q, g)
    BY <1>1, <1>2, <2>1 DEF Done, Sent, Received, WarmUp, TypeOK
  <2>6. Counts'
    <3> SUFFICES ASSUME NEW q \in Rank, NEW g \in Group
                 PROVE  Len(wire'[q][g]) =
                          IF g \in Peers(q)
                            THEN Sent(q)' - Received(Neighbour(q, g), 1 - g)' ELSE 0
      BY DEF Counts, Peers, Neighbour
    <3> QED
      BY <1>1, <2>5, PeerOfPeer DEF Counts
  <2>7. Messages'
    <3> SUFFICES ASSUME NEW q \in Rank, NEW g \in Peers(q),
                        NEW k \in 1 .. Len(wire[q][g])
                 PROVE  IF wire[q][g][k].plane = NotCopied
                          THEN /\ k = Len(wire[q][g])
                               /\ pc'[q] = "exchange" /\ send[q][g] = "pending"
                               /\ wire[q][g][k].from = Src(step'[q])
                          ELSE wire[q][g][k].plane =
                                 StepOf(Received(Neighbour(q, g), 1 - g)' + k - 1)
      BY <1>1 DEF Messages, Peers, Neighbour, StepOf
    <3>1. /\ Received(Neighbour(q, g), 1 - g)' = Received(Neighbour(q, g), 1 - g)
      BY <2>5, PeerOfPeer
    <3>2. IF wire[q][g][k].plane = NotCopied
            THEN /\ k = Len(wire[q][g])
                 /\ pc[q] = "exchange" /\ send[q][g] = "pending"
                 /\ wire[q][g][k].from = Src(step[q])
            ELSE wire[q][g][k].plane =
                   StepOf(Received(Neighbour(q, g), 1 - g) + k - 1)
      BY DEF Messages
    <3> QED
      BY <1>1, <2>1, <3>1, <3>2 DEF TypeOK
  <2>8. HaloCurrent'
    BY <1>1, <2>1 DEF HaloCurrent, Peers, TypeOK, Neighbour
  <2> QED
    BY <2>2, <2>3, <2>4, <2>6, <2>7, <2>8
<1>3. CASE call[r] = 2
  <2>1. pc' = [pc EXCEPT ![r] = "end"] /\ UNCHANGED <<call, step, array>>
    BY <1>3 DEF LeaveBarrier
  <2>2. Places' /\ Arrays' /\ HaloCurrent'
    BY <1>1, <1>3, <2>1
    DEF Places, Arrays, HaloCurrent, Peers, Steps, TypeOK, Neighbour
  <2>3. Barriers'
    BY <1>1, <1>3, <2>1 DEF Barriers, BarrierOpen, TypeOK
  <2>4. \A q \in Rank, g \in Group :
          Done(q)' = Done(q) /\ Sent(q)' = Sent(q) /\ Received(q, g)' = Received(q, g)
    BY <1>1, <2>1 DEF Done, Sent, Received, TypeOK
  <2>5. Counts'
    <3> SUFFICES ASSUME NEW q \in Rank, NEW g \in Group
                 PROVE  Len(wire'[q][g]) =
                          IF g \in Peers(q)
                            THEN Sent(q)' - Received(Neighbour(q, g), 1 - g)' ELSE 0
      BY DEF Counts, Peers, Neighbour
    <3> QED
      BY <1>1, <2>4, PeerOfPeer DEF Counts
  <2>6. Messages'
    <3> SUFFICES ASSUME NEW q \in Rank, NEW g \in Peers(q),
                        NEW k \in 1 .. Len(wire[q][g])
                 PROVE  IF wire[q][g][k].plane = NotCopied
                          THEN /\ k = Len(wire[q][g])
                               /\ pc'[q] = "exchange" /\ send[q][g] = "pending"
                               /\ wire[q][g][k].from = Src(step[q])
                          ELSE wire[q][g][k].plane =
                                 StepOf(Received(Neighbour(q, g), 1 - g)' + k - 1)
      BY <1>1, <2>1 DEF Messages, Peers, Neighbour, StepOf
    <3>1. /\ Received(Neighbour(q, g), 1 - g)' = Received(Neighbour(q, g), 1 - g)
      BY <2>4, PeerOfPeer
    <3>2. IF wire[q][g][k].plane = NotCopied
            THEN /\ k = Len(wire[q][g])
                 /\ pc[q] = "exchange" /\ send[q][g] = "pending"
                 /\ wire[q][g][k].from = Src(step[q])
            ELSE wire[q][g][k].plane =
                   StepOf(Received(Neighbour(q, g), 1 - g) + k - 1)
      BY DEF Messages
    <3> QED
      BY <1>1, <2>1, <3>1, <3>2 DEF TypeOK
  <2> QED
    BY <2>2, <2>3, <2>5, <2>6
<1> QED
  BY <1>1, <1>2, <1>3

-----------------------------------------------------------------------------
(* The theorems.                                                           *)

\* It holds initially: no message is on a wire, no request posted.
LEMMA InvInit == Init => IInv
<1> SUFFICES ASSUME Init PROVE IInv
  OBVIOUS
<1> USE DEF Init
<1>1. TypeOK
  <2>1. <<>> \in Seq(Message)
    BY EmptySeq
  <2> QED
    BY <2>1 DEF TypeOK, Request, Version, Garbage, Group
<1>2. Places
  BY HaloExchangeAssumption DEF Places, Steps, WarmUp, Peers
<1>3. Barriers /\ Arrays /\ HaloCurrent
  BY DEF Barriers, Arrays, HaloCurrent, Src
<1>4. \A r \in Rank, g \in Group : Len(wire[r][g]) = 0
  OBVIOUS
<1>5. Counts
  <2>1. \A r \in Rank, g \in Group : Sent(r) = 0 /\ Received(r, g) = 0
    BY DEF Sent, Received, Done
  <2> QED
    BY <1>4, <2>1, PeerOfPeer DEF Counts
<1>6. Messages
  BY <1>4, PeerOfPeer DEF Messages
<1> QED
  BY <1>1, <1>2, <1>3, <1>5, <1>6 DEF IInv

\* Every step keeps it.
LEMMA InvStep == IInv /\ [Next]_vars => IInv'
<1> SUFFICES ASSUME IInv, [Next]_vars PROVE IInv'
  OBVIOUS
<1>1. TypeOK'
  BY TypeStep DEF IInv
<1>2. ASSUME NEW r \in Rank, Post(r)
      PROVE  Places' /\ Barriers' /\ Arrays' /\ Counts' /\ Messages' /\ HaloCurrent'
  BY <1>2, PostStep
<1>3. ASSUME NEW r \in Rank, NEW g \in Group, NEW k \in DOMAIN wire[r][g],
             Copy(r, g, k)
      PROVE  Places' /\ Barriers' /\ Arrays' /\ Counts' /\ Messages' /\ HaloCurrent'
  BY <1>3, CopyStep
<1>4. ASSUME NEW r \in Rank, NEW g \in Group, Deliver(r, g)
      PROVE  Places' /\ Barriers' /\ Arrays' /\ Counts' /\ Messages' /\ HaloCurrent'
  BY <1>4, DeliverStep
<1>5. ASSUME NEW r \in Rank, Advance(r)
      PROVE  Places' /\ Barriers' /\ Arrays' /\ Counts' /\ Messages' /\ HaloCurrent'
  BY <1>5, AdvanceStep
<1>6. ASSUME NEW r \in Rank, LeaveBarrier(r)
      PROVE  Places' /\ Barriers' /\ Arrays' /\ Counts' /\ Messages' /\ HaloCurrent'
  BY <1>6, LeaveBarrierStep
<1>7. CASE UNCHANGED vars
  <2> USE <1>7 DEF vars, IInv
  <2>1. Places' /\ Arrays' /\ HaloCurrent'
    BY DEF Places, Arrays, HaloCurrent, Peers, Steps, Src, Neighbour
  <2>2. Barriers'
    BY DEF Barriers
  <2>3. \A q \in Rank, g \in Group :
          Sent(q)' = Sent(q) /\ Received(q, g)' = Received(q, g)
    BY DEF Sent, Received, Done
  <2>4. Counts'
    <3> SUFFICES ASSUME NEW q \in Rank, NEW g \in Group
                 PROVE  Len(wire'[q][g]) =
                          IF g \in Peers(q)
                            THEN Sent(q)' - Received(Neighbour(q, g), 1 - g)' ELSE 0
      BY DEF Counts, Peers, Neighbour
    <3> QED
      BY <2>3, PeerOfPeer DEF Counts
  <2>5. Messages'
    <3> SUFFICES ASSUME NEW q \in Rank, NEW g \in Peers(q),
                        NEW k \in 1 .. Len(wire[q][g])
                 PROVE  IF wire[q][g][k].plane = NotCopied
                          THEN /\ k = Len(wire[q][g])
                               /\ pc[q] = "exchange" /\ send[q][g] = "pending"
                               /\ wire[q][g][k].from = Src(step[q])
                          ELSE wire[q][g][k].plane =
                                 StepOf(Received(Neighbour(q, g), 1 - g)' + k - 1)
      BY DEF Messages, Peers, Neighbour, StepOf
    <3>1. Received(Neighbour(q, g), 1 - g)' = Received(Neighbour(q, g), 1 - g)
      BY <2>3, PeerOfPeer
    <3> QED
      BY <3>1 DEF Messages
  <2> QED
    BY <1>1, <2>1, <2>2, <2>4, <2>5
<1> QED
  BY <1>1, <1>2, <1>3, <1>4, <1>5, <1>6, <1>7 DEF Next, IInv

\* The invariant holds in every reachable state.
THEOREM Counted == Spec => []IInv
  BY InvInit, InvStep, PTL DEF Spec

\* Every variable of HaloExchange stays in its type.
THEOREM TypeCorrect == Spec => []TypeOK
<1>1. IInv => TypeOK
  BY DEF IInv
<1> QED
  BY <1>1, Counted, PTL

\* The planes MPI delivers are those of the step the receiver is in, although
\* no message says which step it is of.
THEOREM HalosAreCurrent == Spec => []HaloCurrent
<1>1. IInv => HaloCurrent
  BY DEF IInv
<1> QED
  BY <1>1, Counted, PTL

\* A plane is not overwritten before MPI has read it, however late that is.
THEOREM SendsStayIntact == Spec => []SendIntact
<1>1. IInv => SendIntact
  BY WireSeq DEF IInv, SendIntact, Messages, Arrays, Peers
<1> QED
  BY <1>1, Counted, PTL

\* Neighbours keep together through both calls, and a wire holds two planes.
THEOREM NeighboursInLockstep == Spec => []Lockstep
<1>1. IInv => Lockstep
  <2> SUFFICES ASSUME IInv, NEW r \in Rank, NEW s \in Rank, s = r + 1
               PROVE  /\ call[r] = call[s] => step[r] - step[s] \in {-1, 0, 1}
                      /\ call[r] < call[s] => pc[r] = "barrier"
                      /\ call[s] < call[r] => pc[s] = "barrier"
                      /\ "end" \in {pc[r], pc[s]} =>
                           {pc[r], pc[s]} \subseteq {"barrier", "end"}
                      /\ Len(wire[r][0]) <= 2 /\ Len(wire[s][1]) <= 2
    BY DEF Lockstep
  <2> USE DEF IInv
  <2>1. /\ 0 \in Peers(r) /\ Neighbour(r, 0) = s /\ 0 \in Group
        /\ 1 \in Peers(s) /\ Neighbour(s, 1) = r /\ 1 \in Group
    BY DEF Peers, Neighbour, Group, Rank
  <2>2. /\ Len(wire[r][0]) = Sent(r) - Received(s, 1)
        /\ Len(wire[s][1]) = Sent(s) - Received(r, 0)
    BY <2>1 DEF Counts
  <2>3. /\ Len(wire[r][0]) \in Nat /\ Len(wire[s][1]) \in Nat
    BY <2>1, WireSeq
  <2>4. /\ Done(r) \in Nat /\ Done(s) \in Nat
        /\ Sent(r) \in {Done(r), Done(r) + 1} /\ Sent(s) \in {Done(s), Done(s) + 1}
        /\ Received(r, 0) \in {Done(r), Done(r) + 1}
        /\ Received(s, 1) \in {Done(s), Done(s) + 1}
    BY <2>1, CountTypes
  <2>5. /\ Done(r) - Done(s) \in {-1, 0, 1}
        /\ Len(wire[r][0]) <= 2 /\ Len(wire[s][1]) <= 2
    BY <2>2, <2>3, <2>4, SMTT(30)
  <2>6. call[r] = call[s] => step[r] - step[s] = Done(r) - Done(s)
    BY DEF Done, WarmUp, TypeOK
  <2> QED
    BY <2>5, <2>6 DEF Barriers, TypeOK
<1> QED
  BY <1>1, Counted, PTL

-----------------------------------------------------------------------------
(***************************************************************************)
(* HaloExchange implements its two abstract specifications: RankStep for   *)
(* each process by itself, and the safety part of Jacobi for all of them   *)
(* together.  Both follow from the invariant above: every step maps to a   *)
(* step of the abstract specification or to a stutter.                     *)
(***************************************************************************)

-----------------------------------------------------------------------------
(* RankStep: one process as its neighbours see it.                         *)

\* The exchange of process q with g is finished when its send and its receive
\* are; the step that makes it so is Exchange(g) of RankStep.
LEMMA ExchangeView ==
  ASSUME IInv, NEW q \in Rank, NEW g \in Group,
         pc' = pc, call' = call, step' = step,
         \A h \in Group : h # g => Got(q, h)' = Got(q, h),
         pc[q] = "exchange" =>
           (Got(q, g)' # Got(q, g) =>
              g \in Peers(q) /\ Got(q, g) = step[q] /\ Got(q, g)' = step[q] + 1)
  PROVE  [View(q)!Next]_(View(q)!rankVars)
<1>1. Peers(q)' = Peers(q)
  BY DEF Peers, Neighbour
<1>2. pc[q] # "exchange" => Got(q, g)' = Got(q, g)
  BY <1>1 DEF Got
<1>3. CASE Got(q, g)' = Got(q, g)
  <2>1. [h \in Group |-> Got(q, h)'] = [h \in Group |-> Got(q, h)]
    BY <1>3
  <2> QED
    BY <1>1, <2>1 DEF View!rankVars
<1>4. CASE Got(q, g)' # Got(q, g)
  <2>1. /\ pc[q] = "exchange" /\ g \in Peers(q)
        /\ Got(q, g) = step[q] /\ Got(q, g)' = step[q] + 1
    BY <1>2, <1>4
  <2>2. step[q] < Steps(q)
    BY <2>1 DEF IInv, Places
  <2>3. [h \in Group |-> Got(q, h)'] =
          [[h \in Group |-> Got(q, h)] EXCEPT ![g] = @ + 1]
    BY <2>1
  <2>4. View(q)!Exchange(g)
    BY <1>1, <2>1, <2>2, <2>3 DEF View!Exchange, View!Steps, Steps
  <2> QED
    BY <2>4 DEF View!Next, Group
<1> QED
  BY <1>3, <1>4

\* A step that changes the variables of another process only.
LEMMA OtherView ==
  ASSUME NEW q \in Rank, pc'[q] = pc[q], call'[q] = call[q], step'[q] = step[q],
         \A g \in Group : send'[q][g] = send[q][g] /\ recv'[q][g] = recv[q][g]
  PROVE  [View(q)!Next]_(View(q)!rankVars)
<1>1. Peers(q)' = Peers(q)
  BY DEF Peers, Neighbour
<1>2. \A g \in Group : Got(q, g)' = Got(q, g)
  BY <1>1 DEF Got
<1> QED
  BY <1>1, <1>2 DEF View!rankVars

\* Every step of HaloExchange is one of RankStep, or none, for every process.
LEMMA ViewStep ==
  ASSUME IInv, Next, NEW q \in Rank
  PROVE  [View(q)!Next]_(View(q)!rankVars)
<1> USE DEF IInv
<1>0. Peers(q)' = Peers(q) /\ \A r \in Rank, g \in Group : send[r][g] \in Request
  BY DEF Peers, Neighbour, TypeOK
<1>1. ASSUME NEW r \in Rank, Post(r)
      PROVE  [View(q)!Next]_(View(q)!rankVars)
  <2>1. /\ pc[r] = "post" /\ UNCHANGED <<call, step>>
        /\ pc' = [pc EXCEPT ![r] = "exchange"]
        /\ send' = [send EXCEPT ![r] = Requests(r, "pending")]
        /\ recv' = [recv EXCEPT ![r] = Requests(r, "pending")]
    BY <1>1 DEF Post
  <2>2. CASE q = r
    <3>1. \A g \in Group : Got(q, g)' = Got(q, g)
      BY <1>0, <2>1, <2>2 DEF Got, Requests, TypeOK
    <3>2. (pc[q] = "end") = (pc'[q] = "end")
      BY <2>1, <2>2 DEF TypeOK
    <3> QED
      BY <1>0, <2>1, <3>1, <3>2 DEF View!rankVars
  <2>3. CASE q # r
    BY <2>1, <2>3, OtherView DEF TypeOK
  <2> QED
    BY <2>2, <2>3
<1>2. ASSUME NEW r \in Rank, NEW g \in Group, NEW k \in DOMAIN wire[r][g],
             Copy(r, g, k)
      PROVE  [View(q)!Next]_(View(q)!rankVars)
  <2>1. /\ send' = [send EXCEPT ![r][g] = "complete"]
        /\ UNCHANGED <<pc, call, step, recv>>
    BY <1>2 DEF Copy
  <2>2. CASE q = r
    <3>1. \A h \in Group : h # g => Got(q, h)' = Got(q, h)
      BY <1>0, <2>1, <2>2 DEF Got, TypeOK
    <3>2. Got(q, g)' # Got(q, g) =>
            g \in Peers(q) /\ Got(q, g) = step[q] /\ Got(q, g)' = step[q] + 1
      BY <1>0, <2>1, <2>2 DEF Got, TypeOK
    <3> QED
      BY <2>1, <3>1, <3>2, ExchangeView
  <2>3. CASE q # r
    BY <2>1, <2>3, OtherView DEF TypeOK
  <2> QED
    BY <2>2, <2>3
<1>3. ASSUME NEW r \in Rank, NEW g \in Group, Deliver(r, g)
      PROVE  [View(q)!Next]_(View(q)!rankVars)
  <2> DEFINE s == Neighbour(r, g)
  <2>1. /\ recv[r][g] = "pending"
        /\ recv' = [recv EXCEPT ![r][g] = "complete"]
        /\ send' = send \/ send' = [send EXCEPT ![s][1 - g] = "complete"]
        /\ UNCHANGED <<pc, call, step>>
    BY <1>3 DEF Deliver
  <2>2. g \in Peers(r) /\ s \in Rank /\ s # r /\ 1 - g \in Group
    BY <2>1, PeerOfPeer DEF Places
  <2> HIDE DEF s
  <2>3. CASE q = r
    <3>1. \A h \in Group : send'[q][h] = send[q][h]
      BY <2>1, <2>2, <2>3 DEF TypeOK
    <3>2. \A h \in Group : h # g => Got(q, h)' = Got(q, h)
      BY <1>0, <2>1, <2>3, <3>1 DEF Got, TypeOK
    <3>3. Got(q, g)' # Got(q, g) =>
            g \in Peers(q) /\ Got(q, g) = step[q] /\ Got(q, g)' = step[q] + 1
      BY <1>0, <2>1, <2>3, <3>1 DEF Got, TypeOK
    <3> QED
      BY <2>1, <3>2, <3>3, ExchangeView
  <2>4. CASE q = s
    <3>1. \A h \in Group : recv'[q][h] = recv[q][h]
      BY <2>1, <2>2, <2>4 DEF TypeOK
    <3>2. \A h \in Group : h # 1 - g => Got(q, h)' = Got(q, h)
      BY <1>0, <2>1, <2>2, <2>4, <3>1 DEF Got, TypeOK
    <3>3. Got(q, 1 - g)' # Got(q, 1 - g) =>
            /\ 1 - g \in Peers(q) /\ Got(q, 1 - g) = step[q]
            /\ Got(q, 1 - g)' = step[q] + 1
      BY <1>0, <2>1, <2>2, <2>4, <3>1 DEF Got, TypeOK
    <3> QED
      BY <2>1, <2>2, <3>2, <3>3, ExchangeView
  <2>5. CASE q # r /\ q # s
    BY <2>1, <2>2, <2>5, OtherView DEF TypeOK
  <2> QED
    BY <2>3, <2>4, <2>5
<1>4. ASSUME NEW r \in Rank, Advance(r)
      PROVE  [View(q)!Next]_(View(q)!rankVars)
  <2>1. /\ pc[r] = "exchange"
        /\ \A g \in Peers(r) : send[r][g] = "complete" /\ recv[r][g] = "complete"
        /\ step' = [step EXCEPT ![r] = @ + 1]
        /\ UNCHANGED <<call, send, recv>>
        /\ \/ pc' = [pc EXCEPT ![r] = "barrier"]
           \/ pc' = [pc EXCEPT ![r] = "post"]
    BY <1>4 DEF Advance, ExchangeDone, SendsDone, ReceivesDone
  <2>2. CASE q = r
    <3>1. /\ step'[q] = step[q] + 1 /\ step[q] < Steps(q)
          /\ pc[q] # "end" /\ pc'[q] \in {"barrier", "post"}
      BY <2>1, <2>2 DEF TypeOK, Places
    <3>2. \A g \in Group : Got(q, g)' = Got(q, g)
      BY <1>0, <2>1, <2>2, <3>1 DEF Got
    <3>3. \A g \in Peers(q) : g \in Group /\ Got(q, g) = step[q] + 1
      BY <2>1, <2>2 DEF Got, Peers
    <3>4. View(q)!Advance
      BY <1>0, <2>1, <3>1, <3>2, <3>3 DEF View!Advance, View!Steps, Steps
    <3> QED
      BY <3>4 DEF View!Next
  <2>3. CASE q # r
    BY <2>1, <2>3, OtherView DEF TypeOK
  <2> QED
    BY <2>2, <2>3
<1>5. ASSUME NEW r \in Rank, LeaveBarrier(r)
      PROVE  [View(q)!Next]_(View(q)!rankVars)
  <2>1. /\ pc[r] = "barrier" /\ UNCHANGED <<send, recv>>
        /\ \/ /\ call[r] = 1 /\ call' = [call EXCEPT ![r] = 2]
              /\ step' = [step EXCEPT ![r] = 0]
              /\ pc' = [pc EXCEPT ![r] = "post"]
           \/ /\ call[r] = 2 /\ pc' = [pc EXCEPT ![r] = "end"]
              /\ UNCHANGED <<call, step>>
    BY <1>5 DEF LeaveBarrier
  <2>2. CASE q = r /\ call[r] = 1
    <3>1. /\ call'[q] = 2 /\ step'[q] = 0 /\ pc'[q] = "post"
          /\ pc[q] = "barrier" /\ step[q] = Steps(q)
      BY <2>1, <2>2 DEF TypeOK, Places
    <3>2. \A g \in Group : Got(q, g)' = 0
      BY <3>1 DEF Got
    <3>3. View(q)!Return
      BY <1>0, <2>2, <3>1, <3>2 DEF View!Return, View!Steps, Steps, Group
    <3> QED
      BY <3>3 DEF View!Next
  <2>3. CASE q = r /\ call[r] = 2
    <3>1. /\ call' = call /\ step' = step /\ pc'[q] = "end"
          /\ pc[q] = "barrier" /\ step[q] = Steps(q)
      BY <2>1, <2>3 DEF TypeOK, Places
    <3>2. \A g \in Group : Got(q, g)' = Got(q, g)
      BY <1>0, <2>1, <3>1 DEF Got
    <3>3. View(q)!Return
      BY <1>0, <2>3, <3>1, <3>2 DEF View!Return, View!Steps, Steps
    <3> QED
      BY <3>3 DEF View!Next
  <2>4. CASE q # r
    BY <2>1, <2>4, OtherView DEF TypeOK
  <2> QED
    BY <2>1, <2>2, <2>3, <2>4
<1> QED
  BY <1>1, <1>2, <1>3, <1>4, <1>5 DEF Next

\* Towards its neighbours every process keeps the contract RankStep.
THEOREM ProcessesKeepContract == Spec => ImplementsRankStep
<1>1. Init => \A r \in Rank : View(r)!Init
  <2> SUFFICES ASSUME Init, NEW r \in Rank PROVE View(r)!Init
    OBVIOUS
  <2>1. Peers(r) \in {{0}, {1}, {0, 1}}
    <3>1. Peers(r) \subseteq {0, 1}
      BY DEF Peers, Group
    <3>2. 0 \in Peers(r) \/ 1 \in Peers(r)
      BY HaloExchangeAssumption DEF Peers, Neighbour, Group, Rank
    <3> QED
      BY <3>1, <3>2
  <2>2. /\ call[r] = 1 /\ step[r] = 0 /\ (pc[r] = "end") = FALSE
        /\ \A g \in Group : Got(r, g) = 0
    BY DEF Init, Got
  <2> QED
    BY <2>1, <2>2 DEF View!Init, Group
<1>2. IInv /\ [Next]_vars =>
        [\A r \in Rank : [View(r)!Next]_(View(r)!rankVars)]_vars
  BY ViewStep
<1> QED
  BY <1>1, <1>2, Counted, PTL DEF Spec, ImplementsRankStep

-----------------------------------------------------------------------------
(* Jacobi: all processes together.                                         *)

\* The processes together take the steps of the global iteration: the safety
\* part of ImplementsJacobi.
LEMMA BlocksStep ==
  ASSUME IInv, [Next]_vars
  PROVE  [Blocks!Next]_(Blocks!jacobiVars)
<1> USE DEF IInv
<1> DEFINE value == [r \in Rank |-> array[r][Src(step[r])]]
<1>1. \A r \in Rank : array[r][Src(step[r])] = step[r]
  BY DEF Arrays
<1>2. \A r \in Rank : array'[r][Src(step'[r])] = step'[r]
  BY InvStep DEF Arrays, Src
<1>3. CASE UNCHANGED <<call, step>>
  <2>1. value' = value
    BY <1>1, <1>2, <1>3
  <2> QED
    BY <1>3, <2>1 DEF Blocks!jacobiVars
<1>4. ASSUME NEW r \in Rank, Advance(r)
      PROVE  Blocks!Advance(r)
  <2>1. /\ pc[r] = "exchange" /\ step[r] < Steps(r)
        /\ \A g \in Peers(r) : recv[r][g] = "complete"
        /\ step' = [step EXCEPT ![r] = @ + 1]
        /\ call' = call
    BY <1>4 DEF Advance, ExchangeDone, ReceivesDone, Places
  <2>2. ASSUME NEW s \in Blocks!Borders(r)
        PROVE  call[s] = call[r] /\ step[s] >= step[r]
    <3>1. PICK g \in Peers(r) : s = Neighbour(r, g)
      BY DEF Blocks!Borders, Blocks!Block, Peers, Neighbour, Group, Rank
    <3>2. /\ s \in Rank /\ 1 - g \in Peers(s) /\ 1 - g \in Group /\ g \in Group
          /\ Neighbour(s, 1 - g) = r /\ 1 - (1 - g) = g
      BY <3>1, PeerOfPeer
    <3>3. Len(wire[s][1 - g]) = Sent(s) - Received(r, g)
      BY <3>2 DEF Counts
    <3>4. Len(wire[s][1 - g]) \in Nat
      BY <3>2, WireSeq
    <3>5. Received(r, g) = Done(r) + 1
      BY <2>1 DEF Received
    <3>6. Sent(s) = (IF pc[s] = "exchange" THEN Done(s) + 1 ELSE Done(s))
      BY DEF Sent
    <3>7. Done(s) \in Nat /\ Done(r) \in Nat
      BY <3>2, CountTypes
    <3>8. Done(s) >= Done(r)
      BY <3>3, <3>4, <3>5, <3>6, <3>7
    <3>9. call[s] = call[r]
      <4>1. ~(call[r] < call[s])
        BY <2>1, <3>2 DEF Barriers
      <4>2. ~(call[s] < call[r])
        <5> SUFFICES ASSUME call[s] < call[r] PROVE FALSE
          OBVIOUS
        <5>1. call[s] = 1 /\ call[r] = 2 /\ pc[s] = "barrier"
          BY <3>2 DEF Barriers, TypeOK
        <5>2. Done(s) = WarmUp /\ Sent(s) = Done(s)
          BY <3>2, <5>1 DEF Places, Steps, Done, Sent, WarmUp
        <5>3. Done(r) >= WarmUp
          BY <5>1 DEF Done, TypeOK, WarmUp
        <5> QED
          BY <3>3, <3>4, <3>5, <3>7, <5>2, <5>3
      <4>3. call[s] \in {1, 2} /\ call[r] \in {1, 2}
        BY <3>2 DEF TypeOK
      <4> QED
        BY <4>1, <4>2, <4>3
    <3> QED
      BY <3>2, <3>8, <3>9 DEF Done, TypeOK, WarmUp
  <2>3. value' = [value EXCEPT ![r] = @ + 1]
    BY <1>1, <1>2, <2>1, ZenonT(30) DEF TypeOK
  <2>4. step[r] < Blocks!Steps(call[r])
    BY <2>1 DEF Steps, Blocks!Steps
  <2> QED
    BY <2>1, <2>2, <2>3, <2>4 DEF Blocks!Advance
<1>5. ASSUME NEW r \in Rank, LeaveBarrier(r), call[r] = 1
      PROVE  Blocks!StartTimed(r)
  <2>1. /\ BarrierOpen(r)
        /\ call' = [call EXCEPT ![r] = 2] /\ step' = [step EXCEPT ![r] = 0]
    BY <1>5 DEF LeaveBarrier
  <2>2. ASSUME NEW s \in Rank PROVE call[s] = 2 \/ step[s] = WarmUp
    BY <1>5, <2>1 DEF BarrierOpen, Places, Steps, TypeOK
  <2>3. value' = [value EXCEPT ![r] = 0]
    BY <1>1, <1>2, <2>1 DEF TypeOK
  <2> QED
    BY <1>5, <2>1, <2>2, <2>3 DEF Blocks!StartTimed, Blocks!Block, Rank
<1>6. CASE Next
  <2>1. CASE \E r \in Rank : Advance(r)
    BY <1>4, <2>1 DEF Blocks!Next, Blocks!Block, Rank
  <2>2. CASE \E r \in Rank : LeaveBarrier(r) /\ call[r] = 1
    BY <1>5, <2>2 DEF Blocks!Next, Blocks!Block, Rank
  <2> QED
    BY <1>3, <1>6, <2>1, <2>2, ZenonT(30) DEF Next, Post, Copy, Deliver, LeaveBarrier
<1> QED
  BY <1>3, <1>6 DEF vars

\* No block of the run takes a step before the blocks it borders on have come
\* as far, none starts the timed call early, and the values are those of the
\* step: the iteration of Jacobi (its safety).
THEOREM RunIsJacobi == Spec => Blocks!Spec
<1>1. Init => Blocks!Init
  BY DEF Init, Blocks!Init, Blocks!Block, Rank, Src
<1>2. IInv /\ [Next]_vars => [Blocks!Next]_(Blocks!jacobiVars)
  BY BlocksStep
<1> QED
  BY <1>1, <1>2, Counted, PTL DEF Spec, Blocks!Spec
=============================================================================
