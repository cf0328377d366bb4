---------------------------- MODULE DriverProof -----------------------------
(***************************************************************************)
(* Proofs about Driver, for every number of processes and every failure:   *)
(* ReportMeansAll and TimedTogether.                                       *)
(*                                                                         *)
(* A call that synchronises is matched with the calls of the others by     *)
(* counting.  The programs of a process with and without cells differ, but *)
(* both make the same number of calls on the world before each of the two  *)
(* barriers around the timed call; and those with cells make the same      *)
(* calls on active_procs.  So a process that has come out of one of the    *)
(* three synchronisations of Meetings has met all others there.            *)
(***************************************************************************)
EXTENDS Driver, FiniteSetTheorems, TLAPS

\* The barriers before and after the timed call, and the end of the program.
WarmEnd(r)  == IF r \in active THEN 13 ELSE 8
TimedEnd(r) == WarmEnd(r) + 2
LastOp(r)   == IF r \notin active THEN 12 ELSE IF answer THEN 26 ELSE 18

\* Process 0 has the norms of all after its third reduction, and reports.
LastReduce == 23
ReportAt   == IF answer THEN 24 ELSE 16

\* The variables have values of their types, and who runs is in its program.
Typed ==
  /\ active \in {{0}, Rank, {}} /\ answer \in BOOLEAN
  /\ at \in [Rank -> Nat] /\ inside \in [Rank -> BOOLEAN]
  /\ state \in [Rank -> {"run", "ended", "killed", "returned"}]
  /\ read \in [Rank -> Nat]
  /\ \A r \in Rank :
       /\ at[r] \in 1 .. LastOp(r) + 1
       /\ Running(r) \/ inside[r] => at[r] <= LastOp(r)

\* How many files a process has read, by its place.
FilesRead ==
  \A r \in active :
    read[r] = (IF at[r] > 11 THEN 1 ELSE 0) + (IF answer /\ at[r] > 20 THEN 1 ELSE 0)

\* Nobody passes a barrier around the timed call before all have come to it,
\* and process 0 has the norms only when all with cells are at the reduction.
Meetings ==
  \A s \in Rank :
    /\ \A r \in Rank : at[r] > WarmEnd(r) => at[s] >= WarmEnd(s)
    /\ \A r \in Rank : at[r] > TimedEnd(r) => at[s] >= TimedEnd(s)
    /\ s \in active /\ 0 \in active /\ answer /\ at[0] > LastReduce
         => at[s] >= LastReduce

\* Process 0 prints at the end of its program.
Prints ==
  /\ "time" \in printed => 0 \in active /\ at[0] > ReportAt
  /\ "checked" \in printed => answer

IInv == Typed /\ FilesRead /\ Meetings /\ Prints

-----------------------------------------------------------------------------
(* The programs.                                                           *)

\* Where the operations are that matter.
LEMMA Places ==
  ASSUME NEW r, answer \in BOOLEAN
  PROVE  /\ Len(Program(r)) = LastOp(r)
         /\ \A k \in 1 .. LastOp(r) :
              /\ Program(r)[k] = "finalize" <=> k = LastOp(r)
              /\ Program(r)[k] = "warm" <=> k = WarmEnd(r) - 1
              /\ Program(r)[k] = "timed" <=> k = WarmEnd(r) + 1
              /\ Program(r)[k] = "count" <=>
                   r \in active /\ (k = 11 \/ (answer /\ k = 20))
              /\ Program(r)[k] = "report" <=> r \in active /\ k = ReportAt
              /\ Program(r)[k] = "reduce" <=>
                   r \in active /\ answer /\ k \in 21 .. 23
              /\ Program(r)[k] = "barrier" <=>
                   k \in {2, 4, WarmEnd(r), TimedEnd(r)}
<1> USE DEF Program, Main, ReadFile, Check, LastOp, WarmEnd, TimedEnd, ReportAt
<1>1. CASE r \in active /\ answer
  BY <1>1
<1>2. CASE r \in active /\ ~answer
  BY <1>2
<1>3. CASE r \notin active
  BY <1>3
<1> QED
  BY <1>1, <1>2, <1>3

\* The calls on the world.
LEMMA WorldCalls ==
  ASSUME NEW r, answer \in BOOLEAN
  PROVE  \A k \in 1 .. LastOp(r) :
           /\ Program(r)[k] \notin Local /\ Program(r)[k] \in World
           <=> k \in {2, 4, 5, WarmEnd(r), TimedEnd(r), LastOp(r)}
<1> USE DEF Program, Main, ReadFile, Check, LastOp, WarmEnd, TimedEnd, ReportAt,
            Local, World
<1>1. CASE r \in active /\ answer
  BY <1>1
<1>2. CASE r \in active /\ ~answer
  BY <1>2
<1>3. CASE r \notin active
  BY <1>3
<1> QED
  BY <1>1, <1>2, <1>3

\* The calls on active_procs before the end, when there is an answer to check.
LEMMA ActiveCalls ==
  ASSUME NEW r \in active, answer
  PROVE  \A k \in 1 .. 24 :
           /\ Program(r)[k] \notin Local /\ Program(r)[k] \notin World
           <=> k \in {7, 8, 9, 10, 16, 17, 18, 19, 21, 22} \cup {23}
BY DEF Program, Main, ReadFile, Check, Local, World

-----------------------------------------------------------------------------
(* Counting.                                                               *)

\* Sets that have all elements of X and one more are larger than its subsets.
LEMMA OneMore ==
  ASSUME NEW X, NEW S \in SUBSET X,
         NEW T, IsFiniteSet(T), NEW e \in T \ X, X \subseteq T
  PROVE  ~(Cardinality(S) >= Cardinality(T))
<1> IsFiniteSet(X)
  BY FS_Subset
<1>1. /\ Cardinality(X) \in Nat /\ Cardinality(S) \in Nat
      /\ Cardinality(T) \in Nat
      /\ Cardinality(S) <= Cardinality(X)
  BY FS_CardinalityType, FS_Subset
<1>2. Cardinality(X \cup {e}) = Cardinality(X) + 1
  BY FS_AddElement
<1>3. Cardinality(X \cup {e}) <= Cardinality(T)
  <2>1. X \cup {e} \subseteq T
    OBVIOUS
  <2> QED
    BY <2>1, FS_Subset
<1> QED
  BY <1>1, <1>2, <1>3

\* The same with one element on the one side and two on the other.
LEMMA TwoMore ==
  ASSUME NEW X, NEW a, NEW S \in SUBSET (X \cup {a}),
         NEW T, IsFiniteSet(T), NEW d \in T \ X, NEW e \in T \ X, d # e,
         X \subseteq T
  PROVE  ~(Cardinality(S) >= Cardinality(T))
<1> IsFiniteSet(X)
  BY FS_Subset
<1>1. /\ IsFiniteSet(X \cup {a}) /\ IsFiniteSet(X \cup {d})
      /\ Cardinality(X \cup {a}) <= Cardinality(X) + 1
      /\ Cardinality(X \cup {d}) = Cardinality(X) + 1
  <2>1. Cardinality(X) \in Nat
    BY FS_CardinalityType
  <2>2. /\ IsFiniteSet(X \cup {a})
        /\ Cardinality(X \cup {a}) =
             IF a \in X THEN Cardinality(X) ELSE Cardinality(X) + 1
    BY FS_AddElement
  <2>3. /\ IsFiniteSet(X \cup {d})
        /\ Cardinality(X \cup {d}) = Cardinality(X) + 1
    BY FS_AddElement
  <2> QED
    BY <2>1, <2>2, <2>3
<1>2. /\ Cardinality(X) \in Nat /\ Cardinality(S) \in Nat
      /\ Cardinality(T) \in Nat /\ Cardinality(X \cup {a}) \in Nat
      /\ Cardinality(S) <= Cardinality(X \cup {a})
  BY <1>1, FS_CardinalityType, FS_Subset
<1>3. ~(Cardinality(X \cup {d}) >= Cardinality(T))
  <2>1. X \cup {d} \subseteq T /\ e \in T \ (X \cup {d})
    OBVIOUS
  <2> QED
    BY <1>1, <2>1, OneMore
<1> QED
  BY <1>1, <1>2, <1>3

\* Operations process s can have called.
Reached(s) == IF inside[s] THEN at[s] ELSE at[s] - 1

\* The calls a process has made, on the communicator of op.
Made(r, op, k) ==
  {j \in 1 .. k :
    Program(r)[j] \notin Local /\ (Program(r)[j] \in World <=> op \in World)}

\* A process runs over its operations one by one.
LEMMA Reach ==
  ASSUME Typed, NEW s \in Rank
  PROVE  /\ Reached(s) \in 0 .. LastOp(s) /\ Reached(s) <= at[s]
         /\ \A op, k : Calls(s, op, k) = Cardinality(Made(s, op, k))
         /\ \A op : \A k \in Nat : IsFiniteSet(Made(s, op, k))
<1>1. Reached(s) \in 0 .. LastOp(s) /\ Reached(s) <= at[s]
  BY DEF Typed, Reached, LastOp
<1>2. ASSUME NEW op, NEW k \in Nat PROVE IsFiniteSet(Made(s, op, k))
  <2>1. IsFiniteSet(1 .. k)
    BY FS_Interval
  <2>2. Made(s, op, k) \subseteq 1 .. k
    BY DEF Made
  <2> QED
    BY <2>1, <2>2, FS_Subset
<1> QED
  BY <1>1, <1>2 DEF Calls, Made

\* A process comes out of the barrier before the timed call.
LEMMA MeetWarm ==
  ASSUME Typed, NEW r \in Rank, NEW s \in Rank, at[r] = WarmEnd(r),
         HasJoined(r, s)
  PROVE  at[s] >= WarmEnd(s)
<1> SUFFICES ASSUME ~(at[s] >= WarmEnd(s)) PROVE FALSE
  OBVIOUS
<1> DEFINE X == {2, 4, 5}
           S == Made(s, "barrier", Reached(s))
           T == Made(r, "barrier", at[r])
<1>1. answer \in BOOLEAN /\ at[r] \in 1 .. LastOp(r) /\ at[s] \in Nat
  BY DEF Typed, WarmEnd, LastOp
<1>2. Op(r) = "barrier"
  BY <1>1, Places DEF Op
<1>3. Reached(s) \in 0 .. LastOp(s) /\ Reached(s) < WarmEnd(s)
  BY <1>1, Reach DEF WarmEnd
<1>4. S \subseteq X
  BY <1>1, <1>3, WorldCalls DEF Made, World, WarmEnd, TimedEnd, LastOp
<1>5. WarmEnd(r) \in T \ X /\ X \subseteq T
  BY <1>1, WorldCalls DEF Made, World, WarmEnd, TimedEnd, LastOp
<1>6. Cardinality(S) >= Cardinality(T)
  BY <1>2, Reach DEF HasJoined, Reached
<1>7. IsFiniteSet(T)
  BY <1>1, Reach
<1> HIDE DEF X, S, T
<1> QED
  BY <1>4, <1>5, <1>6, <1>7, OneMore

\* A process comes out of the barrier after the timed call.
LEMMA MeetTimed ==
  ASSUME Typed, NEW r \in Rank, NEW s \in Rank, at[r] = TimedEnd(r),
         HasJoined(r, s)
  PROVE  at[s] >= TimedEnd(s)
<1> SUFFICES ASSUME ~(at[s] >= TimedEnd(s)) PROVE FALSE
  OBVIOUS
<1> DEFINE X == {2, 4, 5}
           S == Made(s, "barrier", Reached(s))
           T == Made(r, "barrier", at[r])
<1>1. answer \in BOOLEAN /\ at[r] \in 1 .. LastOp(r) /\ at[s] \in Nat
  BY DEF Typed, TimedEnd, WarmEnd, LastOp
<1>2. Op(r) = "barrier"
  BY <1>1, Places DEF Op
<1>3. Reached(s) \in 0 .. LastOp(s) /\ Reached(s) < TimedEnd(s)
  BY <1>1, Reach DEF TimedEnd, WarmEnd
<1>4. S \subseteq X \cup {WarmEnd(s)}
  BY <1>1, <1>3, WorldCalls DEF Made, World, WarmEnd, TimedEnd, LastOp
<1>5. /\ WarmEnd(r) \in T \ X /\ TimedEnd(r) \in T \ X /\ X \subseteq T
      /\ WarmEnd(r) # TimedEnd(r)
  BY <1>1, WorldCalls DEF Made, World, WarmEnd, TimedEnd, LastOp
<1>6. Cardinality(S) >= Cardinality(T)
  BY <1>2, Reach DEF HasJoined, Reached
<1>7. IsFiniteSet(T)
  BY <1>1, Reach
<1> HIDE DEF X, S, T
<1> QED
  BY <1>4, <1>5, <1>6, <1>7, TwoMore

\* Process 0 has the norms of all.
LEMMA MeetReduce ==
  ASSUME Typed, NEW r \in active, NEW s \in active, r \in Rank, s \in Rank,
         answer, at[r] = LastReduce, HasJoined(r, s)
  PROVE  at[s] >= LastReduce
<1> SUFFICES ASSUME ~(at[s] >= LastReduce) PROVE FALSE
  OBVIOUS
<1> DEFINE X == {7, 8, 9, 10, 16, 17, 18, 19, 21, 22}
           S == Made(s, "reduce", Reached(s))
           T == Made(r, "reduce", at[r])
<1>1. at[r] \in 1 .. LastOp(r) /\ at[s] \in Nat
  BY DEF Typed, LastReduce, LastOp
<1>2. Op(r) = "reduce"
  BY <1>1, Places DEF Op, LastReduce
<1>3. Reached(s) \in 0 .. 22
  BY <1>1, Reach DEF LastReduce
<1>4. S \subseteq X
  BY <1>3, ActiveCalls DEF Made, World
<1>5. LastReduce \in T \ X /\ X \subseteq T
  BY ActiveCalls DEF Made, World, LastReduce
<1>6. Cardinality(S) >= Cardinality(T)
  BY <1>2, Reach DEF HasJoined, Reached
<1>7. IsFiniteSet(T)
  BY <1>1, Reach
<1> HIDE DEF X, S, T
<1> QED
  BY <1>4, <1>5, <1>6, <1>7, OneMore

-----------------------------------------------------------------------------
(* The steps.                                                              *)

\* A process goes on to its next operation.
LEMMA GoStep ==
  ASSUME IInv, NEW r \in Rank, Running(r), Go(r),
         Op(r) \in Local \/ MayReturn(r)
  PROVE  IInv'
<1>1. /\ at' = [at EXCEPT ![r] = @ + 1]
      /\ inside' = [inside EXCEPT ![r] = FALSE]
      /\ state' = IF Op(r) = "finalize" THEN [state EXCEPT ![r] = "ended"]
                  ELSE state
      /\ read' = IF Op(r) = "count" THEN [read EXCEPT ![r] = @ + 1] ELSE read
      /\ UNCHANGED <<active, answer>>
  BY DEF Go
<1>2. /\ answer \in BOOLEAN /\ at[r] \in 1 .. LastOp(r)
      /\ active \subseteq Rank
      /\ \A s \in Rank : at'[s] = (IF s = r THEN at[s] + 1 ELSE at[s])
                         /\ at[s] \in Nat
  BY <1>1, DriverAssumption DEF IInv, Typed, Rank
<1>3. \A s : /\ LastOp(s)' = LastOp(s) /\ WarmEnd(s)' = WarmEnd(s)
             /\ TimedEnd(s)' = TimedEnd(s)
  BY <1>1 DEF LastOp, WarmEnd, TimedEnd
<1>4. Op(r) = "finalize" <=> at[r] = LastOp(r)
  BY <1>2, Places DEF Op
<1>5. Op(r) = "count" <=> r \in active /\ (at[r] = 11 \/ (answer /\ at[r] = 20))
  BY <1>2, Places DEF Op
<1>6. Typed'
  <2>1. /\ at' \in [Rank -> Nat] /\ inside' \in [Rank -> BOOLEAN]
        /\ state' \in [Rank -> {"run", "ended", "killed", "returned"}]
        /\ read' \in [Rank -> Nat]
    BY <1>1, <1>2 DEF IInv, Typed
  <2>2. ASSUME NEW s \in Rank
        PROVE  /\ at'[s] \in 1 .. LastOp(s) + 1
               /\ Running(s)' \/ inside'[s] => at'[s] <= LastOp(s)
    <3>1. CASE s = r
      <4>1. at'[s] = at[s] + 1 /\ ~inside'[s] /\ LastOp(s) \in Nat
        BY <1>1, <1>2, <3>1 DEF IInv, Typed, LastOp
      <4>2. Running(s)' => at[r] # LastOp(r)
        BY <1>1, <1>4, <3>1 DEF Running, IInv, Typed
      <4> QED
        BY <1>2, <3>1, <4>1, <4>2
    <3>2. CASE s # r
      <4>1. at'[s] = at[s] /\ inside'[s] = inside[s] /\ state'[s] = state[s]
        BY <1>1, <3>2 DEF IInv, Typed
      <4> QED
        BY <4>1 DEF IInv, Typed, Running
    <3> QED
      BY <3>1, <3>2
  <2> QED
    BY <1>1, <1>3, <2>1, <2>2 DEF IInv, Typed
<1>7. FilesRead'
  <2> SUFFICES ASSUME NEW s \in active
               PROVE  read'[s] = (IF at'[s] > 11 THEN 1 ELSE 0)
                                 + (IF answer /\ at'[s] > 20 THEN 1 ELSE 0)
    BY <1>1 DEF FilesRead
  <2>1. read[s] = (IF at[s] > 11 THEN 1 ELSE 0)
                  + (IF answer /\ at[s] > 20 THEN 1 ELSE 0)
    BY DEF IInv, FilesRead
  <2>2. s \in Rank /\ at[s] \in Nat
    BY <1>2
  <2>3. CASE s = r
    <3>1. read'[s] = IF at[s] = 11 \/ (answer /\ at[s] = 20)
                       THEN read[s] + 1 ELSE read[s]
      BY <1>1, <1>5, <2>2, <2>3 DEF IInv, Typed
    <3>2. at'[s] = at[s] + 1
      BY <1>2, <2>3
    <3> QED
      BY <2>1, <2>2, <3>1, <3>2
  <2>4. CASE s # r
    <3>1. read'[s] = read[s] /\ at'[s] = at[s]
      BY <1>1, <2>2, <2>4 DEF IInv, Typed
    <3> QED
      BY <2>1, <3>1
  <2> QED
    BY <2>3, <2>4
<1>8. Meetings'
  <2>1. ASSUME NEW s \in Rank, at[r] = WarmEnd(r) PROVE at[s] >= WarmEnd(s)
    <3>1. Op(r) = "barrier"
      BY <1>2, <2>1, Places DEF Op, WarmEnd
    <3>2. HasJoined(r, s)
      BY <3>1 DEF MayReturn, Waits, Synced, Members, World, Local
    <3> QED
      BY <2>1, <3>2, MeetWarm DEF IInv
  <2>2. ASSUME NEW s \in Rank, at[r] = TimedEnd(r) PROVE at[s] >= TimedEnd(s)
    <3>1. Op(r) = "barrier"
      BY <1>2, <2>2, Places DEF Op, TimedEnd, WarmEnd
    <3>2. HasJoined(r, s)
      BY <3>1 DEF MayReturn, Waits, Synced, Members, World, Local
    <3> QED
      BY <2>2, <3>2, MeetTimed DEF IInv
  <2>3. ASSUME NEW s \in active, r = 0, r \in active, answer, at[r] = LastReduce
        PROVE  at[s] >= LastReduce
    <3>1. Op(r) = "reduce"
      BY <1>2, <2>3, Places DEF Op, LastReduce
    <3>2. HasJoined(r, s)
      BY <2>3, <3>1 DEF MayReturn, Waits, Synced, Members, World, Local
    <3> QED
      BY <1>2, <2>3, <3>2, MeetReduce DEF IInv
  <2>4. ASSUME NEW s \in Rank, NEW q \in Rank
        PROVE  /\ at'[q] > WarmEnd(q) => at'[s] >= WarmEnd(s)
               /\ at'[q] > TimedEnd(q) => at'[s] >= TimedEnd(s)
    <3>1. at'[s] \in Nat /\ at'[s] >= at[s]
      BY <1>2
    <3>2. at'[q] > WarmEnd(q) => at[s] >= WarmEnd(s)
      BY <1>2, <2>1 DEF IInv, Meetings, WarmEnd
    <3>3. at'[q] > TimedEnd(q) => at[s] >= TimedEnd(s)
      BY <1>2, <2>2 DEF IInv, Meetings, TimedEnd, WarmEnd
    <3> QED
      BY <1>2, <3>1, <3>2, <3>3 DEF TimedEnd, WarmEnd
  <2>5. ASSUME NEW s \in Rank, s \in active, 0 \in active, answer,
               at'[0] > LastReduce
        PROVE  at'[s] >= LastReduce
    <3>1. at[s] >= LastReduce
      BY <1>2, <2>3, <2>5 DEF IInv, Meetings, LastReduce
    <3> QED
      BY <1>2, <3>1 DEF LastReduce
  <2> QED
    BY <1>1, <1>3, <2>4, <2>5 DEF Meetings, LastReduce
<1>9. Prints'
  <2>1. ReportAt' = ReportAt /\ ReportAt \in Nat
    BY <1>1 DEF ReportAt
  <2>2. printed' = IF Op(r) = "report" /\ r = 0
                     THEN printed \cup {"time"} \cup
                            (IF answer THEN {"checked"} ELSE {"unchecked"})
                     ELSE printed
    BY DEF Go
  <2>3. Op(r) = "report" => r \in active /\ at[r] = ReportAt
    BY <1>2, Places DEF Op
  <2>4. "checked" \in printed' => answer
    BY <2>2 DEF IInv, Prints
  <2>5. ASSUME "time" \in printed' PROVE 0 \in active /\ at'[0] > ReportAt
    BY <1>2, <2>1, <2>2, <2>3, <2>5 DEF IInv, Prints
  <2> QED
    BY <1>1, <2>1, <2>4, <2>5 DEF Prints
<1> QED
  BY <1>6, <1>7, <1>8, <1>9 DEF IInv

\* A process enters a call or stops for good.
LEMMA StayStep ==
  ASSUME IInv, NEW r \in Rank, Running(r),
         UNCHANGED <<active, answer, at, read, printed>>,
         \/ /\ inside' = [inside EXCEPT ![r] = TRUE] /\ state' = state
         \/ /\ inside' = inside
            /\ \E e \in {"killed", "returned"} : state' = [state EXCEPT ![r] = e]
  PROVE  IInv'
<1>1. \A s : /\ LastOp(s)' = LastOp(s) /\ WarmEnd(s)' = WarmEnd(s)
             /\ TimedEnd(s)' = TimedEnd(s)
  BY DEF LastOp, WarmEnd, TimedEnd
<1>2. ReportAt' = ReportAt
  BY DEF ReportAt
<1>3. FilesRead' /\ Meetings' /\ Prints'
  BY <1>1, <1>2 DEF IInv, FilesRead, Meetings, Prints, LastReduce
<1>4. Typed'
  <2>1. /\ inside' \in [Rank -> BOOLEAN]
        /\ state' \in [Rank -> {"run", "ended", "killed", "returned"}]
    BY DEF IInv, Typed
  <2>2. \A s \in Rank :
          Running(s)' \/ inside'[s] => Running(s) \/ inside[s]
    BY DEF IInv, Typed, Running
  <2> QED
    BY <1>1, <2>1, <2>2 DEF IInv, Typed
<1> QED
  BY <1>3, <1>4 DEF IInv

\* Nobody has done anything at the start.
LEMMA InvInit == Init => IInv
<1> SUFFICES ASSUME Init PROVE IInv
  OBVIOUS
<1> USE DEF Init
<1>1. \A r \in Rank : at[r] = 1 /\ read[r] = 0 /\ inside[r] = FALSE
  OBVIOUS
<1>2. active \subseteq Rank
  BY DriverAssumption DEF Rank
<1>3. Typed
  BY <1>1 DEF Typed, LastOp
<1>4. FilesRead /\ Meetings /\ Prints
  BY <1>1, <1>2, DriverAssumption
  DEF FilesRead, Meetings, Prints, WarmEnd, TimedEnd, LastReduce, Rank
<1> QED
  BY <1>3, <1>4 DEF IInv

\* Every step keeps the invariant, failures and aborts included.
LEMMA InvStep == IInv /\ [Next]_vars => IInv'
<1> SUFFICES ASSUME IInv, [Next]_vars PROVE IInv'
  OBVIOUS
<1>1. ASSUME NEW r \in Rank, Abort(r), Running(r) PROVE IInv'
  BY <1>1, StayStep DEF Abort
<1>2. ASSUME NEW r \in Rank, Do(r) PROVE IInv'
  BY <1>2, GoStep DEF Do
<1>3. ASSUME NEW r \in Rank, BadArgs(r) PROVE IInv'
  BY <1>1, <1>3, StayStep DEF BadArgs
<1>4. ASSUME NEW r \in Rank, Enter(r) PROVE IInv'
  BY <1>4, StayStep DEF Enter
<1>5. ASSUME NEW r \in Rank, Return(r) PROVE IInv'
  BY <1>5, GoStep DEF Return
<1>6. ASSUME NEW r \in Rank, Fail(r) PROVE IInv'
  BY <1>1, <1>6 DEF Fail
<1>7. ASSUME NEW r \in Rank, Kill(r) PROVE IInv'
  BY <1>7, StayStep DEF Kill
<1>8. CASE UNCHANGED vars
  BY <1>8 DEF vars, IInv, Typed, FilesRead, Meetings, Prints, Running,
              LastOp, WarmEnd, TimedEnd, LastReduce, ReportAt
<1> QED
  BY <1>2, <1>3, <1>4, <1>5, <1>6, <1>7, <1>8 DEF Next

-----------------------------------------------------------------------------
(* The theorems.                                                           *)

\* Calls are matched, files are read and results printed in order, whichever
\* operation fails wherever.
THEOREM Matched == Spec => []IInv
BY InvInit, InvStep, PTL DEF Spec

\* A time or a verdict on standard output speaks for all processes, however
\* late an abort arrives.
THEOREM ReportsAreComplete == Spec => []ReportMeansAll
<1>1. IInv => ReportMeansAll
  <2> SUFFICES ASSUME IInv, "time" \in printed
               PROVE  /\ \A r \in Rank : Passed(r, "timed")
                      /\ \A r \in active : read[r] >= 1
                      /\ "checked" \in printed => \A r \in active : read[r] = 2
    BY DEF ReportMeansAll
  <2>1. /\ answer \in BOOLEAN /\ 0 \in active /\ active \subseteq Rank
        /\ at[0] > ReportAt /\ \A r \in Rank : at[r] \in 1 .. LastOp(r) + 1
    BY DriverAssumption DEF IInv, Typed, Prints, Rank
  <2>2. \A r \in Rank : at[r] >= TimedEnd(r)
    BY <2>1 DEF IInv, Meetings, ReportAt, TimedEnd, WarmEnd
  <2>3. ASSUME NEW r \in Rank PROVE Passed(r, "timed")
    <3>1. WarmEnd(r) + 1 \in 1 .. at[r] - 1 /\ WarmEnd(r) + 1 \in 1 .. LastOp(r)
      BY <2>1, <2>2 DEF TimedEnd, WarmEnd, LastOp
    <3>2. Program(r)[WarmEnd(r) + 1] = "timed"
      BY <2>1, <3>1, Places
    <3> QED
      BY <3>1, <3>2 DEF Passed
  <2>4. ASSUME NEW r \in active
        PROVE  read[r] >= 1 /\ ("checked" \in printed => read[r] = 2)
    <3>1. /\ at[r] \in Nat /\ at[r] >= 15
          /\ read[r] = (IF at[r] > 11 THEN 1 ELSE 0)
                       + (IF answer /\ at[r] > 20 THEN 1 ELSE 0)
      BY <2>1, <2>2 DEF IInv, FilesRead, TimedEnd, WarmEnd
    <3>2. "checked" \in printed => answer /\ at[r] >= 23
      BY <2>1 DEF IInv, Prints, Meetings, LastReduce, ReportAt
    <3> QED
      BY <3>1, <3>2
  <2> QED
    BY <2>3, <2>4
<1> QED
  BY <1>1, Matched, PTL

\* The time process 0 takes is that of the timed calls of all, and of nothing
\* of the warm-up.
THEOREM TimeIsOfAll == Spec => []TimedTogether
<1>1. IInv => TimedTogether
  <2> SUFFICES ASSUME IInv, NEW r \in Rank, NEW s \in Rank, Running(r)
               PROVE  /\ Op(r) = "timed" => Passed(s, "warm")
                      /\ r = 0 /\ Passed(r, "timed") /\ Op(r) # "barrier"
                           => Passed(s, "timed")
    BY DEF TimedTogether
  <2>1. /\ answer \in BOOLEAN /\ at[r] \in 1 .. LastOp(r)
        /\ at[s] \in 1 .. LastOp(s) + 1
    BY DEF IInv, Typed
  <2>2. ASSUME at[s] >= WarmEnd(s) PROVE Passed(s, "warm")
    <3>1. /\ WarmEnd(s) - 1 \in 1 .. at[s] - 1
          /\ WarmEnd(s) - 1 \in 1 .. LastOp(s)
      BY <2>1, <2>2 DEF WarmEnd, LastOp
    <3>2. Program(s)[WarmEnd(s) - 1] = "warm"
      BY <2>1, <3>1, Places
    <3> QED
      BY <3>1, <3>2 DEF Passed
  <2>3. ASSUME at[s] >= TimedEnd(s) PROVE Passed(s, "timed")
    <3>1. WarmEnd(s) + 1 \in 1 .. at[s] - 1 /\ WarmEnd(s) + 1 \in 1 .. LastOp(s)
      BY <2>1, <2>3 DEF TimedEnd, WarmEnd, LastOp
    <3>2. Program(s)[WarmEnd(s) + 1] = "timed"
      BY <2>1, <3>1, Places
    <3> QED
      BY <3>1, <3>2 DEF Passed
  <2>4. ASSUME Op(r) = "timed" PROVE at[s] >= WarmEnd(s)
    <3>1. at[r] = WarmEnd(r) + 1
      BY <2>1, <2>4, Places DEF Op
    <3> QED
      BY <3>1 DEF IInv, Meetings, WarmEnd
  <2>5. ASSUME Passed(r, "timed"), Op(r) # "barrier" PROVE at[s] >= TimedEnd(s)
    <3>1. PICK k \in 1 .. at[r] - 1 : Program(r)[k] = "timed"
      BY <2>5 DEF Passed
    <3>2. k = WarmEnd(r) + 1
      BY <2>1, <3>1, Places DEF LastOp
    <3>3. at[r] # TimedEnd(r)
      BY <2>1, <2>5, Places DEF Op
    <3>4. at[r] > TimedEnd(r)
      BY <2>1, <3>1, <3>2, <3>3 DEF TimedEnd, WarmEnd
    <3> QED
      BY <3>4 DEF IInv, Meetings
  <2> QED
    BY <2>2, <2>3, <2>4, <2>5
<1> QED
  BY <1>1, Matched, PTL

====
