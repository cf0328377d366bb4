---------------------------- MODULE CalLockProof ----------------------------
(***************************************************************************)
(* Proofs about CalLock, for every number of slaves and of lines and every *)
(* width of the counters that has room for a ticket of each slave: type    *)
(* correctness and LinesInOrder.                                           *)
(*                                                                         *)
(* The tickets of the slaves in line are consecutive modulo the width, so  *)
(* they are distinct as long as the line is not longer than the width; so  *)
(* one slave at a time has the ticket cal_cur_id and prints.               *)
(***************************************************************************)
EXTENDS CalLock, FiniteSetTheorems, SequenceTheorems, TLAPS

\* No two slaves in line hold the same ticket.
Distinct == \A i, j \in InLine : req[i] = req[j] => i = j

\* Half a line stands at the end of the output while its slave is between the
\* halves, and only then.
HalfLine ==
  \/ /\ \A i \in Slave : pc[i] # "flush"
     /\ Len(stdout) % 2 = 0
  \/ \E i \in Slave :
       /\ pc[i] = "flush"
       /\ Len(stdout) % 2 = 1
       /\ stdout[Len(stdout)] = <<i, "puts">>

\* A slave is in line with a line to print.
Owing == \A i \in InLine : left[i] > 0

IInv ==
  TypeOK /\ Owing /\ TicketsInLine /\ Distinct /\ HalfLine /\ WholeLines

-----------------------------------------------------------------------------
(* Numbers, and the slaves in line.                                        *)

\* The k-th ticket from c on.
Ticket(c, k) == (c + k) % Words

\* A number below twice the width is reduced by subtracting the width once.
LEMMA Reduce ==
  ASSUME NEW a \in Nat, a < Words + Words
  PROVE  a % Words = IF a < Words THEN a ELSE a - Words
<1> DEFINE d == a \div Words
           m == a % Words
<1>1. Words \in Nat \ {0}
  BY CalLockAssumption
<1>2. d \in Nat /\ m \in 0 .. Words - 1 /\ m = a - Words * d
  BY <1>1
<1> SUFFICES m = IF a < Words THEN a ELSE a - Words
  OBVIOUS
<1> HIDE DEF d, m
<1>3. d = 0 \/ d = 1
  <2> SUFFICES ASSUME d >= 2 PROVE FALSE
    BY <1>2
  <2>1. /\ Words * d = Words + Words + Words * (d - 2)
        /\ Words * (d - 2) \in Nat
    BY <1>1, <1>2
  <2> QED
    BY <1>1, <1>2, <2>1
<1>4. Words * 0 = 0 /\ Words * 1 = Words
  BY <1>1
<1> QED
  BY <1>1, <1>2, <1>3, <1>4

\* A counter wraps at most once over a line of slaves.
LEMMA Wrap ==
  ASSUME NEW c \in 0 .. Words - 1, NEW k \in 0 .. Words
  PROVE  Ticket(c, k) = IF c + k < Words THEN c + k ELSE c + k - Words
<1>1. c + k \in Nat /\ c + k < Words + Words
  BY CalLockAssumption
<1> QED
  BY <1>1, Reduce, CalLockAssumption DEF Ticket

\* Tickets less than a turn of the counter apart are different.
LEMMA Apart ==
  ASSUME NEW c \in 0 .. Words - 1,
         NEW k \in 0 .. Words - 1, NEW n \in 0 .. Words - 1, k # n
  PROVE  Ticket(c, k) # Ticket(c, n)
<1>1. Words \in Nat
  BY CalLockAssumption
<1>2. /\ Ticket(c, k) = IF c + k < Words THEN c + k ELSE c + k - Words
      /\ Ticket(c, n) = IF c + n < Words THEN c + n ELSE c + n - Words
  BY <1>1, Wrap
<1> QED
  BY <1>1, <1>2

\* The next ticket is the first from the next one on.
LEMMA OneOn ==
  ASSUME NEW c \in 0 .. Words - 1, NEW k \in 0 .. Words - 1
  PROVE  /\ Ticket(c, k) \in 0 .. Words - 1 /\ Ticket(c, 0) = c
         /\ Ticket(c, 1) \in 0 .. Words - 1
         /\ Ticket(Ticket(c, 1), k) = Ticket(c, k + 1)
         /\ Ticket(Ticket(c, k), 1) = Ticket(c, k + 1)
<1>1. Words \in Nat /\ Words >= 1 /\ {0, 1, k, k + 1} \subseteq 0 .. Words
  BY CalLockAssumption
<1>2. /\ Ticket(c, 0) = c
      /\ Ticket(c, 1) = IF c + 1 < Words THEN c + 1 ELSE 0
      /\ Ticket(c, k) = IF c + k < Words THEN c + k ELSE c + k - Words
      /\ Ticket(c, k + 1) = IF c + k + 1 < Words THEN c + k + 1
                                                 ELSE c + k + 1 - Words
  BY <1>1, Wrap
<1>3. Ticket(c, k) \in 0 .. Words - 1 /\ Ticket(c, 1) \in 0 .. Words - 1
  BY <1>1, <1>2
<1>4. /\ Ticket(Ticket(c, 1), k) =
           IF Ticket(c, 1) + k < Words THEN Ticket(c, 1) + k
                                       ELSE Ticket(c, 1) + k - Words
      /\ Ticket(Ticket(c, k), 1) =
           IF Ticket(c, k) + 1 < Words THEN Ticket(c, k) + 1
                                       ELSE Ticket(c, k) + 1 - Words
  BY <1>1, <1>3, Wrap
<1> QED
  BY <1>1, <1>2, <1>3, <1>4

\* The line is finite and not longer than the width.
LEMMA LineFits ==
  /\ IsFiniteSet(InLine) /\ Cardinality(InLine) \in Nat
  /\ Cardinality(InLine) <= Words
  /\ Words \in Nat
  /\ \A i \in Slave \ InLine :
       /\ Cardinality(InLine \cup {i}) = Cardinality(InLine) + 1
       /\ Cardinality(InLine) < Words
  /\ \A i \in InLine : Cardinality(InLine \ {i}) = Cardinality(InLine) - 1
<1>1. /\ IsFiniteSet(Slave) /\ Words \in Nat /\ Words >= Cardinality(Slave)
      /\ Cardinality(Slave) \in Nat
  BY CalLockAssumption, FS_CardinalityType
<1>2. InLine \subseteq Slave
  BY DEF InLine
<1>3. /\ IsFiniteSet(InLine) /\ Cardinality(InLine) \in Nat
      /\ Cardinality(InLine) <= Cardinality(Slave)
  BY <1>1, <1>2, FS_Subset, FS_CardinalityType
<1>4. ASSUME NEW i \in Slave \ InLine
      PROVE  /\ Cardinality(InLine \cup {i}) = Cardinality(InLine) + 1
             /\ Cardinality(InLine) < Words
  <2>1. Cardinality(InLine \cup {i}) = Cardinality(InLine) + 1
    BY <1>3, FS_AddElement
  <2>2. Cardinality(InLine \cup {i}) <= Cardinality(Slave)
    <3>1. InLine \cup {i} \subseteq Slave
      BY <1>2
    <3> QED
      BY <1>1, <3>1, FS_Subset
  <2> QED
    BY <1>1, <1>3, <2>1, <2>2
<1>5. ASSUME NEW i \in InLine
      PROVE  Cardinality(InLine \ {i}) = Cardinality(InLine) - 1
  BY <1>3, FS_RemoveElement
<1> QED
  BY <1>1, <1>3, <1>4, <1>5

-----------------------------------------------------------------------------
(* One lemma per action.                                                   *)

\* Every step keeps the types, and a slave comes with a line to print.
LEMMA TypeStep == TypeOK /\ Owing /\ [Next]_vars => TypeOK' /\ Owing'
<1> SUFFICES ASSUME TypeOK, Owing, [Next]_vars PROVE TypeOK' /\ Owing'
  OBVIOUS
<1> USE DEF TypeOK, Owing, InLine
<1>1. Words \in Nat /\ \A c \in 0 .. Words - 1 : (c + 1) % Words \in 0 .. Words - 1
  BY CalLockAssumption
<1>2. ASSUME NEW i \in Slave, Draw(i) PROVE TypeOK' /\ Owing'
  BY <1>1, <1>2 DEF Draw
<1>3. ASSUME NEW i \in Slave, Look(i) PROVE TypeOK' /\ Owing'
  BY <1>3 DEF Look
<1>4. ASSUME NEW i \in Slave, NEW from \in {"puts", "flush"},
             NEW to \in {"flush", "unlock"}, PrintHalf(i, from, to)
      PROVE  TypeOK' /\ Owing'
  <2>1. <<i, from>> \in Slave \X {"puts", "flush"}
    OBVIOUS
  <2>2. stdout' \in Seq(Slave \X {"puts", "flush"})
    BY <1>4, <2>1, AppendProperties DEF PrintHalf
  <2> QED
    BY <1>4, <2>2 DEF PrintHalf
<1>5. ASSUME NEW i \in Slave, Unlock(i) PROVE TypeOK' /\ Owing'
  <2>1. left[i] > 0 /\ left[i] - 1 \in 0 .. Lines
    BY <1>5, CalLockAssumption DEF Unlock
  <2> QED
    BY <1>1, <1>5, <2>1 DEF Unlock
<1>6. CASE UNCHANGED vars
  BY <1>6 DEF vars
<1> QED
  BY <1>2, <1>3, <1>4, <1>5, <1>6 DEF Next, SlaveStep

\* A ticket is drawn: it is the next after those in line.
LEMMA DrawStep ==
  ASSUME IInv, NEW i \in Slave, Draw(i)
  PROVE  TicketsInLine' /\ Distinct'
<1> DEFINE n == Cardinality(InLine)
           c == cal_cur_id
<1>1. /\ pc[i] = "ready" /\ c' = c
      /\ req' = [req EXCEPT ![i] = cal_req_id]
      /\ cal_req_id' = Ticket(cal_req_id, 1)
      /\ pc' = [pc EXCEPT ![i] = "wait"]
  BY DEF Draw, Ticket
<1>2. /\ InLine' = InLine \cup {i} /\ i \notin InLine
      /\ Printing' = Printing
  BY <1>1 DEF InLine, Printing, IInv, TypeOK
<1>3. n \in Nat /\ n < Words /\ Words \in Nat /\ Cardinality(InLine') = n + 1
  BY <1>1, <1>2, LineFits DEF InLine
<1>4. c \in 0 .. Words - 1 /\ cal_req_id = Ticket(c, n)
  BY DEF IInv, TypeOK, TicketsInLine, Ticket
<1>5. {req[j] : j \in InLine} = {Ticket(c, k) : k \in 0 .. n - 1}
  BY DEF IInv, TicketsInLine, Ticket
<1>6. /\ req'[i] = Ticket(c, n)
      /\ \A j \in InLine : req'[j] = req[j] /\ j \in Slave
  BY <1>1, <1>2, <1>4 DEF IInv, TypeOK, InLine
<1> HIDE DEF n, c
<1>7. {req'[j] : j \in InLine'} = {Ticket(c, k) : k \in 0 .. n}
  <2>1. {req'[j] : j \in InLine'} = {req[j] : j \in InLine} \cup {Ticket(c, n)}
    BY <1>2, <1>6
  <2>2. {Ticket(c, k) : k \in 0 .. n}
          = {Ticket(c, k) : k \in 0 .. n - 1} \cup {Ticket(c, n)}
    BY <1>3
  <2> QED
    BY <1>5, <2>1, <2>2
<1>8. cal_req_id' = Ticket(c, n + 1)
  BY <1>1, <1>3, <1>4, OneOn
<1>9. TicketsInLine'
  <2>3. Cardinality(InLine') - 1 = n
    BY <1>3
  <2>1. {req'[j] : j \in InLine'}
          = {Ticket(c, k) : k \in 0 .. Cardinality(InLine') - 1}
    BY <1>7, <2>3, Zenon
  <2>2. \A j \in Printing : req'[j] = c /\ j \in InLine
    BY <1>6 DEF IInv, TicketsInLine, Printing, InLine, c
  <2> QED
    BY <1>1, <1>2, <1>3, <1>8, <2>1, <2>2 DEF TicketsInLine, Ticket, c
<1>10. \A j \in InLine : req[j] # Ticket(c, n)
  <2> SUFFICES ASSUME NEW j \in InLine PROVE req[j] # Ticket(c, n)
    OBVIOUS
  <2>1. PICK k \in 0 .. n - 1 : req[j] = Ticket(c, k)
    BY <1>5
  <2> QED
    BY <1>3, <1>4, <2>1, Apart
<1>11. Distinct'
  BY <1>2, <1>6, <1>10 DEF Distinct, IInv
<1> QED
  BY <1>9, <1>11

\* The slave with the ticket cal_cur_id leaves the line: it was the only one
\* to print, and the next ticket comes to be the first.
LEMMA UnlockStep ==
  ASSUME IInv, NEW i \in Slave, Unlock(i)
  PROVE  TicketsInLine' /\ Distinct'
<1> DEFINE n == Cardinality(InLine)
           c == cal_cur_id
<1>1. /\ pc[i] = "unlock" /\ c' = Ticket(c, 1)
      /\ pc' = [pc EXCEPT ![i] = "ready"]
      /\ UNCHANGED <<cal_req_id, req>>
  BY DEF Unlock, Ticket
<1>2. InLine' = InLine \ {i} /\ i \in InLine /\ i \in Printing
  BY <1>1 DEF InLine, Printing, IInv, TypeOK
<1>3. /\ n \in Nat /\ n <= Words /\ Words \in Nat
      /\ Cardinality(InLine') = n - 1
  BY <1>2, LineFits
<1>4. c \in 0 .. Words - 1 /\ cal_req_id = Ticket(c, n) /\ req[i] = c
  BY <1>2 DEF IInv, TypeOK, TicketsInLine, Ticket
<1>5. {req[j] : j \in InLine} = {Ticket(c, k) : k \in 0 .. n - 1}
  BY DEF IInv, TicketsInLine, Ticket
<1>6. \A j \in InLine : j # i => req[j] # c
  BY <1>2, <1>4 DEF IInv, Distinct
<1>7. Printing' = {}
  BY <1>1, <1>2, <1>6 DEF IInv, TypeOK, TicketsInLine, Printing, InLine
<1> HIDE DEF n, c
<1>8. n >= 1
  <2>1. req[i] \in {Ticket(c, k) : k \in 0 .. n - 1}
    BY <1>2, <1>5
  <2> QED
    BY <1>3, <2>1
<1>9. {req[j] : j \in InLine'} = {Ticket(c', k) : k \in 0 .. n - 2}
  <2>1. ASSUME NEW j \in InLine'
        PROVE  \E k \in 0 .. n - 2 : req[j] = Ticket(c', k)
    <3>1. PICK k \in 0 .. n - 1 : req[j] = Ticket(c, k)
      BY <1>2, <1>5
    <3>2. k # 0
      BY <1>2, <1>4, <1>6, <3>1, OneOn
    <3>3. k - 1 \in 0 .. n - 2 /\ k - 1 \in 0 .. Words - 1 /\ k - 1 + 1 = k
      BY <1>3, <3>2
    <3>4. Ticket(c', k - 1) = Ticket(c, k)
      BY <1>1, <1>4, <3>3, OneOn
    <3> QED
      BY <3>1, <3>3, <3>4
  <2>2. ASSUME NEW k \in 0 .. n - 2
        PROVE  \E j \in InLine' : req[j] = Ticket(c', k)
    <3>1. k \in 0 .. Words - 1 /\ k + 1 \in 0 .. n - 1
          /\ k + 1 \in 0 .. Words - 1 /\ 0 \in 0 .. Words - 1 /\ k + 1 # 0
      BY <1>3, <1>8
    <3>2. Ticket(c', k) = Ticket(c, k + 1)
      BY <1>1, <1>4, <3>1, OneOn
    <3>3. PICK j \in InLine : req[j] = Ticket(c, k + 1)
      BY <1>5, <3>1
    <3>4. Ticket(c, k + 1) # Ticket(c, 0) /\ Ticket(c, 0) = c
      BY <1>4, <3>1, Apart, OneOn
    <3> QED
      BY <1>2, <1>4, <3>2, <3>3, <3>4
  <2> QED
    BY <2>1, <2>2
<1>10. cal_req_id = Ticket(c', n - 1)
  <2>1. n - 1 \in 0 .. Words - 1 /\ n - 1 + 1 = n
    BY <1>3, <1>8
  <2> QED
    BY <1>1, <1>4, <2>1, OneOn
<1>11. TicketsInLine'
  <2>2. Cardinality(InLine') - 1 = n - 2
    BY <1>3
  <2>3. {req[j] : j \in InLine'}
          = {Ticket(c', k) : k \in 0 .. Cardinality(InLine') - 1}
    BY <1>9, <2>2, Zenon
  <2>1. {req'[j] : j \in InLine'}
          = {Ticket(c', k) : k \in 0 .. Cardinality(InLine') - 1}
    BY <1>1, <2>3, Zenon
  <2> QED
    BY <1>1, <1>3, <1>7, <1>10, <2>1 DEF TicketsInLine, Ticket, c
<1>12. Distinct'
  BY <1>1, <1>2 DEF Distinct, IInv
<1> QED
  BY <1>11, <1>12

\* A step that leaves the line as it is, and lets in only a slave that is called.
LEMMA LineStays ==
  ASSUME IInv, UNCHANGED <<cal_req_id, cal_cur_id, req>>, InLine' = InLine,
         \A i \in Printing' : i \in Printing \/ req[i] = cal_cur_id
  PROVE  TicketsInLine' /\ Distinct'
<1>1. cal_req_id' = cal_req_id /\ cal_cur_id' = cal_cur_id /\ req' = req
  OBVIOUS
<1>2. /\ {req'[i] : i \in InLine'} =
           {(cal_cur_id' + k) % Words : k \in 0 .. Cardinality(InLine') - 1}
      /\ cal_req_id' = (cal_cur_id' + Cardinality(InLine')) % Words
  BY <1>1, Zenon DEF IInv, TicketsInLine
<1>3. \A i \in Printing' : req'[i] = cal_cur_id'
  BY <1>1 DEF IInv, TicketsInLine
<1>4. Distinct'
  BY <1>1, Zenon DEF IInv, Distinct
<1> QED
  BY <1>2, <1>3, <1>4, Zenon DEF TicketsInLine

\* The first half of a line: only its slave prints, and the output is whole.
LEMMA PutsStep ==
  ASSUME IInv, NEW i \in Slave, PrintHalf(i, "puts", "flush")
  PROVE  HalfLine' /\ WholeLines'
<1> DEFINE n == Len(stdout)
<1>1. /\ pc[i] = "puts" /\ pc' = [pc EXCEPT ![i] = "flush"]
      /\ stdout' = Append(stdout, <<i, "puts">>)
      /\ stdout \in Seq(Slave \X {"puts", "flush"})
      /\ pc \in [Slave -> {"ready", "wait", "stuck", "puts", "flush", "unlock"}]
  BY DEF PrintHalf, IInv, TypeOK
<1>2. ASSUME NEW j \in Slave, pc[j] = "flush" PROVE FALSE
  <2>1. {i, j} \subseteq Printing /\ {i, j} \subseteq InLine /\ i # j
    BY <1>1, <1>2 DEF Printing, InLine
  <2> QED
    BY <2>1 DEF IInv, TicketsInLine, Distinct
<1>3. n % 2 = 0
  BY <1>2 DEF IInv, HalfLine
<1>4. /\ n \in Nat /\ Len(stdout') = n + 1
      /\ stdout'[n + 1] = <<i, "puts">>
      /\ \A k \in 1 .. n : stdout'[k] = stdout[k]
  BY <1>1, AppendProperties, LenProperties
<1>5. pc'[i] = "flush"
  BY <1>1
<1> HIDE DEF n
<1>6. (n + 1) % 2 = 1 /\ (n + 1) \div 2 = n \div 2
  BY <1>3, <1>4
<1>7. HalfLine'
  BY <1>4, <1>5, <1>6 DEF HalfLine
<1>8. \A k \in 1 .. n \div 2 : stdout[2 * k - 1] = <<stdout[2 * k][1], "puts">>
  BY DEF IInv, WholeLines, n
<1>9. \A k \in 1 .. n \div 2 : 2 * k - 1 \in 1 .. n /\ 2 * k \in 1 .. n
  BY <1>4
<1>10. WholeLines'
  BY <1>4, <1>6, <1>8, <1>9 DEF WholeLines
<1> QED
  BY <1>7, <1>10

\* The second half of a line goes behind the first.
LEMMA FlushStep ==
  ASSUME IInv, NEW i \in Slave, PrintHalf(i, "flush", "unlock")
  PROVE  HalfLine' /\ WholeLines'
<1> DEFINE n == Len(stdout)
<1>1. /\ pc[i] = "flush" /\ pc' = [pc EXCEPT ![i] = "unlock"]
      /\ stdout' = Append(stdout, <<i, "flush">>)
      /\ stdout \in Seq(Slave \X {"puts", "flush"})
      /\ pc \in [Slave -> {"ready", "wait", "stuck", "puts", "flush", "unlock"}]
  BY DEF PrintHalf, IInv, TypeOK
<1>2. \A j \in Slave : pc[j] = "flush" => j = i
  <2> SUFFICES ASSUME NEW j \in Slave, pc[j] = "flush" PROVE j = i
    OBVIOUS
  <2>1. {i, j} \subseteq Printing /\ {i, j} \subseteq InLine
    BY <1>1 DEF Printing, InLine
  <2> QED
    BY <2>1 DEF IInv, TicketsInLine, Distinct
<1>3. n % 2 = 1 /\ stdout[n] = <<i, "puts">>
  BY <1>1, <1>2 DEF IInv, HalfLine
<1>4. /\ n \in Nat /\ Len(stdout') = n + 1
      /\ stdout'[n + 1] = <<i, "flush">>
      /\ \A k \in 1 .. n : stdout'[k] = stdout[k]
  BY <1>1, AppendProperties, LenProperties
<1>5. \A j \in Slave : pc'[j] # "flush"
  BY <1>1, <1>2
<1> HIDE DEF n
<1>6. /\ (n + 1) % 2 = 0 /\ (n + 1) \div 2 = n \div 2 + 1
      /\ 2 * (n \div 2 + 1) = n + 1 /\ n \div 2 \in Nat
  BY <1>3, <1>4
<1>7. HalfLine'
  BY <1>4, <1>5, <1>6 DEF HalfLine
<1>8. \A k \in 1 .. n \div 2 : stdout[2 * k - 1] = <<stdout[2 * k][1], "puts">>
  BY DEF IInv, WholeLines, n
<1>9. \A k \in 1 .. n \div 2 :
        stdout'[2 * k - 1] = <<stdout'[2 * k][1], "puts">>
  <2>1. \A k \in 1 .. n \div 2 : 2 * k - 1 \in 1 .. n /\ 2 * k \in 1 .. n
    BY <1>4
  <2> QED
    BY <1>4, <1>8, <2>1
<1>10. /\ stdout'[n] = <<stdout'[n + 1][1], "puts">>
  BY <1>3, <1>4
<1>11. WholeLines'
  <2> SUFFICES ASSUME NEW k \in 1 .. n \div 2 + 1
               PROVE  stdout'[2 * k - 1] = <<stdout'[2 * k][1], "puts">>
    BY <1>4, <1>6 DEF WholeLines
  <2>1. CASE k = n \div 2 + 1
    <3>1. 2 * k = n + 1 /\ 2 * k - 1 = n
      BY <1>4, <1>6, <2>1
    <3> QED
      BY <1>10, <3>1
  <2>2. CASE k # n \div 2 + 1
    <3>1. k \in 1 .. n \div 2
      BY <1>6, <2>2
    <3> QED
      BY <1>9, <3>1
  <2> QED
    BY <2>1, <2>2
<1> QED
  BY <1>7, <1>11

\* A step that prints nothing and moves nobody to or from the second half.
LEMMA OutputStays ==
  ASSUME IInv, UNCHANGED stdout,
         \A i \in Slave : pc'[i] = "flush" <=> pc[i] = "flush"
  PROVE  HalfLine' /\ WholeLines'
BY DEF IInv, HalfLine, WholeLines

-----------------------------------------------------------------------------
(* The invariant and the theorems.                                         *)

\* Nobody is in line at the start.
LEMMA InvInit == Init => IInv
<1> SUFFICES ASSUME Init PROVE IInv
  OBVIOUS
<1> USE DEF Init
<1>1. InLine = {} /\ Printing = {}
  BY DEF InLine, Printing
<1>2. TypeOK
  BY CalLockAssumption DEF TypeOK
<1>3. Len(stdout) = 0 /\ Cardinality(InLine) = 0
  BY <1>1, FS_EmptySet
<1>4. TicketsInLine
  <2>1. (0 + 0) % Words = 0
    BY CalLockAssumption
  <2>2. 0 .. 0 - 1 = {}
    OBVIOUS
  <2> QED
    BY <1>1, <1>3, <2>1, <2>2 DEF TicketsInLine
<1>5. Owing /\ Distinct /\ HalfLine /\ WholeLines
  BY <1>1, <1>3 DEF Owing, Distinct, HalfLine, WholeLines
<1> QED
  BY <1>2, <1>4, <1>5 DEF IInv

\* Every step keeps the invariant.
LEMMA InvStep == IInv /\ [Next]_vars => IInv'
<1> SUFFICES ASSUME IInv, [Next]_vars PROVE IInv'
  OBVIOUS
<1>1. TypeOK' /\ Owing'
  BY TypeStep DEF IInv
<1> SUFFICES TicketsInLine' /\ Distinct' /\ HalfLine' /\ WholeLines'
  BY <1>1 DEF IInv
<1>2. pc \in [Slave -> {"ready", "wait", "stuck", "puts", "flush", "unlock"}]
  BY DEF IInv, TypeOK
<1>3. ASSUME NEW i \in Slave, Draw(i)
      PROVE  TicketsInLine' /\ Distinct' /\ HalfLine' /\ WholeLines'
  <2>1. UNCHANGED stdout /\ \A j \in Slave : pc'[j] = "flush" <=> pc[j] = "flush"
    BY <1>2, <1>3 DEF Draw
  <2> QED
    BY <1>3, <2>1, DrawStep, OutputStays
<1>4. ASSUME NEW i \in Slave, Look(i)
      PROVE  TicketsInLine' /\ Distinct' /\ HalfLine' /\ WholeLines'
  <2>1. UNCHANGED stdout /\ \A j \in Slave : pc'[j] = "flush" <=> pc[j] = "flush"
    BY <1>2, <1>4 DEF Look
  <2>2. /\ UNCHANGED <<cal_req_id, cal_cur_id, req>> /\ InLine' = InLine
        /\ \A j \in Printing' : j \in Printing \/ req[j] = cal_cur_id
    BY <1>2, <1>4 DEF Look, InLine, Printing, Called
  <2> QED
    BY <2>1, <2>2, LineStays, OutputStays
<1>5. ASSUME NEW i \in Slave, PrintHalf(i, "puts", "flush")
      PROVE  TicketsInLine' /\ Distinct' /\ HalfLine' /\ WholeLines'
  <2>1. /\ UNCHANGED <<cal_req_id, cal_cur_id, req>> /\ InLine' = InLine
        /\ \A j \in Printing' : j \in Printing \/ req[j] = cal_cur_id
    BY <1>2, <1>5 DEF PrintHalf, InLine, Printing
  <2> QED
    BY <1>5, <2>1, LineStays, PutsStep
<1>6. ASSUME NEW i \in Slave, PrintHalf(i, "flush", "unlock")
      PROVE  TicketsInLine' /\ Distinct' /\ HalfLine' /\ WholeLines'
  <2>1. /\ UNCHANGED <<cal_req_id, cal_cur_id, req>> /\ InLine' = InLine
        /\ \A j \in Printing' : j \in Printing \/ req[j] = cal_cur_id
    BY <1>2, <1>6 DEF PrintHalf, InLine, Printing
  <2> QED
    BY <1>6, <2>1, LineStays, FlushStep
<1>7. ASSUME NEW i \in Slave, Unlock(i)
      PROVE  TicketsInLine' /\ Distinct' /\ HalfLine' /\ WholeLines'
  <2>1. UNCHANGED stdout /\ \A j \in Slave : pc'[j] = "flush" <=> pc[j] = "flush"
    BY <1>2, <1>7 DEF Unlock
  <2> QED
    BY <1>7, <2>1, UnlockStep, OutputStays
<1>8. CASE UNCHANGED vars
  <2>1. /\ UNCHANGED <<cal_req_id, cal_cur_id, req, stdout, pc>>
        /\ InLine' = InLine /\ Printing' = Printing
    BY <1>8 DEF vars, InLine, Printing
  <2> QED
    BY <2>1, LineStays, OutputStays
<1> QED
  BY <1>3, <1>4, <1>5, <1>6, <1>7, <1>8 DEF Next, SlaveStep

\* Tickets, lines and output stay in step, hoisted or not.
LEMMA Locked == Spec => []IInv
BY InvInit, InvStep, PTL DEF Spec

\* The variables of the lock keep their types: the counters wrap at their width.
THEOREM LockTyped == Spec => []TypeOK
<1>1. IInv => TypeOK
  BY DEF IInv
<1> QED
  BY <1>1, Locked, PTL

\* cal_locked_printf keeps the lines of the slaves apart and prints them in the
\* order of the tickets, wherever the counters wrap, as long as there are at
\* least as many tickets as slaves.
THEOREM LinesApart == Spec => []LinesInOrder
<1>1. IInv => LinesInOrder
  BY DEF IInv, LinesInOrder
<1> QED
  BY <1>1, Locked, PTL

=============================================================================
