------------------------------- MODULE Jacobi -------------------------------
(***************************************************************************)
(* What the processes of a run promise together.  A call of stencil_7 or   *)
(* stencil_27 takes every block from time step 0 to time step nt, and a    *)
(* block takes a step only when the blocks it borders on have come as far. *)
(* benchmark.c makes a warm-up call, waits at a barrier and makes the      *)
(* timed call, both from the same input.                                   *)
(***************************************************************************)
EXTENDS Naturals

CONSTANTS
  NumZ,    \* blocks, one per process along z
  WarmUp,  \* nt of the first call
  NT       \* nt of the second call

VARIABLES
  call,  \* call[r]: the call block r is in, 1 the warm-up, 2 the timed one
  step,  \* step[r]: time steps taken in that call
  value  \* value[r]: time step of the values in the array that counts

jacobiVars == <<call, step, value>>

Block == 0 .. NumZ - 1

Borders(r) == {s \in Block : s + 1 = r \/ s = r + 1}

Steps(c) == IF c = 1 THEN WarmUp ELSE NT

Init ==
  /\ call = [r \in Block |-> 1]
  /\ step = [r \in Block |-> 0]
  /\ value = [r \in Block |-> 0]

\* Block r takes a time step.
Advance(r) ==
  /\ step[r] < Steps(call[r])
  /\ \A s \in Borders(r) : call[s] = call[r] /\ step[s] >= step[r]
  /\ step' = [step EXCEPT ![r] = @ + 1]
  /\ value' = [value EXCEPT ![r] = @ + 1]
  /\ call' = call

\* Block r starts the timed call, from the input: every block is through with
\* the warm-up.
StartTimed(r) ==
  /\ call[r] = 1
  /\ \A s \in Block : call[s] = 2 \/ step[s] = WarmUp
  /\ call' = [call EXCEPT ![r] = 2]
  /\ step' = [step EXCEPT ![r] = 0]
  /\ value' = [value EXCEPT ![r] = 0]

Next == \E r \in Block : Advance(r) \/ StartTimed(r)

Spec == Init /\ [][Next]_jacobiVars

FairSpec == Spec /\ WF_jacobiVars(Next)

=============================================================================
