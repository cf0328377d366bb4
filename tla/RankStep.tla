------------------------------ MODULE RankStep ------------------------------
(***************************************************************************)
(* What one MPI process promises while it runs stencil_7 or stencil_27,    *)
(* seen from its neighbours: it finishes time step s only when the halos   *)
(* of step s have been exchanged with every neighbour it has, it exchanges *)
(* the halos of step s only when its own block has reached step s, and the *)
(* call returns only after all of its steps.                               *)
(*                                                                         *)
(* common.h states the contract of a call (arrays in, output array out);   *)
(* benchmark.c makes two calls, a warm-up of one step and the timed one.   *)
(***************************************************************************)
EXTENDS Naturals

CONSTANTS
  WarmUp,  \* nt of the first call
  NT       \* nt of the second call

VARIABLES
  peers,    \* the request groups that have a neighbour, a subset of {0, 1}
  call,     \* the call in progress: 1 the warm-up, 2 the timed one
  done,     \* time steps of the call that are finished
  got,      \* got[g]: halo exchanges of the call finished with neighbour g
  returned  \* the second call has returned

rankVars == <<peers, call, done, got, returned>>

Steps == IF call = 1 THEN WarmUp ELSE NT

Init ==
  /\ peers \in {{0}, {1}, {0, 1}}
  /\ call = 1
  /\ done = 0
  /\ got = [g \in {0, 1} |-> 0]
  /\ returned = FALSE

\* The planes of step `done` have been swapped with neighbour g.
Exchange(g) ==
  /\ g \in peers
  /\ done < Steps
  /\ got[g] = done
  /\ got' = [got EXCEPT ![g] = @ + 1]
  /\ UNCHANGED <<peers, call, done, returned>>

\* Every cell of the block has its value of step done + 1.
Advance ==
  /\ done < Steps
  /\ \A g \in peers : got[g] = done + 1
  /\ done' = done + 1
  /\ UNCHANGED <<peers, call, got, returned>>

\* A call returns; the timed call follows the warm-up.
Return ==
  /\ ~returned
  /\ done = Steps
  /\ \/ /\ call = 1
        /\ call' = 2
        /\ done' = 0
        /\ got' = [g \in {0, 1} |-> 0]
        /\ UNCHANGED <<peers, returned>>
     \/ /\ call = 2
        /\ returned' = TRUE
        /\ UNCHANGED <<peers, call, done, got>>

Next ==
  \/ \E g \in {0, 1} : Exchange(g)
  \/ Advance
  \/ Return

Spec == Init /\ [][Next]_rankVars

=============================================================================
