------------------------------ MODULE Barrier ------------------------------
(***************************************************************************)
(* What the callers of sesc_barrier expect: they meet.  A thread leaves    *)
(* its k-th barrier only when every thread has entered its k-th.           *)
(***************************************************************************)
EXTENDS Naturals

CONSTANT Threads

VARIABLES
  entered,  (* entered[t]: barriers thread t has entered                   *)
  left      (* left[t]: barriers thread t has left                         *)

Init == entered = [t \in Threads |-> 0] /\ left = [t \in Threads |-> 0]

Enter(t) ==
  /\ entered[t] = left[t]
  /\ entered' = [entered EXCEPT ![t] = @ + 1]
  /\ UNCHANGED left

Leave(t) ==
  /\ left[t] < entered[t]
  /\ \A s \in Threads : left[t] < entered[s]
  /\ left' = [left EXCEPT ![t] = @ + 1]
  /\ UNCHANGED entered

Next == \E t \in Threads : Enter(t) \/ Leave(t)

Spec == Init /\ [][Next]_<<entered, left>>
=============================================================================
