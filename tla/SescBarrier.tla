---------------------------- MODULE SescBarrier ----------------------------
(***************************************************************************)
(* sesc_barrier of libapp: the centralised sense-reversing barrier that    *)
(* simulated applications synchronise with, used again and again by the    *)
(* same num_proc threads.  Every load, store and fetch-op of the shared    *)
(* words is a step.                                                        *)
(***************************************************************************)
EXTENDS Naturals, FiniteSets

CONSTANT Threads

ASSUME ThreadsAssumption == IsFiniteSet(Threads) /\ Threads # {}

num_proc == Cardinality(Threads)

VARIABLES
  count,    (* barr->count                                                 *)
  gsense,   (* barr->gsense                                                *)
  pc,       (* pc[t]: where thread t is in sesc_barrier                    *)
  lsense,   (* lsense[t]: its local sense                                  *)
  entered,  (* history: barriers entered                                   *)
  left      (* history: barriers left                                      *)

vars == <<count, gsense, pc, lsense, entered, left>>

(* The types: a barrier never counts more than num_proc arrivals.          *)
TypeOK ==
  /\ count \in 0 .. num_proc
  /\ gsense \in BOOLEAN
  /\ pc \in [Threads -> {"outside", "arrive", "reset", "flip", "spin"}]
  /\ lsense \in [Threads -> BOOLEAN]
  /\ entered \in [Threads -> Nat]
  /\ left \in [Threads -> Nat]

(* sesc_barrier_init                                                       *)
Init ==
  /\ count = 0
  /\ gsense = FALSE
  /\ pc = [t \in Threads |-> "outside"]
  /\ lsense = [t \in Threads |-> FALSE]
  /\ entered = [t \in Threads |-> 0]
  /\ left = [t \in Threads |-> 0]
-----------------------------------------------------------------------------
leaves(t) ==
  /\ pc' = [pc EXCEPT ![t] = "outside"]
  /\ left' = [left EXCEPT ![t] = @ + 1]

readSense(t) ==
  /\ pc[t] = "outside"
  /\ lsense' = [lsense EXCEPT ![t] = ~gsense]
  /\ pc' = [pc EXCEPT ![t] = "arrive"]
  /\ entered' = [entered EXCEPT ![t] = @ + 1]
  /\ UNCHANGED <<count, gsense, left>>

(* Mutant: the barrier opens an arrival early.                             *)
mutOneEarly(t) ==
  /\ pc[t] = "arrive"
  /\ count' = count + 1
  /\ pc' = [pc EXCEPT ![t] = IF count >= num_proc - 2 THEN "reset" ELSE "spin"]
  /\ UNCHANGED <<gsense, lsense, entered, left>>

fetchInc(t) ==
  /\ pc[t] = "arrive"
  /\ count' = count + 1
  /\ pc' = [pc EXCEPT ![t] = IF count = num_proc - 1 THEN "reset" ELSE "spin"]
  /\ UNCHANGED <<gsense, lsense, entered, left>>

resetCount(t) ==
  /\ pc[t] = "reset"
  /\ count' = 0
  /\ pc' = [pc EXCEPT ![t] = "flip"]
  /\ UNCHANGED <<gsense, lsense, entered, left>>

flipSense(t) ==
  /\ pc[t] = "flip"
  /\ gsense' = lsense[t]
  /\ leaves(t)
  /\ UNCHANGED <<count, lsense, entered>>

(* The loop that spins and yields, when it ends.                           *)
seesSense(t) ==
  /\ pc[t] = "spin" /\ lsense[t] = gsense
  /\ leaves(t)
  /\ UNCHANGED <<count, gsense, lsense, entered>>

Inside(t) == fetchInc(t) \/ resetCount(t) \/ flipSense(t) \/ seesSense(t)

Next == \E t \in Threads : readSense(t) \/ Inside(t)

Spec == Init /\ [][Next]_vars
-----------------------------------------------------------------------------
(* The threads meet: each leaves a barrier only when all have entered it,  *)
(* although a fast thread may be in the next barrier while a slow one has  *)
(* not yet seen the sense of this one flip.                                *)
Abstract == INSTANCE Barrier
ImplementsBarrier == Abstract!Spec
=============================================================================
