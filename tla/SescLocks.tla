----------------------------- MODULE SescLocks -----------------------------
(***************************************************************************)
(* The spin lock, the semaphore and the flag of libapp, which simulated    *)
(* applications synchronise with: the flag is built of a lock and a        *)
(* semaphore its waiters queue on; a second semaphore guards a pool of     *)
(* resources.  Every load, store and fetch-op of a shared word is a step.  *)
(* The suspending variants (NOSPIN_DOSUSPEND) are not compiled.            *)
(***************************************************************************)
EXTENDS Integers, FiniteSets

CONSTANTS
  Threads,
  Calls,      (* the operations the application calls                      *)
  PoolSize    (* initValue of the pool's semaphore                         *)

Op == {"wait", "set", "clear", "use"}
Semaphores == {"queue", "pool"}

(* What the constants have to satisfy.                                     *)
Parameters == IsFiniteSet(Threads) /\ Calls \subseteq Op /\ PoolSize \in Nat

VARIABLES
  spin,   (* lock->spin, TRUE when LOCKED                                  *)
  flag,   (* flag->flag                                                    *)
  count,  (* flag->count                                                   *)
  sema,   (* sema[s]: count of semaphore s                                 *)
  pc,     (* pc[t]: where thread t is                                      *)
  op,     (* op[t]: what it has called                                     *)
  reg     (* reg[t]: the value of count it has loaded and not yet used     *)

vars == <<spin, flag, count, sema, pc, op, reg>>

(* The types; no flag ever counts more than each thread waiting twice.     *)
TypeOK ==
  /\ spin \in BOOLEAN /\ flag \in BOOLEAN
  /\ count \in 0 .. 2 * Cardinality(Threads)
  /\ sema \in [Semaphores -> Int]
  /\ pc \in [Threads -> {"idle", "swap", "spin", "test", "assign", "loop", "load",
                         "store", "signal", "unlock", "leave", "down", "dec",
                         "using"}]
  /\ op \in [Threads -> Op]
  /\ reg \in [Threads -> 0 .. 2 * Cardinality(Threads)]

(* sesc_flag_init, sesc_lock_init, sesc_sema_init                          *)
Init ==
  /\ spin = FALSE /\ flag = FALSE /\ count = 0
  /\ sema = [s \in Semaphores |-> IF s = "pool" THEN PoolSize ELSE 0]
  /\ pc = [t \in Threads |-> "idle"]
  /\ op = [t \in Threads |-> "use"]
  /\ reg = [t \in Threads |-> 0]
-----------------------------------------------------------------------------
goTo(t, l) == pc' = [pc EXCEPT ![t] = l]

(* A thread calls sesc_flag_wait, set, clear or sesc_psema.                *)
calls(t, o) ==
  /\ pc[t] = "idle"
  /\ op' = [op EXCEPT ![t] = o]
  /\ goTo(t, IF o = "use" THEN "down" ELSE "swap")
  /\ UNCHANGED <<spin, flag, count, sema, reg>>

(* sesc_lock: swap until the lock was free, read it in between.            *)
inLock(o) == IF o = "wait" THEN "test" ELSE "assign"

swap(t) ==
  /\ pc[t] = "swap"
  /\ spin' = TRUE
  /\ goTo(t, IF spin THEN "spin" ELSE inLock(op[t]))
  /\ UNCHANGED <<flag, count, sema, op, reg>>

spins(t) ==
  /\ pc[t] = "spin" /\ ~spin
  /\ goTo(t, "swap")
  /\ UNCHANGED <<spin, flag, count, sema, op, reg>>

(* sesc_unlock; a registered waiter goes on to the semaphore.              *)
unlock(t) ==
  /\ pc[t] \in {"unlock", "leave"}
  /\ spin' = FALSE
  /\ goTo(t, IF pc[t] = "leave" THEN "down" ELSE "idle")
  /\ UNCHANGED <<flag, count, sema, op, reg>>

(* sesc_flag_wait, inside the lock: count++ if the flag is not set.        *)
testFlag(t) ==
  /\ pc[t] = "test"
  /\ goTo(t, IF flag THEN "unlock" ELSE "load")
  /\ UNCHANGED <<spin, flag, count, sema, op, reg>>

(* sesc_flag_set and sesc_flag_clear, inside the lock.                     *)
assignFlag(t) ==
  /\ pc[t] = "assign"
  /\ flag' = (op[t] = "set")
  /\ goTo(t, "loop")
  /\ UNCHANGED <<spin, count, sema, op, reg>>

testCount(t) ==
  /\ pc[t] = "loop"
  /\ goTo(t, IF count = 0 THEN "unlock" ELSE "load")
  /\ UNCHANGED <<spin, flag, count, sema, op, reg>>

loadCount(t) ==
  /\ pc[t] = "load"
  /\ reg' = [reg EXCEPT ![t] = count]
  /\ goTo(t, "store")
  /\ UNCHANGED <<spin, flag, count, sema, op>>

(* Mutant: the waiters are forgotten all at once.                          *)
mutForgetAll(t) ==
  /\ pc[t] = "store"
  /\ count' = IF op[t] = "wait" THEN reg[t] + 1 ELSE 0
  /\ reg' = [reg EXCEPT ![t] = 0]
  /\ goTo(t, IF op[t] = "wait" THEN "leave" ELSE "signal")
  /\ UNCHANGED <<spin, flag, sema, op>>

storeCount(t) ==
  /\ pc[t] = "store"
  /\ count' = IF op[t] = "wait" THEN reg[t] + 1 ELSE reg[t] - 1
  /\ reg' = [reg EXCEPT ![t] = 0]
  /\ goTo(t, IF op[t] = "wait" THEN "leave" ELSE "signal")
  /\ UNCHANGED <<spin, flag, sema, op>>

(* sesc_vsema of the flag's queue.                                         *)
signal(t) ==
  /\ pc[t] = "signal"
  /\ sema' = [sema EXCEPT !["queue"] = @ + 1]
  /\ goTo(t, "loop")
  /\ UNCHANGED <<spin, flag, count, op, reg>>

(* sesc_psema: wait until the count is positive, then decrement it.        *)
semaOf(o) == IF o = "use" THEN "pool" ELSE "queue"

down(t) ==
  /\ pc[t] = "down" /\ sema[semaOf(op[t])] > 0
  /\ goTo(t, "dec")
  /\ UNCHANGED <<spin, flag, count, sema, op, reg>>

dec(t) ==
  /\ pc[t] = "dec"
  /\ sema' = [sema EXCEPT ![semaOf(op[t])] = @ - 1]
  /\ goTo(t, IF op[t] = "use" THEN "using" ELSE "idle")
  /\ UNCHANGED <<spin, flag, count, op, reg>>

(* sesc_vsema of the pool by a thread that uses one of its resources.      *)
up(t) ==
  /\ pc[t] = "using"
  /\ sema' = [sema EXCEPT !["pool"] = @ + 1]
  /\ goTo(t, "idle")
  /\ UNCHANGED <<spin, flag, count, op, reg>>

Runs(t) ==
  \/ swap(t) \/ spins(t) \/ unlock(t) \/ testFlag(t) \/ assignFlag(t)
  \/ testCount(t) \/ loadCount(t) \/ storeCount(t) \/ signal(t)
  \/ down(t) \/ dec(t) \/ up(t)

Next == \E t \in Threads : Runs(t) \/ \E o \in Calls : calls(t, o)

Spec == Init /\ [][Next]_vars
-----------------------------------------------------------------------------
Holding == {"test", "assign", "loop", "load", "store", "signal", "unlock", "leave"}

(* One thread at a time is between sesc_lock and the store that releases   *)
(* the lock, and the word tells whether there is one.                      *)
MutualExclusion ==
  /\ \A s, t \in Threads : pc[s] \in Holding /\ pc[t] \in Holding => s = t
  /\ spin <=> \E t \in Threads : pc[t] \in Holding

registered(t) == op[t] = "wait" /\ pc[t] \in {"leave", "down", "dec"}

(* What is in the semaphore, what is still to be signalled and the signal  *)
(* on its way make up the registered waiters.                              *)
signalling == {t \in Threads : pc[t] = "signal"}
waiters == {t \in Threads : registered(t)}
QueueBalance ==
  sema["queue"] + count + Cardinality(signalling) = Cardinality(waiters)

(* No waiter is forgotten and none is signalled twice, although waiters    *)
(* race for one another's signals and the semaphore lets two of them take  *)
(* the last one; those that count the waiters exclude each other.          *)
SignalsBalance == MutualExclusion /\ QueueBalance

(* While a flag is set, its waiters get away.                              *)
WaitersReleased == \A t \in Threads : registered(t) ~> (~registered(t) \/ ~flag)
=============================================================================
