-------------------------- MODULE SescLocksProofs --------------------------
(***************************************************************************)
(* The lock, the flag and its queue, for any number of threads: no waiter  *)
(* is forgotten, and neither the count nor the semaphore leaves its range. *)
(***************************************************************************)
EXTENDS SescLocks, FiniteSetTheorems, TLAPS

Where == {"idle", "swap", "spin", "test", "assign", "loop", "load", "store",
          "signal", "unlock", "leave", "down", "dec", "using"}

Typed ==
  /\ spin \in BOOLEAN /\ flag \in BOOLEAN
  /\ count \in Nat
  /\ sema \in [Semaphores -> Int]
  /\ pc \in [Threads -> Where]
  /\ op \in [Threads -> Op]
  /\ reg \in [Threads -> Nat]

(* Each place in the code belongs to some of the operations.               *)
PlaceOf(t) ==
  /\ pc[t] \in {"test", "leave"} => op[t] = "wait"
  /\ pc[t] \in {"assign", "loop", "signal"} => op[t] \in {"set", "clear"}
  /\ pc[t] \in {"swap", "spin", "load", "store", "unlock"} => op[t] # "use"
  /\ pc[t] \in {"down", "dec"} => op[t] \in {"wait", "use"}

(* What a thread in the lock has loaded is what is there, and a thread     *)
(* about to take off the count has something to take.                      *)
InLock(t) ==
  /\ pc[t] = "store" => reg[t] = count
  /\ pc[t] # "store" => reg[t] = 0
  /\ pc[t] \in {"load", "store"} /\ op[t] # "wait" => count > 0

(* Threads that have found the queue's semaphore positive and have not yet *)
(* decremented it: all others may have passed it with them.                *)
passing == {t \in Threads : pc[t] = "dec" /\ op[t] = "wait"}
QueueDepth == sema["queue"] - Cardinality(passing) >= - Cardinality(Threads)

Local == \A t \in Threads : PlaceOf(t) /\ InLock(t)
IInv == Typed /\ Local /\ MutualExclusion /\ QueueBalance /\ QueueDepth
-----------------------------------------------------------------------------
(***************************************************************************)
(* Counting threads                                                        *)
(***************************************************************************)
LEMMA Counted ==
  ASSUME Parameters, NEW S \in SUBSET Threads
  PROVE  IsFiniteSet(S) /\ Cardinality(S) \in 0 .. Cardinality(Threads)
  <1>1. IsFiniteSet(S) /\ Cardinality(S) <= Cardinality(Threads)
    BY FS_Subset DEF Parameters
  <1>2. Cardinality(Threads) \in Nat
    BY FS_CardinalityType DEF Parameters
  <1> QED BY <1>1, <1>2, FS_CardinalityType

one(b) == IF b THEN 1 ELSE 0

(* Two sets of threads that differ at most by t.                           *)
LEMMA DifferByOne ==
  ASSUME Parameters, NEW S \in SUBSET Threads, NEW T \in SUBSET Threads,
         NEW t \in Threads, \A x \in Threads : x # t => (x \in S <=> x \in T)
  PROVE  Cardinality(T) = Cardinality(S) + one(t \in T) - one(t \in S)
  <1>1. IsFiniteSet(S) /\ IsFiniteSet(T) /\ Cardinality(S) \in Nat
    BY Counted, FS_CardinalityType
  <1>2. CASE t \in T /\ t \notin S
    <2>1. T = S \cup {t}
      BY <1>2
    <2> QED BY <1>1, <1>2, <2>1, FS_AddElement DEF one
  <1>3. CASE t \in S /\ t \notin T
    <2>1. T = S \ {t}
      BY <1>3
    <2> QED BY <1>1, <1>3, <2>1, FS_RemoveElement DEF one
  <1>4. CASE t \in S <=> t \in T
    <2>1. S = T
      BY <1>4
    <2> QED BY <1>1, <1>4, <2>1 DEF one
  <1> QED BY <1>2, <1>3, <1>4

(* A step of thread t moves only t in and out of the sets.                 *)
LEMMA StepCounts ==
  ASSUME Parameters, NEW t \in Threads,
         \A x \in Threads : x # t => pc'[x] = pc[x] /\ op'[x] = op[x]
  PROVE  /\ Cardinality(waiters)' = Cardinality(waiters)
                                      + one(registered(t)') - one(registered(t))
         /\ Cardinality(signalling)' = Cardinality(signalling)
                                      + one(pc'[t] = "signal") - one(pc[t] = "signal")
         /\ Cardinality(passing)' = Cardinality(passing)
              + one(pc'[t] = "dec" /\ op'[t] = "wait")
              - one(pc[t] = "dec" /\ op[t] = "wait")
         /\ {Cardinality(waiters), Cardinality(signalling), Cardinality(passing)}
              \subseteq 0 .. Cardinality(Threads)
  <1>1. /\ waiters \in SUBSET Threads /\ waiters' \in SUBSET Threads
        /\ signalling \in SUBSET Threads /\ signalling' \in SUBSET Threads
        /\ passing \in SUBSET Threads /\ passing' \in SUBSET Threads
    BY DEF waiters, signalling, passing
  <1>2. \A x \in Threads : x # t => (x \in waiters <=> x \in waiters')
    BY DEF waiters, registered
  <1>3. \A x \in Threads : x # t => (x \in signalling <=> x \in signalling')
    BY DEF signalling
  <1>4. \A x \in Threads : x # t => (x \in passing <=> x \in passing')
    BY DEF passing
  <1>5. Cardinality(waiters') = Cardinality(waiters)
                                  + one(t \in waiters') - one(t \in waiters)
    BY <1>1, <1>2, DifferByOne
  <1>6. Cardinality(signalling') = Cardinality(signalling)
                                  + one(t \in signalling') - one(t \in signalling)
    BY <1>1, <1>3, DifferByOne
  <1>7. Cardinality(passing') = Cardinality(passing)
                                  + one(t \in passing') - one(t \in passing)
    BY <1>1, <1>4, DifferByOne
  <1>8. /\ t \in waiters' <=> registered(t)'
        /\ t \in waiters <=> registered(t)
    BY DEF waiters
  <1>9. /\ t \in signalling' <=> pc'[t] = "signal"
        /\ t \in signalling <=> pc[t] = "signal"
    BY DEF signalling
  <1>10. /\ t \in passing' <=> (pc'[t] = "dec" /\ op'[t] = "wait")
         /\ t \in passing <=> (pc[t] = "dec" /\ op[t] = "wait")
    BY DEF passing
  <1>11. /\ Cardinality(waiters) \in 0 .. Cardinality(Threads)
         /\ Cardinality(signalling) \in 0 .. Cardinality(Threads)
         /\ Cardinality(passing) \in 0 .. Cardinality(Threads)
    BY <1>1, Counted
  <1>12. Cardinality(waiters)' = Cardinality(waiters)
                                      + one(registered(t)') - one(registered(t))
    BY <1>5, <1>8 DEF one
  <1>13. Cardinality(signalling)' = Cardinality(signalling)
                              + one(pc'[t] = "signal") - one(pc[t] = "signal")
    BY <1>6, <1>9 DEF one
  <1>14. Cardinality(passing)' = Cardinality(passing)
              + one(pc'[t] = "dec" /\ op'[t] = "wait")
              - one(pc[t] = "dec" /\ op[t] = "wait")
    BY <1>7, <1>10 DEF one
  <1> QED BY <1>11, <1>12, <1>13, <1>14
-----------------------------------------------------------------------------
(***************************************************************************)
(* The inductive invariant                                                 *)
(***************************************************************************)
LEMMA InitIInv == Parameters /\ Init => IInv
  <1> SUFFICES ASSUME Parameters, Init PROVE IInv
    OBVIOUS
  <1>1. Typed /\ Local /\ MutualExclusion
    <2>1. sema \in [Semaphores -> Int]
      BY DEF Parameters, Init
    <2>2. Typed
      BY <2>1 DEF Init, Typed, Where, Op
    <2>3. Local
      BY DEF Init, Local, PlaceOf, InLock
    <2>4. MutualExclusion
      BY DEF Init, MutualExclusion, Holding
    <2> QED BY <2>2, <2>3, <2>4
  <1>2. waiters = {} /\ signalling = {} /\ passing = {}
    BY DEF Init, waiters, registered, signalling, passing
  <1>3. sema["queue"] = 0 /\ count = 0
    BY DEF Init, Semaphores
  <1>4. Cardinality(Threads) \in Nat
    BY FS_CardinalityType DEF Parameters
  <1>5. QueueBalance
    BY <1>2, <1>3, FS_EmptySet DEF QueueBalance
  <1>6. QueueDepth
    BY <1>2, <1>3, <1>4, FS_EmptySet DEF QueueDepth
  <1> QED BY <1>1, <1>5, <1>6 DEF IInv

(* What a step of thread t from place l and operation o to place m and     *)
(* operation n does to the balance and to the depth of the queue.          *)
wait(l, o) == one(o = "wait" /\ l \in {"leave", "down", "dec"})

LEMMA BalanceKept ==
  ASSUME Parameters, IInv, NEW t \in Threads,
         \A x \in Threads : x # t => pc'[x] = pc[x] /\ op'[x] = op[x],
         sema'["queue"] \in Int, count' \in Int,
         sema'["queue"] + count' + one(pc'[t] = "signal") - wait(pc'[t], op'[t])
           = sema["queue"] + count + one(pc[t] = "signal") - wait(pc[t], op[t])
  PROVE  QueueBalance'
  <1>1. sema["queue"] \in Int /\ count \in Int
    BY DEF IInv, Typed, Semaphores
  <1>2. QueueBalance
    BY DEF IInv
  <1>3. /\ Cardinality(waiters)' = Cardinality(waiters)
                                      + one(registered(t)') - one(registered(t))
        /\ Cardinality(signalling)' = Cardinality(signalling)
                                      + one(pc'[t] = "signal") - one(pc[t] = "signal")
    BY StepCounts
  <1>4. Cardinality(waiters) \in Int /\ Cardinality(signalling) \in Int
    <2>1. Cardinality(Threads) \in Nat
      BY FS_CardinalityType DEF Parameters
    <2>2. {Cardinality(waiters), Cardinality(signalling)} \subseteq 0 .. Cardinality(Threads)
      BY StepCounts
    <2> QED BY <2>1, <2>2
  <1>5. /\ one(registered(t)') = wait(pc'[t], op'[t])
        /\ one(registered(t)) = wait(pc[t], op[t])
    BY DEF registered, wait
  <1>6. /\ wait(pc'[t], op'[t]) \in Int /\ wait(pc[t], op[t]) \in Int
        /\ one(pc'[t] = "signal") \in Int /\ one(pc[t] = "signal") \in Int
    BY DEF wait, one
  <1> QED BY <1>1, <1>2, <1>3, <1>4, <1>5, <1>6 DEF QueueBalance

pass(l, o) == one(l = "dec" /\ o = "wait")

LEMMA DepthKept ==
  ASSUME Parameters, IInv, NEW t \in Threads,
         \A x \in Threads : x # t => pc'[x] = pc[x] /\ op'[x] = op[x],
         sema'["queue"] \in Int,
         \/ sema'["queue"] - pass(pc'[t], op'[t])
              >= sema["queue"] - pass(pc[t], op[t])
         \/ sema'["queue"] > 0
  PROVE  QueueDepth'
  <1>1. sema["queue"] \in Int
    BY DEF IInv, Typed, Semaphores
  <1>2. QueueDepth
    BY DEF IInv
  <1>3. Cardinality(passing)' = Cardinality(passing)
                                  + pass(pc'[t], op'[t]) - pass(pc[t], op[t])
    BY StepCounts DEF pass
  <1>4. Cardinality(Threads) \in Nat
    BY FS_CardinalityType DEF Parameters
  <1>5. Cardinality(passing) \in 0 .. Cardinality(Threads)
    BY StepCounts
  <1>6. Cardinality(passing)' \in 0 .. Cardinality(Threads)
    <2>1. passing' \in SUBSET Threads
      BY DEF passing
    <2> QED BY <2>1, Counted
  <1>7. pass(pc'[t], op'[t]) \in Int /\ pass(pc[t], op[t]) \in Int
    BY DEF pass, one
  <1> QED BY <1>1, <1>2, <1>3, <1>4, <1>5, <1>6, <1>7 DEF QueueDepth

LEMMA CallsStep ==
  ASSUME Parameters, IInv, NEW t \in Threads, NEW o \in Op, calls(t, o)
  PROVE  IInv'
  <1>1. Typed /\ Local /\ MutualExclusion
    BY DEF IInv
  <1>2. Typed'
    BY <1>1 DEF calls, goTo, Typed, Where, Op, Semaphores, Local, PlaceOf, InLock
  <1>3. \A x \in Threads : x # t => pc'[x] = pc[x] /\ op'[x] = op[x] /\ reg'[x] = reg[x]
    BY <1>1 DEF calls, goTo, Typed
  <1>4. Local'
    BY <1>1, <1>2, <1>3 DEF calls, goTo, Typed, Where, Op, Local, PlaceOf, InLock,
       MutualExclusion, Holding
  <1>5. MutualExclusion'
    BY <1>1, <1>3 DEF calls, goTo, Typed, Local, PlaceOf, MutualExclusion, Holding
  <1>6. QueueBalance'
    <2>1. sema'["queue"] + count' + one(pc'[t] = "signal") - wait(pc'[t], op'[t])
            = sema["queue"] + count + one(pc[t] = "signal") - wait(pc[t], op[t])
      BY <1>1 DEF calls, goTo, Typed, Semaphores, Local, PlaceOf, InLock, wait, one
    <2> QED BY <1>2, <1>3, <2>1, BalanceKept DEF Typed, Semaphores
  <1>7. QueueDepth'
    <2>1. \/ sema'["queue"] - pass(pc'[t], op'[t])
              >= sema["queue"] - pass(pc[t], op[t])
          \/ sema'["queue"] > 0
      BY <1>1 DEF calls, goTo, Typed, Semaphores, Local, PlaceOf, pass, one
    <2> QED BY <1>2, <1>3, <2>1, DepthKept DEF Typed, Semaphores
  <1> QED BY <1>2, <1>4, <1>5, <1>6, <1>7 DEF IInv

LEMMA SwapStep ==
  ASSUME Parameters, IInv, NEW t \in Threads, swap(t)
  PROVE  IInv'
  <1>1. Typed /\ Local /\ MutualExclusion
    BY DEF IInv
  <1>2. Typed'
    BY <1>1 DEF swap, goTo, inLock, Typed, Where, Op, Semaphores, Local, PlaceOf, InLock
  <1>3. \A x \in Threads : x # t => pc'[x] = pc[x] /\ op'[x] = op[x] /\ reg'[x] = reg[x]
    BY <1>1 DEF swap, goTo, inLock, Typed
  <1>4. Local'
    BY <1>1, <1>2, <1>3 DEF swap, goTo, inLock, Typed, Where, Op, Local, PlaceOf, InLock,
       MutualExclusion, Holding
  <1>5. MutualExclusion'
    BY <1>1, <1>3 DEF swap, goTo, inLock, Typed, Local, PlaceOf, MutualExclusion, Holding
  <1>6. QueueBalance'
    <2>1. sema'["queue"] + count' + one(pc'[t] = "signal") - wait(pc'[t], op'[t])
            = sema["queue"] + count + one(pc[t] = "signal") - wait(pc[t], op[t])
      BY <1>1 DEF swap, goTo, inLock, Typed, Semaphores, Local, PlaceOf, InLock, wait, one
    <2> QED BY <1>2, <1>3, <2>1, BalanceKept DEF Typed, Semaphores
  <1>7. QueueDepth'
    <2>1. \/ sema'["queue"] - pass(pc'[t], op'[t])
              >= sema["queue"] - pass(pc[t], op[t])
          \/ sema'["queue"] > 0
      BY <1>1 DEF swap, goTo, inLock, Typed, Semaphores, Local, PlaceOf, pass, one
    <2> QED BY <1>2, <1>3, <2>1, DepthKept DEF Typed, Semaphores
  <1> QED BY <1>2, <1>4, <1>5, <1>6, <1>7 DEF IInv

LEMMA SpinsStep ==
  ASSUME Parameters, IInv, NEW t \in Threads, spins(t)
  PROVE  IInv'
  <1>1. Typed /\ Local /\ MutualExclusion
    BY DEF IInv
  <1>2. Typed'
    BY <1>1 DEF spins, goTo, Typed, Where, Op, Semaphores, Local, PlaceOf, InLock
  <1>3. \A x \in Threads : x # t => pc'[x] = pc[x] /\ op'[x] = op[x] /\ reg'[x] = reg[x]
    BY <1>1 DEF spins, goTo, Typed
  <1>4. Local'
    BY <1>1, <1>2, <1>3 DEF spins, goTo, Typed, Where, Op, Local, PlaceOf, InLock,
       MutualExclusion, Holding
  <1>5. MutualExclusion'
    BY <1>1, <1>3 DEF spins, goTo, Typed, Local, PlaceOf, MutualExclusion, Holding
  <1>6. QueueBalance'
    <2>1. sema'["queue"] + count' + one(pc'[t] = "signal") - wait(pc'[t], op'[t])
            = sema["queue"] + count + one(pc[t] = "signal") - wait(pc[t], op[t])
      BY <1>1 DEF spins, goTo, Typed, Semaphores, Local, PlaceOf, InLock, wait, one
    <2> QED BY <1>2, <1>3, <2>1, BalanceKept DEF Typed, Semaphores
  <1>7. QueueDepth'
    <2>1. \/ sema'["queue"] - pass(pc'[t], op'[t])
              >= sema["queue"] - pass(pc[t], op[t])
          \/ sema'["queue"] > 0
      BY <1>1 DEF spins, goTo, Typed, Semaphores, Local, PlaceOf, pass, one
    <2> QED BY <1>2, <1>3, <2>1, DepthKept DEF Typed, Semaphores
  <1> QED BY <1>2, <1>4, <1>5, <1>6, <1>7 DEF IInv

LEMMA UnlockStep ==
  ASSUME Parameters, IInv, NEW t \in Threads, unlock(t)
  PROVE  IInv'
  <1>1. Typed /\ Local /\ MutualExclusion
    BY DEF IInv
  <1>2. Typed'
    BY <1>1 DEF unlock, goTo, Typed, Where, Op, Semaphores, Local, PlaceOf, InLock
  <1>3. \A x \in Threads : x # t => pc'[x] = pc[x] /\ op'[x] = op[x] /\ reg'[x] = reg[x]
    BY <1>1 DEF unlock, goTo, Typed
  <1>4. Local'
    BY <1>1, <1>2, <1>3 DEF unlock, goTo, Typed, Where, Op, Local, PlaceOf, InLock,
       MutualExclusion, Holding
  <1>5. MutualExclusion'
    BY <1>1, <1>3 DEF unlock, goTo, Typed, Local, PlaceOf, MutualExclusion, Holding
  <1>6. QueueBalance'
    <2>1. sema'["queue"] + count' + one(pc'[t] = "signal") - wait(pc'[t], op'[t])
            = sema["queue"] + count + one(pc[t] = "signal") - wait(pc[t], op[t])
      BY <1>1 DEF unlock, goTo, Typed, Semaphores, Local, PlaceOf, InLock, wait, one
    <2> QED BY <1>2, <1>3, <2>1, BalanceKept DEF Typed, Semaphores
  <1>7. QueueDepth'
    <2>1. \/ sema'["queue"] - pass(pc'[t], op'[t])
              >= sema["queue"] - pass(pc[t], op[t])
          \/ sema'["queue"] > 0
      BY <1>1 DEF unlock, goTo, Typed, Semaphores, Local, PlaceOf, pass, one
    <2> QED BY <1>2, <1>3, <2>1, DepthKept DEF Typed, Semaphores
  <1> QED BY <1>2, <1>4, <1>5, <1>6, <1>7 DEF IInv

LEMMA TestFlagStep ==
  ASSUME Parameters, IInv, NEW t \in Threads, testFlag(t)
  PROVE  IInv'
  <1>1. Typed /\ Local /\ MutualExclusion
    BY DEF IInv
  <1>2. Typed'
    BY <1>1 DEF testFlag, goTo, Typed, Where, Op, Semaphores, Local, PlaceOf, InLock
  <1>3. \A x \in Threads : x # t => pc'[x] = pc[x] /\ op'[x] = op[x] /\ reg'[x] = reg[x]
    BY <1>1 DEF testFlag, goTo, Typed
  <1>4. Local'
    BY <1>1, <1>2, <1>3 DEF testFlag, goTo, Typed, Where, Op, Local, PlaceOf, InLock,
       MutualExclusion, Holding
  <1>5. MutualExclusion'
    BY <1>1, <1>3 DEF testFlag, goTo, Typed, Local, PlaceOf, MutualExclusion, Holding
  <1>6. QueueBalance'
    <2>1. sema'["queue"] + count' + one(pc'[t] = "signal") - wait(pc'[t], op'[t])
            = sema["queue"] + count + one(pc[t] = "signal") - wait(pc[t], op[t])
      BY <1>1 DEF testFlag, goTo, Typed, Semaphores, Local, PlaceOf, InLock, wait, one
    <2> QED BY <1>2, <1>3, <2>1, BalanceKept DEF Typed, Semaphores
  <1>7. QueueDepth'
    <2>1. \/ sema'["queue"] - pass(pc'[t], op'[t])
              >= sema["queue"] - pass(pc[t], op[t])
          \/ sema'["queue"] > 0
      BY <1>1 DEF testFlag, goTo, Typed, Semaphores, Local, PlaceOf, pass, one
    <2> QED BY <1>2, <1>3, <2>1, DepthKept DEF Typed, Semaphores
  <1> QED BY <1>2, <1>4, <1>5, <1>6, <1>7 DEF IInv

LEMMA AssignFlagStep ==
  ASSUME Parameters, IInv, NEW t \in Threads, assignFlag(t)
  PROVE  IInv'
  <1>1. Typed /\ Local /\ MutualExclusion
    BY DEF IInv
  <1>2. Typed'
    BY <1>1 DEF assignFlag, goTo, Typed, Where, Op, Semaphores, Local, PlaceOf, InLock
  <1>3. \A x \in Threads : x # t => pc'[x] = pc[x] /\ op'[x] = op[x] /\ reg'[x] = reg[x]
    BY <1>1 DEF assignFlag, goTo, Typed
  <1>4. Local'
    BY <1>1, <1>2, <1>3 DEF assignFlag, goTo, Typed, Where, Op, Local, PlaceOf, InLock,
       MutualExclusion, Holding
  <1>5. MutualExclusion'
    BY <1>1, <1>3 DEF assignFlag, goTo, Typed, Local, PlaceOf, MutualExclusion, Holding
  <1>6. QueueBalance'
    <2>1. sema'["queue"] + count' + one(pc'[t] = "signal") - wait(pc'[t], op'[t])
            = sema["queue"] + count + one(pc[t] = "signal") - wait(pc[t], op[t])
      BY <1>1 DEF assignFlag, goTo, Typed, Semaphores, Local, PlaceOf, InLock, wait, one
    <2> QED BY <1>2, <1>3, <2>1, BalanceKept DEF Typed, Semaphores
  <1>7. QueueDepth'
    <2>1. \/ sema'["queue"] - pass(pc'[t], op'[t])
              >= sema["queue"] - pass(pc[t], op[t])
          \/ sema'["queue"] > 0
      BY <1>1 DEF assignFlag, goTo, Typed, Semaphores, Local, PlaceOf, pass, one
    <2> QED BY <1>2, <1>3, <2>1, DepthKept DEF Typed, Semaphores
  <1> QED BY <1>2, <1>4, <1>5, <1>6, <1>7 DEF IInv

LEMMA TestCountStep ==
  ASSUME Parameters, IInv, NEW t \in Threads, testCount(t)
  PROVE  IInv'
  <1>1. Typed /\ Local /\ MutualExclusion
    BY DEF IInv
  <1>2. Typed'
    BY <1>1 DEF testCount, goTo, Typed, Where, Op, Semaphores, Local, PlaceOf, InLock
  <1>3. \A x \in Threads : x # t => pc'[x] = pc[x] /\ op'[x] = op[x] /\ reg'[x] = reg[x]
    BY <1>1 DEF testCount, goTo, Typed
  <1>4. Local'
    BY <1>1, <1>2, <1>3 DEF testCount, goTo, Typed, Where, Op, Local, PlaceOf, InLock,
       MutualExclusion, Holding
  <1>5. MutualExclusion'
    BY <1>1, <1>3 DEF testCount, goTo, Typed, Local, PlaceOf, MutualExclusion, Holding
  <1>6. QueueBalance'
    <2>1. sema'["queue"] + count' + one(pc'[t] = "signal") - wait(pc'[t], op'[t])
            = sema["queue"] + count + one(pc[t] = "signal") - wait(pc[t], op[t])
      BY <1>1 DEF testCount, goTo, Typed, Semaphores, Local, PlaceOf, InLock, wait, one
    <2> QED BY <1>2, <1>3, <2>1, BalanceKept DEF Typed, Semaphores
  <1>7. QueueDepth'
    <2>1. \/ sema'["queue"] - pass(pc'[t], op'[t])
              >= sema["queue"] - pass(pc[t], op[t])
          \/ sema'["queue"] > 0
      BY <1>1 DEF testCount, goTo, Typed, Semaphores, Local, PlaceOf, pass, one
    <2> QED BY <1>2, <1>3, <2>1, DepthKept DEF Typed, Semaphores
  <1> QED BY <1>2, <1>4, <1>5, <1>6, <1>7 DEF IInv

LEMMA LoadCountStep ==
  ASSUME Parameters, IInv, NEW t \in Threads, loadCount(t)
  PROVE  IInv'
  <1>1. Typed /\ Local /\ MutualExclusion
    BY DEF IInv
  <1>2. Typed'
    BY <1>1 DEF loadCount, goTo, Typed, Where, Op, Semaphores, Local, PlaceOf, InLock
  <1>3. \A x \in Threads : x # t => pc'[x] = pc[x] /\ op'[x] = op[x] /\ reg'[x] = reg[x]
    BY <1>1 DEF loadCount, goTo, Typed
  <1>4. Local'
    BY <1>1, <1>2, <1>3 DEF loadCount, goTo, Typed, Where, Op, Local, PlaceOf, InLock,
       MutualExclusion, Holding
  <1>5. MutualExclusion'
    BY <1>1, <1>3 DEF loadCount, goTo, Typed, Local, PlaceOf, MutualExclusion, Holding
  <1>6. QueueBalance'
    <2>1. sema'["queue"] + count' + one(pc'[t] = "signal") - wait(pc'[t], op'[t])
            = sema["queue"] + count + one(pc[t] = "signal") - wait(pc[t], op[t])
      BY <1>1 DEF loadCount, goTo, Typed, Semaphores, Local, PlaceOf, InLock, wait, one
    <2> QED BY <1>2, <1>3, <2>1, BalanceKept DEF Typed, Semaphores
  <1>7. QueueDepth'
    <2>1. \/ sema'["queue"] - pass(pc'[t], op'[t])
              >= sema["queue"] - pass(pc[t], op[t])
          \/ sema'["queue"] > 0
      BY <1>1 DEF loadCount, goTo, Typed, Semaphores, Local, PlaceOf, pass, one
    <2> QED BY <1>2, <1>3, <2>1, DepthKept DEF Typed, Semaphores
  <1> QED BY <1>2, <1>4, <1>5, <1>6, <1>7 DEF IInv

LEMMA StoreCountStep ==
  ASSUME Parameters, IInv, NEW t \in Threads, storeCount(t)
  PROVE  IInv'
  <1>1. Typed /\ Local /\ MutualExclusion
    BY DEF IInv
  <1>2. Typed'
    BY <1>1 DEF storeCount, goTo, Typed, Where, Op, Semaphores, Local, PlaceOf, InLock
  <1>3. \A x \in Threads : x # t => pc'[x] = pc[x] /\ op'[x] = op[x] /\ reg'[x] = reg[x]
    BY <1>1 DEF storeCount, goTo, Typed
  <1>4. Local'
    BY <1>1, <1>2, <1>3 DEF storeCount, goTo, Typed, Where, Op, Local, PlaceOf, InLock,
       MutualExclusion, Holding
  <1>5. MutualExclusion'
    BY <1>1, <1>3 DEF storeCount, goTo, Typed, Local, PlaceOf, MutualExclusion, Holding
  <1>6. QueueBalance'
    <2>1. sema'["queue"] + count' + one(pc'[t] = "signal") - wait(pc'[t], op'[t])
            = sema["queue"] + count + one(pc[t] = "signal") - wait(pc[t], op[t])
      BY <1>1 DEF storeCount, goTo, Typed, Semaphores, Local, PlaceOf, InLock, wait, one
    <2> QED BY <1>2, <1>3, <2>1, BalanceKept DEF Typed, Semaphores
  <1>7. QueueDepth'
    <2>1. \/ sema'["queue"] - pass(pc'[t], op'[t])
              >= sema["queue"] - pass(pc[t], op[t])
          \/ sema'["queue"] > 0
      BY <1>1 DEF storeCount, goTo, Typed, Semaphores, Local, PlaceOf, pass, one
    <2> QED BY <1>2, <1>3, <2>1, DepthKept DEF Typed, Semaphores
  <1> QED BY <1>2, <1>4, <1>5, <1>6, <1>7 DEF IInv

LEMMA SignalStep ==
  ASSUME Parameters, IInv, NEW t \in Threads, signal(t)
  PROVE  IInv'
  <1>1. Typed /\ Local /\ MutualExclusion
    BY DEF IInv
  <1>2. Typed'
    BY <1>1 DEF signal, goTo, Typed, Where, Op, Semaphores, Local, PlaceOf, InLock
  <1>3. \A x \in Threads : x # t => pc'[x] = pc[x] /\ op'[x] = op[x] /\ reg'[x] = reg[x]
    BY <1>1 DEF signal, goTo, Typed
  <1>4. Local'
    BY <1>1, <1>2, <1>3 DEF signal, goTo, Typed, Where, Op, Local, PlaceOf, InLock,
       MutualExclusion, Holding
  <1>5. MutualExclusion'
    BY <1>1, <1>3 DEF signal, goTo, Typed, Local, PlaceOf, MutualExclusion, Holding
  <1>6. QueueBalance'
    <2>1. sema'["queue"] + count' + one(pc'[t] = "signal") - wait(pc'[t], op'[t])
            = sema["queue"] + count + one(pc[t] = "signal") - wait(pc[t], op[t])
      BY <1>1 DEF signal, goTo, Typed, Semaphores, Local, PlaceOf, InLock, wait, one
    <2> QED BY <1>2, <1>3, <2>1, BalanceKept DEF Typed, Semaphores
  <1>7. QueueDepth'
    <2>1. \/ sema'["queue"] - pass(pc'[t], op'[t])
              >= sema["queue"] - pass(pc[t], op[t])
          \/ sema'["queue"] > 0
      BY <1>1 DEF signal, goTo, Typed, Semaphores, Local, PlaceOf, pass, one
    <2> QED BY <1>2, <1>3, <2>1, DepthKept DEF Typed, Semaphores
  <1> QED BY <1>2, <1>4, <1>5, <1>6, <1>7 DEF IInv

LEMMA DownStep ==
  ASSUME Parameters, IInv, NEW t \in Threads, down(t)
  PROVE  IInv'
  <1>1. Typed /\ Local /\ MutualExclusion
    BY DEF IInv
  <1>2. Typed'
    BY <1>1 DEF down, goTo, semaOf, Typed, Where, Op, Semaphores, Local, PlaceOf, InLock
  <1>3. \A x \in Threads : x # t => pc'[x] = pc[x] /\ op'[x] = op[x] /\ reg'[x] = reg[x]
    BY <1>1 DEF down, goTo, semaOf, Typed
  <1>4. Local'
    BY <1>1, <1>2, <1>3 DEF down, goTo, semaOf, Typed, Where, Op, Local, PlaceOf, InLock,
       MutualExclusion, Holding
  <1>5. MutualExclusion'
    BY <1>1, <1>3 DEF down, goTo, semaOf, Typed, Local, PlaceOf, MutualExclusion, Holding
  <1>6. QueueBalance'
    <2>1. sema'["queue"] + count' + one(pc'[t] = "signal") - wait(pc'[t], op'[t])
            = sema["queue"] + count + one(pc[t] = "signal") - wait(pc[t], op[t])
      BY <1>1 DEF down, goTo, semaOf, Typed, Semaphores, Local, PlaceOf, InLock, wait, one
    <2> QED BY <1>2, <1>3, <2>1, BalanceKept DEF Typed, Semaphores
  <1>7. QueueDepth'
    <2>1. \/ sema'["queue"] - pass(pc'[t], op'[t])
              >= sema["queue"] - pass(pc[t], op[t])
          \/ sema'["queue"] > 0
      BY <1>1 DEF down, goTo, semaOf, Typed, Semaphores, Local, PlaceOf, pass, one
    <2> QED BY <1>2, <1>3, <2>1, DepthKept DEF Typed, Semaphores
  <1> QED BY <1>2, <1>4, <1>5, <1>6, <1>7 DEF IInv

LEMMA DecStep ==
  ASSUME Parameters, IInv, NEW t \in Threads, dec(t)
  PROVE  IInv'
  <1>1. Typed /\ Local /\ MutualExclusion
    BY DEF IInv
  <1>2. Typed'
    BY <1>1 DEF dec, goTo, semaOf, Typed, Where, Op, Semaphores, Local, PlaceOf, InLock
  <1>3. \A x \in Threads : x # t => pc'[x] = pc[x] /\ op'[x] = op[x] /\ reg'[x] = reg[x]
    BY <1>1 DEF dec, goTo, semaOf, Typed
  <1>4. Local'
    BY <1>1, <1>2, <1>3 DEF dec, goTo, semaOf, Typed, Where, Op, Local, PlaceOf, InLock,
       MutualExclusion, Holding
  <1>5. MutualExclusion'
    BY <1>1, <1>3 DEF dec, goTo, semaOf, Typed, Local, PlaceOf, MutualExclusion, Holding
  <1>6. QueueBalance'
    <2>1. sema'["queue"] + count' + one(pc'[t] = "signal") - wait(pc'[t], op'[t])
            = sema["queue"] + count + one(pc[t] = "signal") - wait(pc[t], op[t])
      BY <1>1 DEF dec, goTo, semaOf, Typed, Semaphores, Local, PlaceOf, InLock, wait, one
    <2> QED BY <1>2, <1>3, <2>1, BalanceKept DEF Typed, Semaphores
  <1>7. QueueDepth'
    <2>1. \/ sema'["queue"] - pass(pc'[t], op'[t])
              >= sema["queue"] - pass(pc[t], op[t])
          \/ sema'["queue"] > 0
      BY <1>1 DEF dec, goTo, semaOf, Typed, Semaphores, Local, PlaceOf, pass, one
    <2> QED BY <1>2, <1>3, <2>1, DepthKept DEF Typed, Semaphores
  <1> QED BY <1>2, <1>4, <1>5, <1>6, <1>7 DEF IInv

LEMMA UpStep ==
  ASSUME Parameters, IInv, NEW t \in Threads, up(t)
  PROVE  IInv'
  <1>1. Typed /\ Local /\ MutualExclusion
    BY DEF IInv
  <1>2. Typed'
    BY <1>1 DEF up, goTo, Typed, Where, Op, Semaphores, Local, PlaceOf, InLock
  <1>3. \A x \in Threads : x # t => pc'[x] = pc[x] /\ op'[x] = op[x] /\ reg'[x] = reg[x]
    BY <1>1 DEF up, goTo, Typed
  <1>4. Local'
    BY <1>1, <1>2, <1>3 DEF up, goTo, Typed, Where, Op, Local, PlaceOf, InLock,
       MutualExclusion, Holding
  <1>5. MutualExclusion'
    BY <1>1, <1>3 DEF up, goTo, Typed, Local, PlaceOf, MutualExclusion, Holding
  <1>6. QueueBalance'
    <2>1. sema'["queue"] + count' + one(pc'[t] = "signal") - wait(pc'[t], op'[t])
            = sema["queue"] + count + one(pc[t] = "signal") - wait(pc[t], op[t])
      BY <1>1 DEF up, goTo, Typed, Semaphores, Local, PlaceOf, InLock, wait, one
    <2> QED BY <1>2, <1>3, <2>1, BalanceKept DEF Typed, Semaphores
  <1>7. QueueDepth'
    <2>1. \/ sema'["queue"] - pass(pc'[t], op'[t])
              >= sema["queue"] - pass(pc[t], op[t])
          \/ sema'["queue"] > 0
      BY <1>1 DEF up, goTo, Typed, Semaphores, Local, PlaceOf, pass, one
    <2> QED BY <1>2, <1>3, <2>1, DepthKept DEF Typed, Semaphores
  <1> QED BY <1>2, <1>4, <1>5, <1>6, <1>7 DEF IInv

LEMMA NextStep == ASSUME Parameters, IInv, [Next]_vars PROVE IInv'
  <1>1. CASE UNCHANGED vars
    <2>1. /\ spin' = spin /\ flag' = flag /\ count' = count /\ sema' = sema
          /\ pc' = pc /\ op' = op /\ reg' = reg
      BY <1>1 DEF vars
    <2> QED BY <2>1 DEF IInv, Typed, Local, PlaceOf, InLock, MutualExclusion,
            QueueBalance, QueueDepth, waiters, registered, signalling, passing
  <1>2. ASSUME NEW t \in Threads, NEW o \in Calls, calls(t, o) PROVE IInv'
    <2>1. o \in Op
      BY DEF Parameters
    <2> QED BY <1>2, <2>1, CallsStep
  <1>3. ASSUME NEW t \in Threads, Runs(t) PROVE IInv'
    BY <1>3, SwapStep, SpinsStep, UnlockStep, TestFlagStep, AssignFlagStep,
       TestCountStep, LoadCountStep, StoreCountStep, SignalStep, DownStep, DecStep,
       UpStep DEF Runs
  <1> QED BY <1>1, <1>2, <1>3 DEF Next

LEMMA Invariance == ASSUME Parameters PROVE Spec => []IInv
  <1>1. Init => IInv
    BY InitIInv
  <1>2. IInv /\ [Next]_vars => IInv'
    BY NextStep
  <1> QED BY <1>1, <1>2, PTL DEF Spec

(* The count of a flag never exceeds two for each thread and the lock's    *)
(* readers never see a negative one: threads that took a signal meant for  *)
(* others (the semaphore then is negative) are still counted when they     *)
(* wait again, but no thread can pass twice on a signal that is not there. *)
THEOREM TypeCorrect == ASSUME Parameters PROVE Spec => []TypeOK
  <1>1. IInv => TypeOK
    <2> SUFFICES ASSUME IInv PROVE TypeOK
      OBVIOUS
    <2>1. /\ Cardinality(waiters) \in 0 .. Cardinality(Threads)
          /\ Cardinality(signalling) \in 0 .. Cardinality(Threads)
          /\ Cardinality(passing) \in 0 .. Cardinality(Threads)
      <3>1. waiters \in SUBSET Threads /\ signalling \in SUBSET Threads
            /\ passing \in SUBSET Threads
        BY DEF waiters, signalling, passing
      <3> QED BY <3>1, Counted
    <2>2. Cardinality(Threads) \in Nat
      BY FS_CardinalityType DEF Parameters
    <2>3. sema["queue"] \in Int /\ count \in Nat
      BY DEF IInv, Typed, Semaphores
    <2>4. QueueBalance /\ QueueDepth
      BY DEF IInv
    <2>5. count \in 0 .. 2 * Cardinality(Threads)
      BY <2>1, <2>2, <2>3, <2>4 DEF QueueBalance, QueueDepth
    <2>6. \A t \in Threads : reg[t] \in 0 .. 2 * Cardinality(Threads)
      BY <2>2, <2>5 DEF IInv, Local, InLock
    <2> QED BY <2>5, <2>6 DEF IInv, Typed, TypeOK, Where
  <1> QED BY <1>1, Invariance, PTL

(* Whatever the number of threads and the size of the pool, those that     *)
(* change the count of a flag exclude each other, and the signals sent,    *)
(* being sent and still to be sent are as many as the waiters.             *)
THEOREM NoWaiterForgotten == ASSUME Parameters PROVE Spec => []SignalsBalance
  <1>1. IInv => SignalsBalance
    BY DEF IInv, SignalsBalance
  <1> QED BY <1>1, Invariance, PTL
=============================================================================
