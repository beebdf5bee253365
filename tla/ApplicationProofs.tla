------------------------- MODULE ApplicationProofs -------------------------
(***************************************************************************)
(* What applications synchronise with: sesc_barrier implements the abstract*)
(* barrier, for any number of threads and barriers; and the application    *)
(* that TLC runs has the properties proved of its parts, the barrier here, *)
(* the locks in SescLocksProofs, the native threads in SescThreadProofs.   *)
(***************************************************************************)
EXTENDS MCApplication, FiniteSetTheorems, TLAPS

(* The threads that have arrived at the barrier now open and wait in it.   *)
Waiting == {t \in Threads : pc[t] = "spin" /\ lsense[t] # gsense}
Last    == {t \in Threads : pc[t] \in {"reset", "flip"}}

(* Thread t against k, the number of barriers that have opened.            *)
InStep(t, k) ==
  /\ pc[t] = "outside" => entered[t] = k /\ left[t] = k
  /\ pc[t] \in {"arrive", "reset", "flip"} => lsense[t] # gsense
  /\ (pc[t] \in {"arrive", "reset", "flip"} \/ t \in Waiting) =>
       entered[t] = k + 1 /\ left[t] = k
  /\ (pc[t] = "spin" /\ t \notin Waiting) => entered[t] = k /\ left[t] + 1 = k

(* The last thread to arrive is alone, all others wait for it, until it    *)
(* flips the sense; the count is that of the arrivals until it is reset.   *)
Counted ==
  /\ \A t \in Threads : pc[t] = "flip" => count = 0
  /\ (\A t \in Threads : pc[t] # "flip") => count = Cardinality(Waiting \cup Last)
  /\ \A t \in Last : \A s \in Threads \ {t} : s \in Waiting

IInv == TypeOK /\ Counted /\ \E k \in Nat : \A t \in Threads : InStep(t, k)

LEMMA NumProc == num_proc \in Nat \ {0}
  <1>1. num_proc \in Nat
    BY ThreadsAssumption, FS_CardinalityType DEF num_proc
  <1>2. num_proc # 0
    BY ThreadsAssumption, FS_EmptySet DEF num_proc
  <1> QED BY <1>1, <1>2

(* Sets of threads are finite and no larger than num_proc.                 *)
LEMMA ThreadSets ==
  ASSUME NEW S \in SUBSET Threads
  PROVE  /\ IsFiniteSet(S) /\ Cardinality(S) \in 0 .. num_proc
         /\ Cardinality(S) = num_proc => S = Threads
  <1>1. IsFiniteSet(S) /\ Cardinality(S) <= num_proc
        /\ (Cardinality(S) = num_proc => S = Threads)
    BY ThreadsAssumption, FS_Subset DEF num_proc
  <1> QED BY <1>1, FS_CardinalityType, NumProc

LEMMA InitIInv == Init => IInv
  <1> SUFFICES ASSUME Init PROVE IInv
    OBVIOUS
  <1>1. TypeOK
    <2>1. count \in 0 .. num_proc
      BY NumProc DEF Init
    <2> QED BY <2>1 DEF Init, TypeOK
  <1>2. Waiting \cup Last = {}
    BY DEF Init, Waiting, Last
  <1>3. Counted
    BY <1>2, FS_EmptySet DEF Counted, Init, Last
  <1>4. \A t \in Threads : InStep(t, 0)
    BY DEF Init, InStep, Waiting
  <1> QED BY <1>1, <1>3, <1>4 DEF IInv

(* Two senses that differ from a third are the same.                       *)
LEMMA Senses ==
  ASSUME NEW x \in BOOLEAN, NEW y \in BOOLEAN, NEW z \in BOOLEAN
  PROVE  /\ (x # z /\ y # z => x = y)
         /\ (~x) # x /\ (~x) \in BOOLEAN
  BY Zenon

LEMMA ReadSenseStep ==
  ASSUME IInv, NEW t \in Threads, readSense(t)
  PROVE  IInv'
  <1>1. TypeOK /\ Counted
    BY DEF IInv
  <1>2. PICK k \in Nat : \A s \in Threads : InStep(s, k)
    BY DEF IInv
  <1>3. /\ pc[t] = "outside" /\ lsense' = [lsense EXCEPT ![t] = ~gsense]
        /\ pc' = [pc EXCEPT ![t] = "arrive"]
        /\ entered' = [entered EXCEPT ![t] = @ + 1]
        /\ count' = count /\ gsense' = gsense /\ left' = left
    BY DEF readSense
  <1>4. (~gsense) \in BOOLEAN /\ (~gsense) # gsense
    BY <1>1, Senses DEF TypeOK
  <1>5. TypeOK'
    BY <1>1, <1>3, <1>4 DEF TypeOK
  <1>6. Waiting' = Waiting /\ Last' = Last
    BY <1>1, <1>3 DEF TypeOK, Waiting, Last
  <1>7. Counted'
    BY <1>1, <1>3, <1>6 DEF Counted, TypeOK
  <1>8. \A s \in Threads : InStep(s, k)'
    BY <1>1, <1>2, <1>3, <1>4, <1>6 DEF InStep, TypeOK
  <1> QED BY <1>2, <1>5, <1>7, <1>8 DEF IInv

(* While a thread arrives nobody is last: the last one sees all others     *)
(* waiting in the loop.                                                    *)
LEMMA FetchIncStep ==
  ASSUME IInv, NEW t \in Threads, fetchInc(t)
  PROVE  IInv'
  <1>1. TypeOK /\ Counted
    BY DEF IInv
  <1>2. PICK k \in Nat : \A s \in Threads : InStep(s, k)
    BY DEF IInv
  <1>3. /\ pc[t] = "arrive" /\ count' = count + 1
        /\ pc' = [pc EXCEPT ![t] = IF count = num_proc - 1 THEN "reset" ELSE "spin"]
        /\ gsense' = gsense /\ lsense' = lsense /\ entered' = entered /\ left' = left
    BY DEF fetchInc
  <1>4. t \notin Waiting /\ t \notin Last
    BY <1>3 DEF Waiting, Last
  <1>5. Last = {}
    BY <1>1, <1>4 DEF Counted, Last
  <1>6. Waiting \in SUBSET Threads /\ Waiting \cup {t} \in SUBSET Threads
    BY DEF Waiting
  <1>7. count = Cardinality(Waiting)
    <2>1. \A s \in Threads : pc[s] # "flip"
      BY <1>5 DEF Last
    <2>2. Waiting \cup Last = Waiting
      BY <1>5
    <2> QED BY <1>1, <2>1, <2>2 DEF Counted
  <1>8. count' = Cardinality(Waiting \cup {t}) /\ count' \in 0 .. num_proc
    BY <1>3, <1>4, <1>6, <1>7, ThreadSets, FS_AddElement
  <1>9. lsense[t] # gsense
    BY <1>2, <1>3 DEF InStep
  <1>10. Waiting' \cup Last' = Waiting \cup {t}
    BY <1>1, <1>3, <1>5, <1>9 DEF Waiting, Last, TypeOK
  <1>11. TypeOK'
    BY <1>1, <1>3, <1>8 DEF TypeOK
  <1>12. \A s \in Threads : pc'[s] # "flip"
    BY <1>1, <1>3, <1>5 DEF Last, TypeOK
  <1>13. \A u \in Last' : \A s \in Threads \ {u} : s \in Waiting'
    <2> SUFFICES ASSUME NEW u \in Last', NEW s \in Threads \ {u}
        PROVE  s \in Waiting'
      OBVIOUS
    <2>1. u = t /\ pc'[t] = "reset" /\ count = num_proc - 1
      BY <1>1, <1>3, <1>5 DEF Last, TypeOK
    <2>2. Cardinality(Waiting \cup {t}) = num_proc
      BY <1>1, <1>3, <1>8, <2>1, NumProc DEF TypeOK
    <2>3. s \in Waiting
      BY <1>6, <2>1, <2>2, ThreadSets
    <2> QED BY <1>1, <1>3, <2>1, <2>3 DEF Waiting, TypeOK
  <1>14. Counted'
    BY <1>8, <1>10, <1>12, <1>13 DEF Counted
  <1>15. \A s \in Threads : InStep(s, k)'
    <2> SUFFICES ASSUME NEW s \in Threads PROVE InStep(s, k)'
      OBVIOUS
    <2>1. CASE s = t
      BY <1>1, <1>2, <1>3, <1>9, <2>1 DEF InStep, Waiting, TypeOK
    <2>2. CASE s # t
      BY <1>1, <1>2, <1>3, <2>2 DEF InStep, Waiting, TypeOK
    <2> QED BY <2>1, <2>2
  <1> QED BY <1>2, <1>11, <1>14, <1>15 DEF IInv

LEMMA ResetStep ==
  ASSUME IInv, NEW t \in Threads, resetCount(t)
  PROVE  IInv'
  <1>1. TypeOK /\ Counted
    BY DEF IInv
  <1>2. PICK k \in Nat : \A s \in Threads : InStep(s, k)
    BY DEF IInv
  <1>3. /\ pc[t] = "reset" /\ count' = 0 /\ pc' = [pc EXCEPT ![t] = "flip"]
        /\ gsense' = gsense /\ lsense' = lsense /\ entered' = entered /\ left' = left
    BY DEF resetCount
  <1>4. TypeOK'
    BY <1>1, <1>3, NumProc DEF TypeOK
  <1>5. Waiting' = Waiting /\ Last' = Last
    BY <1>1, <1>3 DEF TypeOK, Waiting, Last
  <1>6. pc'[t] = "flip"
    BY <1>1, <1>3 DEF TypeOK
  <1>7. Counted'
    BY <1>1, <1>3, <1>5, <1>6 DEF Counted
  <1>8. \A s \in Threads : InStep(s, k)'
    BY <1>1, <1>2, <1>3, <1>5 DEF InStep, TypeOK
  <1> QED BY <1>2, <1>4, <1>7, <1>8 DEF IInv

(* The sense flips: the barrier opens, and all who wait in it may leave.   *)
LEMMA FlipStep ==
  ASSUME IInv, NEW t \in Threads, flipSense(t)
  PROVE  IInv'
  <1>1. TypeOK /\ Counted
    BY DEF IInv
  <1>2. PICK k \in Nat : \A s \in Threads : InStep(s, k)
    BY DEF IInv
  <1>3. /\ pc[t] = "flip" /\ gsense' = lsense[t]
        /\ pc' = [pc EXCEPT ![t] = "outside"]
        /\ left' = [left EXCEPT ![t] = @ + 1]
        /\ count' = count /\ lsense' = lsense /\ entered' = entered
    BY DEF flipSense, leaves
  <1>4. TypeOK'
    BY <1>1, <1>3 DEF TypeOK
  <1>5. \A s \in Threads \ {t} : pc[s] = "spin" /\ lsense[s] # gsense
    BY <1>1, <1>3 DEF Counted, Last, Waiting
  <1>6. \A s \in Threads \ {t} : lsense[s] = gsense'
    <2>1. lsense[t] # gsense /\ lsense[t] \in BOOLEAN /\ gsense \in BOOLEAN
      BY <1>1, <1>2, <1>3 DEF InStep, TypeOK
    <2>2. ASSUME NEW s \in Threads \ {t} PROVE lsense[s] = gsense'
      <3>1. lsense[s] \in BOOLEAN /\ lsense[s] # gsense
        BY <1>1, <1>5 DEF TypeOK
      <3>2. lsense[s] = lsense[t]
        BY <2>1, <3>1, Senses
      <3> QED BY <1>3, <3>2
    <2> QED BY <2>2
  <1>7. Waiting' = {} /\ Last' = {}
    BY <1>1, <1>3, <1>5, <1>6 DEF Waiting, Last, TypeOK
  <1>8. Counted'
    <2>1. count' = Cardinality(Waiting' \cup Last')
      BY <1>1, <1>3, <1>7, FS_EmptySet DEF Counted
    <2>2. \A s \in Threads : pc'[s] # "flip"
      BY <1>7 DEF Last
    <2> QED BY <1>7, <2>1, <2>2 DEF Counted
  <1>9. \A s \in Threads : InStep(s, k + 1)'
    <2> SUFFICES ASSUME NEW s \in Threads PROVE InStep(s, k + 1)'
      OBVIOUS
    <2>1. CASE s = t
      BY <1>1, <1>2, <1>3, <1>7, <2>1 DEF InStep, TypeOK
    <2>2. CASE s # t
      <3>1. s \in Waiting
        BY <1>5, <2>2 DEF Waiting
      <3>2. entered[s] = k + 1 /\ left[s] = k
        BY <1>2, <3>1 DEF InStep
      <3>3. pc'[s] = "spin" /\ entered'[s] = k + 1 /\ left'[s] = k
        BY <1>1, <1>3, <1>5, <2>2, <3>2 DEF TypeOK
      <3> QED BY <1>7, <3>3 DEF InStep
    <2> QED BY <2>1, <2>2
  <1> QED BY <1>2, <1>4, <1>8, <1>9 DEF IInv

LEMMA SeesStep ==
  ASSUME IInv, NEW t \in Threads, seesSense(t)
  PROVE  IInv'
  <1>1. TypeOK /\ Counted
    BY DEF IInv
  <1>2. PICK k \in Nat : \A s \in Threads : InStep(s, k)
    BY DEF IInv
  <1>3. /\ pc[t] = "spin" /\ lsense[t] = gsense
        /\ pc' = [pc EXCEPT ![t] = "outside"]
        /\ left' = [left EXCEPT ![t] = @ + 1]
        /\ count' = count /\ gsense' = gsense /\ lsense' = lsense /\ entered' = entered
    BY DEF seesSense, leaves
  <1>4. TypeOK'
    BY <1>1, <1>3 DEF TypeOK
  <1>5. Waiting' = Waiting /\ Last' = Last
    BY <1>1, <1>3 DEF TypeOK, Waiting, Last
  <1>6. Counted'
    BY <1>1, <1>3, <1>5 DEF Counted, TypeOK
  <1>7. \A s \in Threads : InStep(s, k)'
    <2> SUFFICES ASSUME NEW s \in Threads PROVE InStep(s, k)'
      OBVIOUS
    <2>1. CASE s = t
      BY <1>1, <1>2, <1>3, <1>5, <2>1 DEF InStep, TypeOK, Waiting
    <2>2. CASE s # t
      BY <1>1, <1>2, <1>3, <1>5, <2>2 DEF InStep, TypeOK
    <2> QED BY <2>1, <2>2
  <1> QED BY <1>2, <1>4, <1>6, <1>7 DEF IInv

LEMMA NextIInv == IInv /\ [Next]_vars => IInv'
  <1> SUFFICES ASSUME IInv, [Next]_vars PROVE IInv'
    OBVIOUS
  <1>1. CASE UNCHANGED vars
    BY <1>1 DEF vars, IInv, TypeOK, Counted, InStep, Waiting, Last
  <1>2. ASSUME NEW t \in Threads, readSense(t) \/ Inside(t) PROVE IInv'
    BY <1>2, ReadSenseStep, FetchIncStep, ResetStep, FlipStep, SeesStep DEF Inside
  <1> QED BY <1>1, <1>2 DEF Next

(* The shared count stays within 0 .. num_proc, however many threads there *)
(* are and however often they meet.                                        *)
THEOREM TypeCorrect == Spec => []TypeOK
  <1>1. IInv => TypeOK
    BY DEF IInv
  <1> QED BY <1>1, InitIInv, NextIInv, PTL DEF Spec

(* A step of sesc_barrier is a step of the abstract barrier or changes     *)
(* neither history.                                                        *)
LEMMA StepImplements ==
  ASSUME IInv, [Next]_vars
  PROVE  [Abstract!Next]_<<entered, left>>
  <1>1. CASE UNCHANGED vars
    BY <1>1 DEF vars
  <1>2. ASSUME NEW t \in Threads, readSense(t)
        PROVE  Abstract!Next
    <2>1. entered[t] = left[t]
      BY <1>2 DEF IInv, InStep, readSense
    <2> QED BY <1>2, <2>1 DEF readSense, Abstract!Next, Abstract!Enter
  <1>3. ASSUME NEW t \in Threads, fetchInc(t) \/ resetCount(t)
        PROVE  UNCHANGED <<entered, left>>
    BY <1>3 DEF fetchInc, resetCount
  <1>4. ASSUME NEW t \in Threads, flipSense(t) \/ seesSense(t)
        PROVE  Abstract!Next
    <2>1. TypeOK /\ Counted
      BY DEF IInv
    <2>2. PICK k \in Nat : \A s \in Threads : InStep(s, k)
      BY DEF IInv
    <2>3. left[t] < entered[t] /\ \A s \in Threads : left[t] < entered[s]
      <3>1. CASE flipSense(t)
        <4>1. pc[t] = "flip" /\ left[t] = k /\ entered[t] = k + 1
          BY <2>2, <3>1 DEF flipSense, InStep
        <4>2. \A s \in Threads \ {t} : s \in Waiting
          BY <2>1, <4>1 DEF Counted, Last
        <4>3. \A s \in Threads : entered[s] = k + 1
          BY <2>2, <4>1, <4>2 DEF InStep
        <4> QED BY <4>1, <4>3
      <3>2. CASE seesSense(t)
        <4>1. left[t] + 1 = k /\ entered[t] = k
          BY <2>2, <3>2 DEF seesSense, InStep, Waiting
        <4>2. \A s \in Threads : entered[s] = k \/ entered[s] = k + 1
          BY <2>1, <2>2 DEF InStep, TypeOK
        <4>3. left[t] \in Nat
          BY <2>1 DEF TypeOK
        <4> QED BY <4>1, <4>2, <4>3
      <3> QED BY <1>4, <3>1, <3>2
    <2>4. left' = [left EXCEPT ![t] = @ + 1] /\ entered' = entered
      BY <1>4 DEF flipSense, seesSense, leaves
    <2> QED BY <2>3, <2>4 DEF Abstract!Next, Abstract!Leave
  <1> QED BY <1>1, <1>2, <1>3, <1>4 DEF Next, Inside

(* sesc_barrier is a barrier: any number of threads meet in it any number  *)
(* of times, none leaving before all have entered.                         *)
THEOREM BarrierImplemented == Spec => ImplementsBarrier
  <1>1. Init => Abstract!Init
    BY DEF Init, Abstract!Init
  <1>2. IInv /\ [Next]_vars => [Abstract!Next]_<<entered, left>>
    BY StepImplements
  <1> QED
    BY <1>1, <1>2, InitIInv, NextIInv, PTL DEF Spec, ImplementsBarrier, Abstract!Spec
-----------------------------------------------------------------------------
(***************************************************************************)
(* The application                                                         *)
(***************************************************************************)
(* A step of the application is a step of one of its parts, and the others *)
(* stay as they are.                                                       *)
LEMMA StepOfParts ==
  ASSUME [MCNext]_<<uses, vars, lockVars, threadVars>>
  PROVE  [Next]_vars /\ [L!Next]_(L!vars) /\ [T!Next]_(T!vars)
  <1>1. /\ lockVars = L!vars /\ lockVars' = L!vars'
        /\ threadVars = T!vars /\ threadVars' = T!vars'
    BY DEF lockVars, threadVars, L!vars, T!vars
  <1>2. CASE UNCHANGED <<uses, vars, lockVars, threadVars>>
    BY <1>1, <1>2
  <1>3. CASE (\E t \in Threads : CallBarrier(t)) /\ UNCHANGED <<lockVars, threadVars>>
    BY <1>1, <1>3 DEF CallBarrier, Next
  <1>4. CASE uses = "locks" /\ L!Next /\ UNCHANGED <<vars, threadVars>>
    BY <1>1, <1>4
  <1>5. CASE uses = "threads" /\ T!Next /\ UNCHANGED <<vars, lockVars>>
    BY <1>1, <1>5
  <1> QED BY <1>2, <1>3, <1>4, <1>5 DEF MCNext

LEMMA PartsRun == MCSpec => Spec /\ L!Spec /\ T!Spec
  <1>1. MCInit => Init /\ L!Init /\ T!Init
    BY DEF MCInit
  <1>2. [MCNext]_<<uses, vars, lockVars, threadVars>> =>
          [Next]_vars /\ [L!Next]_(L!vars) /\ [T!Next]_(T!vars)
    BY StepOfParts
  <1> QED BY <1>1, <1>2, PTL DEF MCSpec, Spec, L!Spec, T!Spec

(* The barrier of the application is a barrier.                            *)
THEOREM ApplicationMeets == MCSpec => ImplementsBarrier
  BY PartsRun, BarrierImplemented, PTL

(* No signal of a flag is lost, and its waiters are counted one at a time. *)
THEOREM ApplicationSignals == MCSpec => []SignalsBalance
  <1>1. L!Spec => []L!SignalsBalance
    BY LocksAssumption, L!NoWaiterForgotten
  <1>2. L!SignalsBalance => SignalsBalance
    BY DEF SignalsBalance
  <1> QED BY <1>1, <1>2, PartsRun, PTL

(* A native thread in its routine has exactly one entry in the table.      *)
THEOREM ApplicationEntries == MCSpec => []OneEntry
  <1>1. T!Spec => []T!OneEntry
    BY SescThreadAssumption, T!OneEntryAlways
  <1>2. T!OneEntry => OneEntry
    BY DEF OneEntry
  <1> QED BY <1>1, <1>2, PartsRun, PTL

(* sesc_wait returns no more often than threads end.                       *)
THEOREM ApplicationWaits == MCSpec => []WaitJoins
  <1>1. T!Spec => []T!WaitJoins
    BY SescThreadAssumption, T!WaitJoinsAlways
  <1>2. T!WaitJoins => WaitJoins
    BY DEF WaitJoins
  <1> QED BY <1>1, <1>2, PartsRun, PTL
=============================================================================
