------------------------------- MODULE TQueue -------------------------------
(***************************************************************************)
(* The event queue of the simulator (libsuc/TQueue.h).  Nodes due within   *)
(* AccessSize clocks of minTime are in a circular array of lists, the      *)
(* others in the heap tooFar, from which they are moved when the first of  *)
(* them is due.  A list is the sequence of its nodes.  The heap is a set:  *)
(* which of its nodes of one time comes first is left to the library.      *)
(***************************************************************************)
EXTENDS Naturals, Sequences, SequencesExt, FiniteSetsExt

CONSTANTS
  AccessSize,   (* size of the array, a power of 2, at least 8             *)
  MaxTime       (* later than anything scheduled                           *)

ASSUME AccessAssumption == AccessSize \in {2^k : k \in 3 .. 30} /\ MaxTime \in Nat

NoJob == <<>>

(* reset.                                                                  *)
EmptyQueue(Nodes) ==
  [minTime |-> 0, minPos |-> 0, nNodes |-> 0,
   access |-> [pos \in 0 .. AccessSize - 1 |-> <<>>],
   tooFar |-> {}, minTooFar |-> MaxTime, time |-> [n \in Nodes |-> 0]]

(* The nodes in the lists, in the heap.                                    *)
InFastQueue(q) == UNION {Range(q.access[pos]) : pos \in DOMAIN q.access}
isInQueue(q, n) == n \in InFastQueue(q) \cup q.tooFar
empty(q) == q.nNodes = 0 /\ q.tooFar = {}

(* & AccessMask.                                                           *)
wrap(pos) == pos % AccessSize

addNode(q, n) ==
  [q EXCEPT !.access[wrap(q.minPos + q.time[n] - q.minTime)] = Append(@, n),
            !.nNodes = @ + 1]

(* Mutant: minTooFar is set for the first node of the heap only.           *)
mutKeepMin(q, n, t) ==
  LET timed == [q EXCEPT !.time[n] = t]
  IN  IF t - q.minTime < AccessSize
      THEN addNode(timed, n)
      ELSE [timed EXCEPT !.tooFar = @ \cup {n},
                         !.minTooFar = IF q.tooFar = {} THEN t ELSE @]

insert(q, n, t) ==
  LET timed == [q EXCEPT !.time[n] = t]
  IN  IF t - q.minTime < AccessSize
      THEN addNode(timed, n)
      ELSE [timed EXCEPT !.tooFar = @ \cup {n},
                         !.minTooFar = IF @ > t THEN t ELSE @]

(* The results adjustTooFar can have: the nodes of the heap that are near  *)
(* enough go to the lists in the order of their times.                     *)
adjustTooFar(q) ==
  LET near == {n \in q.tooFar : q.time[n] - q.minTime < AccessSize}
      rest == q.tooFar \ near
      first == IF rest = {} THEN MaxTime ELSE Min({q.time[n] : n \in rest})
      heapOrders == {s \in SetToSeqs(near) :
        \A i, j \in DOMAIN s : i < j => q.time[s[i]] <= q.time[s[j]]}
  IN  {[FoldLeft(addNode, q, s) EXCEPT !.tooFar = rest, !.minTooFar = first]
         : s \in heapOrders}

(* The list at minPos loses its first node.                                *)
takeFirst(q) ==
  [job |-> Head(q.access[q.minPos]),
   q |-> [q EXCEPT !.access[q.minPos] = Tail(@), !.nNodes = @ - 1]]

(* minTime and minPos go on to the first list that is not empty, or to the *)
(* current time.                                                           *)
walk(q, cTime) ==
  LET steps == 0 .. cTime - q.minTime
      full == {k \in steps : q.access[wrap(q.minPos + k)] # <<>>}
      k == IF full = {} THEN cTime - q.minTime ELSE Min(full)
  IN  [q EXCEPT !.minPos = wrap(@ + k), !.minTime = @ + k]

(* nextJob after adjustTooFar.                                             *)
fromLists(q, cTime) ==
  LET walked == walk(q, cTime)
  IN  IF q.nNodes = 0
      THEN [job |-> NoJob, q |-> [q EXCEPT !.minTime = cTime, !.minPos = 0]]
      ELSE IF walked.access[walked.minPos] = <<>>
           THEN [job |-> NoJob, q |-> walked]
           ELSE takeFirst(walked)

(* The results nextJob can have.                                            *)
nextJobs(q, cTime) ==
  IF q.access[q.minPos] # <<>> /\ q.minTime = cTime
  THEN {takeFirst(q)}
  ELSE {fromLists(a, cTime) :
          a \in IF q.minTooFar <= cTime THEN adjustTooFar(q) ELSE {q}}
=============================================================================
