------------------------- MODULE SMPCoherenceProofs -------------------------
(***************************************************************************)
(* The safety properties of SMPSystem for any number of caches, requests,  *)
(* lines and ways, in the shipped configuration: SMPCache is the highest   *)
(* level (NUpper = 0).  With caches above, an SMPCache answers snoops      *)
(* while it is dropping a line, and neither SendFindsLine nor              *)
(* DirtyIffStale holds there (README, findings).                           *)
(*                                                                         *)
(* SingleWriter is not inductive.  Why nobody else can write a line that   *)
(* returnAccess is about to grant follows from the whole path of the       *)
(* request: it is alone in its mutExclBuffer entry (MutexQueue) and in its *)
(* outsReq entry (OutsQueue), the line it reserved is locked by it and by  *)
(* nobody else (LockedByOwner), and what each cache did when it answered   *)
(* the snoop still holds when the last answer arrives (AnswersHold).       *)
(***************************************************************************)
EXTENDS SMPSystem, FiniteSetTheorems, TLAPS
-----------------------------------------------------------------------------
(***************************************************************************)
(* The types, with and without caches above                                *)
(***************************************************************************)
(* Creating, mutating and answering a request keeps it a request.          *)
LEMMA CreateType ==
  ASSUME NEW a \in Lines, NEW op \in MemOp
  PROVE  create(a, op) \in Request
  BY DEF create, Request, MemOp

LEMMA MutateType ==
  ASSUME NEW q \in Request
  PROVE  mutateWriteToRead(q) \in Request /\ mutateReadToWrite(q) \in Request
  BY DEF mutateWriteToRead, mutateReadToWrite, Request, MemOp

LEMMA SendType ==
  ASSUME NEW q \in Request, NEW b \in BOOLEAN, NEW a \in Lines
  PROVE  /\ [q EXCEPT !.needData = b, !.needSnoop = TRUE] \in Request
         /\ [q EXCEPT !.needSnoop = FALSE] \in Request
         /\ [q EXCEPT !.victim = a] \in Request
  BY DEF Request

LEMMA CombineType ==
  ASSUME NEW q \in Request, NEW s \in Stable, NEW c \in Caches
  PROVE  /\ combineResponses(q, s, c) \in Request
         /\ [combineResponses(q, s, c) EXCEPT !.writeDown = FALSE] \in Request
  <1>1. combineResponses(q, s, c) \in Request
    BY DEF combineResponses, Request, Stable
  <1> QED BY <1>1 DEF Request

(* What callbacks do to the stack keeps it a sequence of requests.         *)
LEMMA StackOps ==
  ASSUME TypeOK, NEW r \in Req
  PROVE  /\ Outer \in Seq(Req)
         /\ <<r>> \o Outer \in Seq(Req)
         /\ stack # <<>> => /\ Head(stack) \in Req
                            /\ Tail(stack) \in Seq(Req)
                            /\ <<r>> \o Tail(stack) \in Seq(Req)
         /\ <<r>> \o stack \in Seq(Req)
  BY DEF TypeOK, Outer

(* A line of a set that is valid and not locked is in a stable state.      *)
LEMMA StableState ==
  ASSUME NEW s \in LineState, isValid(s), ~isLocked(s)
  PROVE  s \in Stable
  BY DEF LineState, isValid, isLocked

(* Writing back and answering a snoop keep the variables they set typed.   *)
LEMMA WriteBackType ==
  ASSUME TypeOK, NEW needed, NEW c \in Caches, NEW a \in Lines,
         doWriteBack(needed, c, a)
  PROVE  push' \in [Caches -> [Lines -> Nat]] /\ stale' \in [Lines -> BOOLEAN]
  BY DEF doWriteBack, TypeOK

LEMMA RespondType ==
  ASSUME TypeOK, NEW c \in Caches, NEW r \in Req, NEW q \in Request,
         respondBelow(c, r, q)
  PROVE  /\ push' \in [Caches -> [Lines -> Nat]]
         /\ stale' \in [Lines -> BOOLEAN]
         /\ pendReqs' \in [Req -> Int]
         /\ pc' \in [Req -> Phase]
  <1>1. q.addr \in Lines
    BY DEF Request
  <1>2. push' \in [Caches -> [Lines -> Nat]] /\ stale' \in [Lines -> BOOLEAN]
    BY <1>1, WriteBackType DEF respondBelow
  <1> QED BY <1>2 DEF respondBelow, TypeOK, goTo, Phase

LEMMA TailType ==
  ASSUME NEW q \in Seq(Req), q # <<>>
  PROVE  Tail(q) \in Seq(Req) /\ (Tail(q) # <<>> => Head(Tail(q)) \in Req)
  OBVIOUS

LEMMA TypeInit == Init => TypeOK
  <1> SUFFICES ASSUME Init PROVE TypeOK
    OBVIOUS
  <1>1. req \in [Req -> Request]
    BY CreateType DEF Init, MemOp
  <1> QED
    BY <1>1 DEF Init, TypeOK, LineState, Phase, NoInv, PendInv

LEMMA TypeNext == TypeOK /\ [Next]_vars => TypeOK'
  <1> SUFFICES ASSUME TypeOK, [Next]_vars PROVE TypeOK'
    OBVIOUS
  <1>a. \A r \in Req : /\ cacheOf(r) \in Caches
                       /\ req[r] \in Request
                       /\ addr(r) \in Lines
                       /\ req[r].victim \in Lines
                       /\ state(r) \in LineState
                       /\ transFor(r) \in LineState
    BY DEF TypeOK, Req, cacheOf, Request, addr, state, transFor, LineState, Transient
  <1>b. \A r \in Req : /\ mutateWriteToRead(req[r]) \in Request
                       /\ mutateReadToWrite(req[r]) \in Request
    BY <1>a, MutateType
  <1> USE DEF goTo, setLine
  <1>1. ASSUME NEW r \in Req, NEW a \in Lines, NEW op \in MemOp, access(r, a, op)
        PROVE  TypeOK'
    BY <1>1, <1>a, CreateType DEF access, Phase, TypeOK
  <1>2. ASSUME NEW r \in Req, doReadHit(r) PROVE TypeOK'
    BY <1>2, StackOps DEF doReadHit, Phase, TypeOK
  <1>3. ASSUME NEW r \in Req, doWriteHit(r) PROVE TypeOK'
    BY <1>3, <1>a, StackOps DEF doWriteHit, Phase, LineState, Stable, TypeOK
  <1>4. ASSUME NEW r \in Req, doLookupLocked(r) PROVE TypeOK'
    BY <1>4, <1>b, StackOps DEF doLookupLocked, Phase, TypeOK
  <1>5. ASSUME NEW r \in Req, doLookupMiss(r) PROVE TypeOK'
    <2>1. req' \in [Req -> Request]
      BY <1>5, <1>b DEF doLookupMiss, TypeOK
    <2>2. pc' \in [Req -> Phase] /\ stack' \in Seq(Req)
      BY <1>5, StackOps DEF doLookupMiss, TypeOK, Phase
    <2>3. mutExcl' \in [Lines -> Seq(Req)]
      BY <1>5, <1>a DEF doLookupMiss, TypeOK
    <2> QED BY <1>5, <2>1, <2>2, <2>3 DEF doLookupMiss, TypeOK
  <1>6. ASSUME NEW r \in Req, writeShared(r) PROVE TypeOK'
    <2>1. req' \in [Req -> Request]
      BY <1>6, <1>a, SendType DEF writeShared, sendBelow, TypeOK
    <2> QED BY <1>6, <1>a, <2>1, StackOps
            DEF writeShared, sendBelow, Phase, LineState, Transient, TypeOK
  <1>7. ASSUME NEW r \in Req, allocateFree(r) PROVE TypeOK'
    <2>1. req' \in [Req -> Request]
      <3>1. [mutateWriteToRead(req[r]) EXCEPT !.needData = TRUE, !.needSnoop = TRUE] \in Request
        BY <1>b, <1>a, SendType
      <3> QED BY <1>7, <3>1 DEF allocateFree, sendBelow, TypeOK
    <2> QED BY <1>7, <1>a, <2>1, StackOps DEF allocateFree, sendBelow, Phase, TypeOK
  <1>8. ASSUME NEW r \in Req, NEW v \in Lines, allocateReplace(r, v) PROVE TypeOK'
    <2>1. req' \in [Req -> Request]
      BY <1>8, <1>b, SendType DEF allocateReplace, sendBelow, TypeOK
    <2>2. line' \in [Caches -> [Lines -> LineState]]
      BY <1>8, <1>a DEF allocateReplace, TypeOK, LineState
    <2>3. push' \in [Caches -> [Lines -> Nat]] /\ stale' \in [Lines -> BOOLEAN]
      BY <1>8, <1>a, WriteBackType DEF allocateReplace
    <2> QED BY <1>8, <2>1, <2>2, <2>3, StackOps
            DEF allocateReplace, sendBelow, Phase, TypeOK
  <1>9. ASSUME NEW r \in Req, NEW v \in Lines, allocateInvalidate(r, v) PROVE TypeOK'
    <2>1. req' \in [Req -> Request]
      BY <1>9, <1>b, SendType DEF allocateInvalidate, TypeOK
    <2>2. pendInv' \in [Caches -> [Lines -> PendInv]]
      BY <1>9, <1>a, SizeAssumption DEF allocateInvalidate, TypeOK, PendInv
    <2>3. line' \in [Caches -> [Lines -> LineState]]
      BY <1>9, <1>a DEF allocateInvalidate, TypeOK, LineState, Transient, preInvalidate
    <2> QED BY <1>9, <1>a, <2>1, <2>2, <2>3, StackOps DEF allocateInvalidate, Phase, TypeOK
  <1>10. ASSUME NEW r \in Req, allocateRetry(r) PROVE TypeOK'
    BY <1>10, <1>b, StackOps DEF allocateRetry, Phase, TypeOK
  <1>11. ASSUME NEW r \in Req, doAllocateLine(r) PROVE TypeOK'
    <2>1. req' \in [Req -> Request]
      BY <1>11, <1>a, SendType DEF doAllocateLine, sendBelow, TypeOK
    <2>2. line' \in [Caches -> [Lines -> LineState]]
      BY <1>11, <1>a DEF doAllocateLine, TypeOK, LineState
    <2>3. push' \in [Caches -> [Lines -> Nat]] /\ stale' \in [Lines -> BOOLEAN]
      BY <1>11, <1>a, WriteBackType DEF doAllocateLine
    <2> QED BY <1>11, <2>1, <2>2, <2>3 DEF doAllocateLine, sendBelow, Phase, TypeOK
  <1>12. ASSUME NEW r \in Req, goToMem(r) PROVE TypeOK'
    BY <1>12 DEF goToMem, Phase, TypeOK
  <1>13. ASSUME NEW r \in Req, snoopOthers(r) PROVE TypeOK'
    <2>1. Cardinality(Caches \ {cacheOf(r)}) \in Nat
      BY CachesAssumption, FS_CardinalityType, FS_Subset
    <2> QED BY <1>13, <2>1 DEF snoopOthers, Phase, TypeOK
  <1>14. ASSUME NEW r \in Req, returnAccess(r) PROVE TypeOK'
    BY <1>14 DEF returnAccess, Phase, TypeOK
  <1>15. ASSUME NEW c \in Caches, NEW r \in Req, handlerMiss(c, r) PROVE TypeOK'
    <2>1. respondBelow(c, r, req[r])
      BY <1>15 DEF handlerMiss
    <2> QED BY <1>15, <1>a, <2>1, RespondType DEF handlerMiss, Snooped, TypeOK
  <1>16. ASSUME NEW c \in Caches, NEW r \in Req, readMissHandler(c, r) PROVE TypeOK'
    <2> DEFINE q == combineResponses(req[r], line[c][addr(r)], c)
    <2>1. line[c][addr(r)] \in Stable
      BY <1>16, <1>a, StableState DEF readMissHandler, TypeOK
    <2>2. q \in Request
      BY <1>a, <2>1, CombineType
    <2>3. respondBelow(c, r, q)
      BY <1>16 DEF readMissHandler
    <2>4. req' \in [Req -> Request] /\ line' \in [Caches -> [Lines -> LineState]]
      BY <1>16, <1>a, <2>2 DEF readMissHandler, TypeOK, LineState, Stable
    <2> HIDE DEF q
    <2> QED BY <1>16, <2>2, <2>3, <2>4, RespondType DEF readMissHandler, Snooped, TypeOK
  <1>17. ASSUME NEW c \in Caches, NEW r \in Req, writeMissHandler(c, r) PROVE TypeOK'
    <2>1. combineAndClear(r, line[c][addr(r)], c) \in Request
      BY <1>17, <1>a, StableState, CombineType DEF writeMissHandler, combineAndClear, TypeOK
    <2>2. preInvalidate(line[c][addr(r)]) \in LineState /\ "INVALID" \in LineState
      BY DEF preInvalidate, LineState, Transient
    <2>3. [resps |-> NUpper, cb |-> r, invalidate |-> TRUE] \in PendInv
      BY SizeAssumption DEF PendInv
    <2>4. req' \in [Req -> Request] /\ snoop' \in [Req -> SUBSET Caches]
      BY <1>17, <2>1 DEF writeMissHandler, Snooped, TypeOK
    <2>a. /\ UNCHANGED <<outsReq, mutExcl, pc, pendReqs, stack>>
          /\ addr(r) \in Lines
      BY <1>17, <1>a DEF writeMissHandler
    <2>5. CASE NUpper = 0
      <3>1. push' \in [Caches -> [Lines -> Nat]] /\ stale' \in [Lines -> BOOLEAN]
        BY <2>5, <1>17, <1>a, WriteBackType DEF writeMissHandler
      <3>2. line' = [line EXCEPT ![c][addr(r)] = "INVALID"]
        BY <2>5, <1>17 DEF writeMissHandler
      <3>3. line' \in [Caches -> [Lines -> LineState]]
        BY <3>2, <2>a, <2>2 DEF TypeOK
      <3>4. acks' = [acks EXCEPT ![r] = @ \cup {c}] /\ pendInv' = pendInv
        BY <2>5, <1>17 DEF writeMissHandler
      <3>5. acks' \in [Req -> SUBSET Caches]
        BY <3>4 DEF TypeOK
      <3> QED BY <2>a, <2>4, <3>1, <3>3, <3>4, <3>5 DEF TypeOK
    <2>6. CASE NUpper # 0
      <3>1. push' = push /\ stale' = stale /\ acks' = acks
        BY <2>6, <1>17 DEF writeMissHandler
      <3>2. line' = [line EXCEPT ![c][addr(r)] = preInvalidate(line[c][addr(r)])]
        BY <2>6, <1>17 DEF writeMissHandler
      <3>3. line' \in [Caches -> [Lines -> LineState]]
        BY <3>2, <2>a, <2>2 DEF TypeOK
      <3>4. pendInv' = [pendInv EXCEPT ![c][addr(r)] =
                          [resps |-> NUpper, cb |-> r, invalidate |-> TRUE]]
        BY <2>6, <1>17 DEF writeMissHandler
      <3>5. pendInv' \in [Caches -> [Lines -> PendInv]]
        BY <3>4, <2>a, <2>3 DEF TypeOK
      <3> QED BY <2>a, <2>4, <3>1, <3>3, <3>5 DEF TypeOK
    <2> QED BY <2>5, <2>6
  <1>18. ASSUME NEW c \in Caches, NEW r \in Req, sendInvalidateAck(c, r) PROVE TypeOK'
    <2>1. respondBelow(c, r, req[r])
      BY <1>18 DEF sendInvalidateAck
    <2> QED BY <1>18, <1>a, <2>1, RespondType DEF sendInvalidateAck, TypeOK
  <1>19. ASSUME NEW c \in Caches, NEW a \in Lines, doPush(c, a) PROVE TypeOK'
    BY <1>19 DEF doPush, TypeOK
  <1>20. ASSUME NEW c \in Caches, NEW a \in Lines, doInvalidateMore(c, a) PROVE TypeOK'
    <2>1. ASSUME NEW p \in PendInv, p.resps > 1
          PROVE  [p EXCEPT !.resps = @ - 1] \in PendInv
      BY <2>1 DEF PendInv
    <2>2. pendInv[c][a] \in PendInv /\ pendInv[c][a].resps > 1
      BY <1>20 DEF doInvalidateMore, TypeOK
    <2>3. [pendInv[c][a] EXCEPT !.resps = @ - 1] \in PendInv
      BY <2>1, <2>2
    <2> QED BY <1>20, <2>3 DEF doInvalidateMore, TypeOK
  <1>21. ASSUME NEW c \in Caches, NEW a \in Lines, doInvalidateLine(c, a) PROVE TypeOK'
    <2>1. NoInv \in PendInv /\ "INVALID" \in LineState
      BY DEF NoInv, PendInv, LineState
    <2>2. push' \in [Caches -> [Lines -> Nat]] /\ stale' \in [Lines -> BOOLEAN]
      BY <1>21, WriteBackType DEF doInvalidateLine
    <2>3. acks' \in [Req -> SUBSET Caches]
      BY <1>21 DEF doInvalidateLine, TypeOK
    <2> QED BY <1>21, <2>1, <2>2, <2>3 DEF doInvalidateLine, TypeOK
  <1>22. ASSUME NEW c \in Caches, NEW a \in Lines, doInvalidateVictim(c, a) PROVE TypeOK'
    <2>1. NoInv \in PendInv
      BY DEF NoInv, PendInv
    <2> QED BY <1>22, <2>1 DEF doInvalidateVictim, Phase, TypeOK
  <1>23. ASSUME NEW r \in Req, missAckToMem(r) PROVE TypeOK'
    <2>1. req' \in [Req -> Request]
      BY <1>23, <1>a, SendType DEF missAckToMem, TypeOK
    <2> QED BY <1>23, <1>a, <2>1 DEF missAckToMem, Phase, TypeOK, LineState, Transient
  <1>24. ASSUME NEW r \in Req, readMissAck(r) PROVE TypeOK'
    BY <1>24, <1>a DEF readMissAck, Phase, TypeOK, LineState, Stable
  <1>25. ASSUME NEW r \in Req, writeMissAck(r) PROVE TypeOK'
    BY <1>25, <1>a, <1>b DEF writeMissAck, Phase, TypeOK, LineState, Stable
  <1>26. ASSUME NEW r \in Req, retireOuts(r) PROVE TypeOK'
    <2> DEFINE rest == Tail(outsReq[cacheOf(r)][addr(r)])
    <2>a. /\ outsReq[cacheOf(r)][addr(r)] \in Seq(Req)
          /\ outsReq[cacheOf(r)][addr(r)] # <<>>
      BY <1>26, <1>a DEF retireOuts, TypeOK
    <2>1. rest \in Seq(Req) /\ (rest # <<>> => Head(rest) \in Req)
      BY <2>a, TailType
    <2>2. req' \in [Req -> Request]
      BY <1>26, <1>a, CreateType DEF retireOuts, addr, TypeOK, MemOp
    <2>3. pc' \in [Req -> Phase] /\ stack' \in Seq(Req)
      BY <1>26, <2>1, StackOps DEF retireOuts, TypeOK, Phase, Active
    <2> QED BY <1>26, <1>a, <2>1, <2>2, <2>3 DEF retireOuts, TypeOK
  <1>27. ASSUME NEW r \in Req, retireMutExcl(r) PROVE TypeOK'
    <2> DEFINE rest == Tail(mutExcl[addr(r)])
    <2>1. rest \in Seq(Req) /\ (rest # <<>> => Head(rest) \in Req)
      BY <1>27, <1>a, TailType DEF retireMutExcl, TypeOK
    <2>2. req' \in [Req -> Request]
      BY <1>27, <1>a, CreateType DEF retireMutExcl, addr, TypeOK, MemOp
    <2>3. pc' \in [Req -> Phase] /\ stack' \in Seq(Req)
      BY <1>27, <2>1, StackOps DEF retireMutExcl, TypeOK, Phase, Active
    <2> QED BY <1>27, <1>a, <2>1, <2>2, <2>3 DEF retireMutExcl, TypeOK
  <1>28. CASE UNCHANGED vars
    BY <1>28 DEF vars, TypeOK
  <1> QED
    BY <1>1, <1>2, <1>3, <1>4, <1>5, <1>6, <1>7, <1>8, <1>9, <1>10, <1>11, <1>12,
       <1>13, <1>14, <1>15, <1>16, <1>17, <1>18, <1>19, <1>20, <1>21, <1>22, <1>23,
       <1>24, <1>25, <1>26, <1>27, <1>28
    DEF Next, Access, Callback, CacheStep, BusStep, SnoopStep, LineStep

(* Type correctness: in every state the simulator reaches, each line is in *)
(* a state of the protocol, each buffer holds requests, and a request only *)
(* ever carries a stable state as the answer of a snooped cache.           *)
THEOREM TypeCorrect == Spec => []TypeOK
  BY TypeInit, TypeNext, PTL DEF Spec
-----------------------------------------------------------------------------
(***************************************************************************)
(* Coherence                                                               *)
(***************************************************************************)
(* Phases of a request, by what it holds: not yet sent, below the cache,   *)
(* at the head of mutExclBuffer, at the head of outsReq.                   *)
Waiting == {"mutex", "send", "retry"}
Below   == {"bus", "snoop", "mem", "return"}
Owning  == {"send", "retry", "conclude", "release"} \cup Below
Serving == {"lookup", "mutex", "send", "retry", "hit", "conclude"} \cup Below

(* The request being served is first in its outsReq entry; the others wait *)
(* there, each once.                                                       *)
OutsQueue ==
  /\ \A r \in Req : pc[r] \in Serving =>
       LET q == outsReq[cacheOf(r)][addr(r)] IN q # <<>> /\ q[1] = r
  /\ \A c \in Caches, a \in Lines : \A i \in 2 .. Len(outsReq[c][a]) :
       LET r == outsReq[c][a][i] IN
         /\ pc[r] = "outs" /\ cacheOf(r) = c /\ addr(r) = a
         /\ \A j \in 2 .. Len(outsReq[c][a]) : outsReq[c][a][j] = r => i = j

(* The request that owns a line is first in mutExclBuffer; the others wait *)
(* there, each once.                                                       *)
MutexQueue ==
  /\ \A r \in Req : pc[r] \in Owning =>
       mutExcl[addr(r)] # <<>> /\ mutExcl[addr(r)][1] = r
  /\ \A a \in Lines : \A i \in 2 .. Len(mutExcl[a]) :
       LET r == mutExcl[a][i] IN
         /\ pc[r] = "mutex" /\ addr(r) = a
         /\ \A j \in 2 .. Len(mutExcl[a]) : mutExcl[a][j] = r => i = j

(* No caches above: nothing waits for their answers.                       *)
NoneAbove ==
  /\ NUpper = 0
  /\ \A c \in Caches, a \in Lines : pendInv[c][a] = NoInv
  /\ \A r \in Req : pc[r] \notin {"evict", "evicted"}
  /\ \A c \in Caches, a \in Lines : line[c][a] \notin {"TRANS_INV", "TRANS_INV_D"}

(* A line is locked exactly while a request for it is below its cache.     *)
LockedByOwner ==
  /\ \A c \in Caches, a \in Lines : isLocked(line[c][a]) =>
       \E r \in Req : cacheOf(r) = c /\ addr(r) = a /\ pc[r] \in Below
  /\ \A r \in Req : pc[r] \in Below => isLocked(state(r))

(* A miss still to be sent finds its line as it was looked up, or worse.   *)
WaitersLine ==
  \A r \in Req : pc[r] \in Waiting =>
    state(r) \in (IF isRead(r) THEN {"INVALID"} ELSE {"INVALID", "SHARED"})

(* Cache d has answered the snoop of r.                                    *)
Unsnooped(r) == pc[r] = "bus" /\ req[r].needSnoop
Answered(r, d) == /\ pc[r] \in Below /\ ~Unsnooped(r)
                  /\ d # cacheOf(r) /\ d \notin snoop[r]

(* What a cache did to answer still holds: it has dropped the line for a   *)
(* write, it has at most a SHARED copy, and said so, for a read; and once  *)
(* the line was found somewhere nobody may write it.                       *)
AnswersHold ==
  \A r \in Req :
    /\ \A d \in Caches : Answered(r, d) =>
         IF isRead(r)
           THEN \/ line[d][addr(r)] = "INVALID"
                \/ line[d][addr(r)] = "SHARED" /\ req[r].found
           ELSE line[d][addr(r)] = "INVALID"
    /\ pc[r] \in Below /\ req[r].found =>
         \A d \in Caches : ~canBeWritten(line[d][addr(r)])

(* The response a request carries: none before it is snooped, and never    *)
(* from a cache that is still to answer.                                   *)
Response ==
  \A r \in Req :
    /\ req[r].found <=> req[r].state # "INVALID"
    /\ ~req[r].found => req[r].supplier = None /\ ~req[r].writeDown
    /\ ~isRead(r) => ~req[r].writeDown
    /\ pc[r] \in {"outs", "lookup"} \cup Waiting \/ Unsnooped(r) => ~req[r].found
    /\ req[r].supplier \notin snoop[r]

(* A mutated write is restored before it is acknowledged.                  *)
Operation ==
  \A r \in Req :
    /\ IF req[r].wToR THEN req[r].op = "MemReadW" /\ req[r].orig = "MemWrite"
       ELSE req[r].op = req[r].orig
    /\ pc[r] \in {"outs", "lookup", "hit", "conclude", "release"} => ~req[r].wToR

(* The bus's count is the number of caches that still owe an answer.       *)
Outstanding ==
  \A r \in Req :
    /\ pc[r] = "snoop" => /\ snoop[r] \cup acks[r] # {}
                          /\ pendReqs[r] = Cardinality(snoop[r] \cup acks[r])
    /\ pc[r] # "snoop" => snoop[r] = {} /\ acks[r] = {}
    /\ snoop[r] \cap acks[r] = {} /\ cacheOf(r) \notin snoop[r]
    /\ isRead(r) => acks[r] = {}

IInv ==
  /\ NoneAbove /\ OutsQueue /\ MutexQueue /\ LockedByOwner /\ WaitersLine
  /\ AnswersHold /\ Response /\ Operation /\ Outstanding
  /\ SingleWriter /\ DirtyIffStale
-----------------------------------------------------------------------------
(* The parts of a request are typed.                                       *)
LEMMA Basics ==
  ASSUME TypeOK, NEW r \in Req
  PROVE  /\ cacheOf(r) \in Caches /\ addr(r) \in Lines /\ pc[r] \in Phase
         /\ req[r] \in Request /\ state(r) \in LineState
  BY DEF TypeOK, Req, cacheOf, addr, state, Request

(* At most one request owns a line: the head of its mutExclBuffer entry.   *)
LEMMA OneOwner ==
  ASSUME TypeOK, MutexQueue, NEW r \in Req, NEW x \in Req,
         pc[r] \in Owning, pc[x] \in Owning, addr(r) = addr(x)
  PROVE  r = x
  BY DEF MutexQueue

(* At most one request of a line is served by a cache: the head of         *)
(* outsReq.                                                                *)
LEMMA OneServed ==
  ASSUME TypeOK, OutsQueue, NEW r \in Req, NEW x \in Req,
         pc[r] \in Serving, pc[x] \in Serving, addr(r) = addr(x),
         cacheOf(r) = cacheOf(x)
  PROVE  r = x
  BY DEF OutsQueue

(* What a step that leaves mutExclBuffer alone must respect.               *)
LEMMA MutexFrame ==
  ASSUME TypeOK, MutexQueue, mutExcl' = mutExcl,
         \A x \in Req : /\ pc'[x] \in Owning => pc[x] \in Owning
                        /\ pc[x] = "mutex" => pc'[x] = "mutex"
                        /\ pc[x] \in Owning \cup {"mutex"} => req'[x].addr = req[x].addr
  PROVE  MutexQueue'
  <1>1. \A x \in Req : pc'[x] \in Owning =>
          mutExcl'[req'[x].addr] # <<>> /\ mutExcl'[req'[x].addr][1] = x
    BY DEF MutexQueue, addr
  <1>2. ASSUME NEW a \in Lines, NEW i \in 2 .. Len(mutExcl[a])
        PROVE  LET r == mutExcl[a][i] IN
                 /\ pc'[r] = "mutex" /\ req'[r].addr = a
                 /\ \A j \in 2 .. Len(mutExcl[a]) : mutExcl[a][j] = r => i = j
    <2>1. mutExcl[a] \in Seq(Req)
      BY DEF TypeOK
    <2>2. mutExcl[a][i] \in Req
      BY <2>1
    <2> QED BY <2>2 DEF MutexQueue, addr
  <1> QED BY <1>1, <1>2 DEF MutexQueue, addr

(* What a step that leaves outsReq alone must respect.                     *)
LEMMA OutsFrame ==
  ASSUME TypeOK, OutsQueue, outsReq' = outsReq,
         \A x \in Req : /\ pc'[x] \in Serving => pc[x] \in Serving
                        /\ pc[x] = "outs" => pc'[x] = "outs"
                        /\ pc[x] \in Serving \cup {"outs"} => req'[x].addr = req[x].addr
  PROVE  OutsQueue'
  <1>1. \A x \in Req : pc'[x] \in Serving =>
          LET q == outsReq'[cacheOf(x)][req'[x].addr] IN q # <<>> /\ q[1] = x
    BY DEF OutsQueue, addr
  <1>2. ASSUME NEW c \in Caches, NEW a \in Lines, NEW i \in 2 .. Len(outsReq[c][a])
        PROVE  LET r == outsReq[c][a][i] IN
                 /\ pc'[r] = "outs" /\ cacheOf(r) = c /\ req'[r].addr = a
                 /\ \A j \in 2 .. Len(outsReq[c][a]) : outsReq[c][a][j] = r => i = j
    <2>1. outsReq[c][a] \in Seq(Req)
      BY DEF TypeOK
    <2>2. outsReq[c][a][i] \in Req
      BY <2>1
    <2> QED BY <2>2 DEF OutsQueue, addr
  <1> QED BY <1>1, <1>2 DEF OutsQueue, addr

(* What a step that leaves the snoops alone must respect.                  *)
LEMMA OutstandingFrame ==
  ASSUME Outstanding, UNCHANGED <<snoop, acks, pendReqs>>,
         \A x \in Req : /\ pc'[x] = "snoop" <=> pc[x] = "snoop"
                        /\ pc[x] = "snoop" => (req'[x].op = "MemRead" <=> req[x].op = "MemRead")
  PROVE  Outstanding'
  BY DEF Outstanding, isRead

(* access: the new request goes to the end of its outsReq entry.           *)
LEMMA StepAccess ==
  ASSUME TypeOK, IInv, TypeOK', NEW r \in Req, NEW a \in Lines, NEW op \in MemOp,
         access(r, a, op)
  PROVE  IInv'
  <1> DEFINE c == cacheOf(r)
  <1>a. /\ pc[r] = "idle"
        /\ pc' = [pc EXCEPT ![r] = IF outsReq[c][a] = <<>> THEN "lookup" ELSE "outs"]
        /\ outsReq' = [outsReq EXCEPT ![c][a] = Append(@, r)]
        /\ UNCHANGED <<line, mutExcl, snoop, acks, pendReqs, pendInv, push, stale>>
    BY DEF access, goTo
  <1>b. /\ req'[r].addr = a /\ req'[r].found = FALSE /\ req'[r].state = "INVALID"
        /\ req'[r].supplier = None /\ req'[r].writeDown = FALSE
        /\ req'[r].wToR = FALSE /\ req'[r].op = req'[r].orig
        /\ \A x \in Req \ {r} : req'[x] = req[x]
    BY DEF access, create, TypeOK
  <1>c. /\ pc \in [Req -> Phase] /\ outsReq \in [Caches -> [Lines -> Seq(Req)]]
        /\ c \in Caches /\ mutExcl \in [Lines -> Seq(Req)]
    BY Basics DEF TypeOK
  <1>d. IInv
    OBVIOUS
  <1>e. /\ pc'[r] \in {"lookup", "outs"}
        /\ \A x \in Req : x # r => pc'[x] = pc[x] /\ req'[x] = req[x]
    BY <1>a, <1>b, <1>c
  <1>f. UNCHANGED <<line, mutExcl, snoop, acks, pendReqs, pendInv, push, stale>>
    BY <1>a
  <1>g. pc[r] = "idle"
    BY <1>a
  <1> HIDE DEF c
  <1>1. NoneAbove'
    BY <1>a, <1>c, <1>d DEF IInv, NoneAbove
  <1>2. OutsQueue'
    <2>1. OutsQueue
      BY <1>d DEF IInv
    <2>2. ASSUME NEW x \in Req, pc'[x] \in Serving
          PROVE  LET q == outsReq'[cacheOf(x)][req'[x].addr] IN q # <<>> /\ q[1] = x
      <3>1. CASE x = r
        <4>1. outsReq[c][a] = <<>>
          BY <3>1, <2>2, <1>a, <1>c DEF Serving, Below
        <4>2. outsReq'[c][a] = <<r>>
          BY <4>1, <1>a, <1>c
        <4> QED BY <4>2, <3>1, <1>b DEF c
      <3>2. CASE x # r
        <4>1. outsReq[cacheOf(x)][addr(x)] # <<>> /\ outsReq[cacheOf(x)][addr(x)][1] = x
          BY <3>2, <2>1, <2>2, <1>a, <1>c DEF OutsQueue
        <4>2. cacheOf(x) \in Caches /\ addr(x) \in Lines
          BY Basics
        <4>3. req'[x].addr = addr(x)
          BY <3>2, <1>b DEF addr
        <4>4. \/ outsReq'[cacheOf(x)][addr(x)] = outsReq[cacheOf(x)][addr(x)]
              \/ outsReq'[cacheOf(x)][addr(x)] = Append(outsReq[cacheOf(x)][addr(x)], r)
          BY <4>2, <1>a, <1>c
        <4>5. outsReq[cacheOf(x)][addr(x)] \in Seq(Req)
          BY <4>2, <1>c
        <4> QED BY <4>1, <4>3, <4>4, <4>5
      <3> QED BY <3>1, <3>2
    <2>3. ASSUME NEW d \in Caches, NEW b \in Lines, NEW i \in 2 .. Len(outsReq'[d][b])
          PROVE  LET x == outsReq'[d][b][i] IN
                   /\ pc'[x] = "outs" /\ cacheOf(x) = d /\ req'[x].addr = b
                   /\ \A j \in 2 .. Len(outsReq'[d][b]) : outsReq'[d][b][j] = x => i = j
      <3> DEFINE q == outsReq[d][b]
      <3>1. /\ q \in Seq(Req)
            /\ \A k \in 2 .. Len(q) : /\ pc[q[k]] = "outs" /\ cacheOf(q[k]) = d /\ addr(q[k]) = b
                                      /\ \A j \in 2 .. Len(q) : q[j] = q[k] => k = j
        BY <2>1, <1>c DEF OutsQueue
      <3>2. \A k \in 2 .. Len(q) : q[k] \in Req /\ q[k] # r
        BY <3>1, <1>a
      <3>3. CASE d = c /\ b = a
        <4>1. outsReq'[d][b] = Append(q, r)
          BY <3>3, <1>a, <1>c
        <4>2. /\ Len(Append(q, r)) = Len(q) + 1 /\ Append(q, r)[Len(q) + 1] = r
              /\ \A k \in 1 .. Len(q) : Append(q, r)[k] = q[k]
          BY <3>1
        <4>3. Len(q) \in Nat
          BY <3>1
        <4>4. i > Len(q) => q # <<>>
          BY <4>1, <4>2, <4>3
        <4> QED BY <4>1, <4>2, <4>3, <4>4, <3>1, <3>2, <3>3, <1>a, <1>b, <1>c DEF addr, c
      <3>4. CASE ~(d = c /\ b = a)
        <4>1. outsReq'[d][b] = q
          BY <3>4, <1>a, <1>c
        <4> HIDE DEF q
        <4> QED BY <4>1, <3>1, <3>2, <1>e DEF addr
      <3> QED BY <3>3, <3>4
    <2> QED BY <2>2, <2>3 DEF OutsQueue, addr
  <1>3. MutexQueue'
    <2>1. MutexQueue
      BY <1>d DEF IInv
    <2> QED BY <1>e, <1>f, <1>g, <2>1, MutexFrame DEF Owning, Below
  <1>4. LockedByOwner'
    <2>1. LockedByOwner
      BY <1>d DEF IInv
    <2> QED BY <1>g, <1>e, <1>f, <2>1 DEF LockedByOwner, Below, addr, state
  <1>5. WaitersLine'
    BY <1>a, <1>b, <1>c, <1>d DEF IInv, WaitersLine, Waiting, addr, state, isRead
  <1>6. AnswersHold'
    <2>1. AnswersHold
      BY <1>d DEF IInv
    <2> QED BY <1>e, <1>f, <2>1 DEF AnswersHold, Answered, Unsnooped, Below, addr, isRead
  <1>7. Response'
    <2>1. snoop[r] = {}
      BY <1>a, <1>d DEF IInv, Outstanding
    <2> QED BY <2>1, <1>a, <1>b, <1>c, <1>d DEF IInv, Response, Waiting, Unsnooped, isRead
  <1>8. Operation'
    BY <1>a, <1>b, <1>c, <1>d DEF IInv, Operation
  <1>9. Outstanding'
    BY <1>a, <1>b, <1>c, <1>d DEF IInv, Outstanding, isRead
  <1>10. SingleWriter' /\ DirtyIffStale'
    BY <1>a, <1>d DEF IInv, SingleWriter, DirtyIffStale
  <1> QED BY <1>1, <1>2, <1>3, <1>4, <1>5, <1>6, <1>7, <1>8, <1>9, <1>10 DEF IInv

(* A looked-up line is not locked: the request that locked it would be     *)
(* ahead in outsReq.                                                       *)
LEMMA LookupUnlocked ==
  ASSUME TypeOK, IInv, NEW r \in Req, pc[r] \in {"lookup", "mutex", "send", "retry", "hit", "conclude"}
  PROVE  ~isLocked(state(r))
  <1> SUFFICES ASSUME isLocked(state(r)) PROVE FALSE
    OBVIOUS
  <1>1. PICK x \in Req : cacheOf(x) = cacheOf(r) /\ addr(x) = addr(r) /\ pc[x] \in Below
    BY Basics DEF IInv, LockedByOwner, state
  <1>2. x = r
    BY <1>1, OneServed DEF IInv, Serving
  <1> QED BY <1>1, <1>2 DEF Below

(* doReadHit changes only the phase of the request.                        *)
LEMMA StepReadHit ==
  ASSUME TypeOK, IInv, NEW r \in Req, doReadHit(r)
  PROVE  IInv'
  <1>a. /\ pc[r] = "lookup" /\ pc'[r] = "hit"
        /\ \A x \in Req : x # r => pc'[x] = pc[x]
    BY DEF TypeOK, doReadHit, goTo
  <1>b. UNCHANGED <<line, outsReq, mutExcl, req, snoop, acks, pendReqs, pendInv, push, stale>>
    BY DEF doReadHit
  <1>c. IInv
    OBVIOUS
  <1>1. NoneAbove'
    BY <1>a, <1>b, <1>c DEF IInv, NoneAbove
  <1>2. OutsQueue'
    BY <1>a, <1>b, OutsFrame DEF IInv, Serving
  <1>3. MutexQueue'
    BY <1>a, <1>b, MutexFrame DEF IInv, Owning, Below
  <1>4. LockedByOwner'
    BY <1>a, <1>b, <1>c DEF IInv, LockedByOwner, Below, addr, state
  <1>5. WaitersLine'
    BY <1>a, <1>b, <1>c DEF IInv, WaitersLine, Waiting, addr, state, isRead
  <1>6. AnswersHold'
    BY <1>a, <1>b, <1>c DEF IInv, AnswersHold, Answered, Unsnooped, Below, addr, isRead
  <1>7. Response'
    BY <1>a, <1>b, <1>c DEF IInv, Response, Waiting, Unsnooped, isRead
  <1>8. Operation'
    BY <1>a, <1>b, <1>c DEF IInv, Operation
  <1>9. Outstanding'
    BY <1>a, <1>b, <1>c DEF IInv, Outstanding, isRead
  <1>10. SingleWriter' /\ DirtyIffStale'
    BY <1>b, <1>c DEF IInv, SingleWriter, DirtyIffStale
  <1> QED BY <1>1, <1>2, <1>3, <1>4, <1>5, <1>6, <1>7, <1>8, <1>9, <1>10 DEF IInv

(* doWriteHit: the only cache that could read the line makes it dirty.     *)
LEMMA StepWriteHit ==
  ASSUME TypeOK, IInv, NEW r \in Req, doWriteHit(r)
  PROVE  IInv'
  <1> DEFINE c == cacheOf(r)
             a == addr(r)
  <1>a. /\ pc[r] = "lookup" /\ pc'[r] = "hit"
        /\ \A x \in Req : x # r => pc'[x] = pc[x]
    BY DEF TypeOK, doWriteHit, goTo
  <1>b. UNCHANGED <<outsReq, mutExcl, req, snoop, acks, pendReqs, pendInv, push>>
    BY DEF doWriteHit
  <1>c. IInv
    OBVIOUS
  <1>d. /\ c \in Caches /\ a \in Lines /\ canBeWritten(line[c][a])
        /\ line'[c][a] = "MODIFIED"
        /\ \A d \in Caches, b \in Lines : d # c \/ b # a => line'[d][b] = line[d][b]
        /\ stale'[a] /\ \A b \in Lines : b # a => stale'[b] = stale[b]
    BY Basics DEF doWriteHit, TypeOK, setLine, state
  <1> HIDE DEF c, a
  <1>e. \A x \in Req : cacheOf(x) \in Caches /\ req[x].addr \in Lines
    BY Basics DEF addr
  <1>1. NoneAbove'
    BY <1>a, <1>b, <1>c, <1>d DEF IInv, NoneAbove
  <1>2. OutsQueue'
    BY <1>a, <1>b, OutsFrame DEF IInv, Serving
  <1>3. MutexQueue'
    BY <1>a, <1>b, MutexFrame DEF IInv, Owning, Below
  <1>4. LockedByOwner'
    <2>1. LockedByOwner
      BY <1>c DEF IInv
    <2> QED BY <1>a, <1>b, <1>d, <1>e, <2>1
            DEF LockedByOwner, Below, addr, state, isLocked, Transient, canBeWritten
  <1>5. WaitersLine'
    <2>1. WaitersLine
      BY <1>c DEF IInv
    <2> QED BY <1>a, <1>b, <1>d, <1>e, <2>1 DEF WaitersLine, Waiting, addr, state, isRead, canBeWritten
  <1>6. AnswersHold'
    <2>1. AnswersHold
      BY <1>c DEF IInv
    <2> QED BY <1>a, <1>b, <1>d, <1>e, <2>1
            DEF AnswersHold, Answered, Unsnooped, Below, addr, isRead, canBeWritten
  <1>7. Response'
    BY <1>a, <1>b, <1>c DEF IInv, Response, Waiting, Unsnooped, isRead
  <1>8. Operation'
    BY <1>a, <1>b, <1>c DEF IInv, Operation
  <1>9. Outstanding'
    BY <1>a, <1>b, <1>c DEF IInv, Outstanding, isRead
  <1>10. SingleWriter'
    BY <1>c, <1>d DEF IInv, SingleWriter, canBeWritten, canBeRead, Stable
  <1>11. DirtyIffStale'
    <2>1. \A d \in Caches : d # c => ~isDirty(line[d][a])
      BY <1>c, <1>d DEF IInv, SingleWriter, NoneAbove, isDirty, canBeRead, Stable
    <2> QED BY <2>1, <1>c, <1>d DEF IInv, DirtyIffStale, isDirty
  <1> QED BY <1>1, <1>2, <1>3, <1>4, <1>5, <1>6, <1>7, <1>8, <1>9, <1>10, <1>11 DEF IInv

(* doLookupMiss: the request queues in mutExclBuffer.                      *)
LEMMA StepLookupMiss ==
  ASSUME TypeOK, IInv, TypeOK', NEW r \in Req, doLookupMiss(r)
  PROVE  IInv'
  <1> DEFINE a == addr(r)
  <1>a. /\ pc[r] = "lookup"
        /\ pc'[r] = IF mutExcl[a] = <<>> THEN "send" ELSE "mutex"
        /\ \A x \in Req : x # r => pc'[x] = pc[x] /\ req'[x] = req[x]
    BY DEF TypeOK, doLookupMiss, goTo
  <1>b. UNCHANGED <<line, outsReq, snoop, acks, pendReqs, pendInv, push, stale>>
    BY DEF doLookupMiss
  <1>c. IInv
    OBVIOUS
  <1>d. req'[r] \in {req[r], mutateWriteToRead(req[r])}
    BY DEF doLookupMiss, TypeOK
  <1>e. /\ req'[r].addr = req[r].addr /\ req'[r].found = req[r].found
        /\ req'[r].state = req[r].state /\ req'[r].supplier = req[r].supplier
        /\ req'[r].writeDown = req[r].writeDown /\ req'[r].needSnoop = req[r].needSnoop
        /\ req'[r].orig = req[r].orig
        /\ \/ req'[r].op = req[r].op /\ req'[r].wToR = req[r].wToR
           \/ req[r].op = "MemWrite" /\ req'[r].op = "MemReadW" /\ req'[r].wToR = TRUE
    BY <1>d, Basics DEF mutateWriteToRead, Request
  <1>f. /\ a \in Lines /\ mutExcl[a] \in Seq(Req)
        /\ mutExcl'[a] = Append(mutExcl[a], r)
        /\ \A b \in Lines : b # a => mutExcl'[b] = mutExcl[b]
    BY Basics DEF doLookupMiss, TypeOK
  <1>g. \A x \in Req : /\ req'[x].addr = req[x].addr
                       /\ (req'[x].op = "MemRead") = (req[x].op = "MemRead")
                       /\ req'[x].found = req[x].found
                       /\ req'[x].state = req[x].state /\ req'[x].supplier = req[x].supplier
                       /\ req'[x].writeDown = req[x].writeDown
                       /\ req'[x].needSnoop = req[x].needSnoop
    BY <1>a, <1>e
  <1>1. NoneAbove'
    BY <1>a, <1>b, <1>c DEF IInv, NoneAbove
  <1>2. OutsQueue'
    BY <1>a, <1>b, <1>e, OutsFrame DEF IInv, Serving
  <1>3. MutexQueue'
    <2>1. MutexQueue /\ a = req[r].addr
      BY <1>c DEF IInv, addr
    <2> HIDE DEF a
    <2>2. ASSUME NEW x \in Req, pc'[x] \in Owning
          PROVE  mutExcl'[req'[x].addr] # <<>> /\ mutExcl'[req'[x].addr][1] = x
      <3>1. CASE x = r
        <4>1. mutExcl[a] = <<>> /\ req'[x].addr = a
          BY <3>1, <2>1, <2>2, <1>a, <1>e DEF Owning, Below
        <4> QED BY <4>1, <3>1, <1>f
      <3>2. CASE x # r
        <4>1. /\ req'[x].addr = addr(x) /\ addr(x) \in Lines
              /\ mutExcl[addr(x)] # <<>> /\ mutExcl[addr(x)][1] = x
          BY <3>2, <2>1, <2>2, <1>a, Basics DEF MutexQueue, addr
        <4>2. CASE addr(x) = a
          BY <4>1, <4>2, <1>f
        <4>3. CASE addr(x) # a
          BY <4>1, <4>3, <1>f
        <4> QED BY <4>2, <4>3
      <3> QED BY <3>1, <3>2
    <2>3. ASSUME NEW b \in Lines, NEW i \in 2 .. Len(mutExcl'[b])
          PROVE  LET x == mutExcl'[b][i] IN
                   /\ pc'[x] = "mutex" /\ req'[x].addr = b
                   /\ \A j \in 2 .. Len(mutExcl'[b]) : mutExcl'[b][j] = x => i = j
      <3> DEFINE q == mutExcl[b]
      <3>1. /\ q \in Seq(Req)
            /\ \A k \in 2 .. Len(q) : /\ pc[q[k]] = "mutex" /\ addr(q[k]) = b
                                      /\ \A j \in 2 .. Len(q) : q[j] = q[k] => k = j
        BY <2>1 DEF MutexQueue, TypeOK
      <3>2. \A k \in 2 .. Len(q) : q[k] \in Req /\ q[k] # r
        BY <3>1, <1>a
      <3>3. CASE b = a
        <4>1. mutExcl'[b] = Append(q, r)
          BY <3>3, <1>f
        <4>2. /\ Len(Append(q, r)) = Len(q) + 1 /\ Append(q, r)[Len(q) + 1] = r
              /\ \A k \in 1 .. Len(q) : Append(q, r)[k] = q[k]
          BY <3>1
        <4>3. Len(q) \in Nat
          BY <3>1
        <4>4. i > Len(q) => pc'[r] = "mutex"
          BY <4>1, <4>2, <4>3, <3>3, <1>a
        <4> HIDE DEF q
        <4> QED BY <4>1, <4>2, <4>3, <4>4, <3>1, <3>2, <3>3, <2>1, <1>a, <1>e DEF addr
      <3>4. CASE b # a
        <4>1. mutExcl'[b] = q
          BY <3>4, <1>f
        <4> HIDE DEF q
        <4> QED BY <4>1, <3>1, <3>2, <1>a DEF addr
      <3> QED BY <3>3, <3>4
    <2> QED BY <2>2, <2>3 DEF MutexQueue, addr
  <1>4. LockedByOwner'
    <2>1. LockedByOwner
      BY <1>c DEF IInv
    <2> QED BY <1>a, <1>b, <1>g, <2>1 DEF LockedByOwner, Below, addr, state
  <1>5. WaitersLine'
    <2>1. /\ ~isLocked(state(r))
          /\ IF isRead(r) THEN ~canBeRead(state(r)) ELSE ~canBeWritten(state(r))
      BY DEF doLookupMiss
    <2>2. state(r) \in IF isRead(r) THEN {"INVALID"} ELSE {"INVALID", "SHARED"}
      BY <2>1, Basics DEF LineState, isLocked, canBeRead, canBeWritten, Stable
    <2>3. WaitersLine
      BY <1>c DEF IInv
    <2> QED BY <2>2, <2>3, <1>a, <1>b, <1>g DEF WaitersLine, Waiting, addr, state, isRead
  <1>6. AnswersHold'
    <2>1. AnswersHold
      BY <1>c DEF IInv
    <2> QED BY <1>a, <1>b, <1>g, <2>1 DEF AnswersHold, Answered, Unsnooped, Below, addr, isRead
  <1>7. Response'
    BY <1>a, <1>b, <1>c, <1>g DEF IInv, Response, Waiting, Unsnooped, isRead
  <1>8. Operation'
    BY <1>a, <1>c, <1>e DEF IInv, Operation
  <1>9. Outstanding'
    <2>1. Outstanding
      BY <1>c DEF IInv
    <2> QED BY <1>a, <1>b, <1>g, <2>1 DEF Outstanding, isRead
  <1>10. SingleWriter' /\ DirtyIffStale'
    BY <1>b, <1>c DEF IInv, SingleWriter, DirtyIffStale
  <1> QED BY <1>1, <1>2, <1>3, <1>4, <1>5, <1>6, <1>7, <1>8, <1>9, <1>10 DEF IInv

(* mutateWriteToRead changes at most the operation.                       *)
LEMMA MutateFields ==
  ASSUME NEW q \in Request, NEW p, p = q \/ p = mutateWriteToRead(q)
  PROVE  /\ p \in Request
         /\ p.addr = q.addr /\ p.found = q.found /\ p.state = q.state
         /\ p.supplier = q.supplier /\ p.writeDown = q.writeDown
         /\ p.orig = q.orig /\ p.needSnoop = q.needSnoop
         /\ \/ p.op = q.op /\ p.wToR = q.wToR
            \/ q.op = "MemWrite" /\ p.op = "MemReadW" /\ p.wToR = TRUE
  BY DEF mutateWriteToRead, Request, MemOp

(* sendBelow changes at most the operation and the flags of what is asked. *)
LEMMA SendFields ==
  ASSUME TypeOK, NEW r \in Req, NEW q \in {req[r], mutateWriteToRead(req[r])},
         NEW data \in BOOLEAN, sendBelow(r, q, data)
  PROVE  /\ pc'[r] = "bus" /\ req'[r].needSnoop = TRUE
         /\ \A x \in Req : x # r => pc'[x] = pc[x] /\ req'[x] = req[x]
         /\ req'[r].addr = req[r].addr /\ req'[r].found = req[r].found
         /\ req'[r].state = req[r].state /\ req'[r].supplier = req[r].supplier
         /\ req'[r].writeDown = req[r].writeDown /\ req'[r].orig = req[r].orig
         /\ \/ req'[r].op = req[r].op /\ req'[r].wToR = req[r].wToR
            \/ req[r].op = "MemWrite" /\ req'[r].op = "MemReadW" /\ req'[r].wToR = TRUE
  <1>1. q \in Request
    BY Basics, MutateType
  <1>2. req'[r] = [q EXCEPT !.needData = data, !.needSnoop = TRUE]
    BY DEF sendBelow, TypeOK
  <1>3. /\ req'[r].needSnoop = TRUE
        /\ req'[r].addr = q.addr /\ req'[r].found = q.found
        /\ req'[r].state = q.state /\ req'[r].supplier = q.supplier
        /\ req'[r].writeDown = q.writeDown /\ req'[r].orig = q.orig
        /\ req'[r].op = q.op /\ req'[r].wToR = q.wToR
    BY <1>1, <1>2 DEF Request
  <1>4. pc'[r] = "bus" /\ \A x \in Req : x # r => pc'[x] = pc[x] /\ req'[x] = req[x]
    BY DEF sendBelow, goTo, TypeOK
  <1>5. req[r] \in Request /\ (q = req[r] \/ q = mutateWriteToRead(req[r]))
    BY Basics
  <1>6. /\ q.addr = req[r].addr /\ q.found = req[r].found
        /\ q.state = req[r].state /\ q.supplier = req[r].supplier
        /\ q.writeDown = req[r].writeDown /\ q.orig = req[r].orig
        /\ \/ q.op = req[r].op /\ q.wToR = req[r].wToR
           \/ req[r].op = "MemWrite" /\ q.op = "MemReadW" /\ q.wToR = TRUE
    BY <1>5, MutateFields
  <1> QED BY <1>3, <1>4, <1>6

(* A request goes to the bus and reserves its line; other lines of the set *)
(* may be dropped if they are not locked.                                  *)
LEMMA StepSend ==
  ASSUME TypeOK, IInv, NEW r \in Req, pc[r] \in {"send", "retry"},
         NEW q \in {req[r], mutateWriteToRead(req[r])}, NEW data \in BOOLEAN,
         sendBelow(r, q, data),
         line'[cacheOf(r)][addr(r)] \in {"TRANS_RD", "TRANS_WR"},
         \A d \in Caches, b \in Lines : d # cacheOf(r) \/ b # addr(r) =>
           \/ line'[d][b] = line[d][b]
           \/ line'[d][b] = "INVALID" /\ ~isLocked(line[d][b]),
         UNCHANGED <<outsReq, mutExcl, snoop, acks, pendReqs, pendInv>>,
         DirtyIffStale'
  PROVE  IInv'
  <1> DEFINE c == cacheOf(r)
             a == addr(r)
  <1>a. /\ pc'[r] = "bus" /\ req'[r].needSnoop = TRUE
        /\ \A x \in Req : x # r => pc'[x] = pc[x] /\ req'[x] = req[x]
        /\ req'[r].addr = req[r].addr /\ req'[r].found = req[r].found
        /\ req'[r].state = req[r].state /\ req'[r].supplier = req[r].supplier
        /\ req'[r].writeDown = req[r].writeDown /\ req'[r].orig = req[r].orig
        /\ \/ req'[r].op = req[r].op /\ req'[r].wToR = req[r].wToR
           \/ req[r].op = "MemWrite" /\ req'[r].op = "MemReadW" /\ req'[r].wToR = TRUE
    BY SendFields
  <1>b. \A x \in Req : /\ req'[x].addr = req[x].addr
                       /\ (req'[x].op = "MemRead") = (req[x].op = "MemRead")
    BY <1>a
  <1>c. /\ c \in Caches /\ a \in Lines /\ pc[r] \in {"send", "retry"}
        /\ line'[c][a] \in {"TRANS_RD", "TRANS_WR"}
        /\ \A d \in Caches, b \in Lines : d # c \/ b # a =>
             \/ line'[d][b] = line[d][b]
             \/ line'[d][b] = "INVALID" /\ ~isLocked(line[d][b])
    BY Basics
  <1>d. \A x \in Req : /\ cacheOf(x) \in Caches /\ req[x].addr \in Lines
                       /\ cacheOf(x) = c /\ req[x].addr = a /\ pc[x] \in Serving => x = r
                       /\ req[x].addr = a /\ pc[x] \in Owning => x = r
    BY Basics, OneServed, OneOwner DEF IInv, Serving, Owning, addr
  <1>e. UNCHANGED <<outsReq, mutExcl, snoop, acks, pendReqs, pendInv>>
    OBVIOUS
  <1>f. IInv
    OBVIOUS
  <1>g. req[r].addr = a
    BY DEF addr
  <1> HIDE DEF c, a
  <1>1. NoneAbove'
    BY <1>a, <1>c, <1>e, <1>f DEF IInv, NoneAbove
  <1>2. OutsQueue'
    BY <1>a, <1>b, <1>c, OutsFrame DEF IInv, Serving, Below
  <1>3. MutexQueue'
    BY <1>a, <1>b, <1>c, MutexFrame DEF IInv, Owning, Below
  <1>4. LockedByOwner'
    <2>1. LockedByOwner
      BY <1>f DEF IInv
    <2>2. ASSUME NEW d \in Caches, NEW b \in Lines, isLocked(line'[d][b])
          PROVE  \E x \in Req : cacheOf(x) = d /\ req'[x].addr = b /\ pc'[x] \in Below
      <3>1. CASE d = c /\ b = a
        BY <3>1, <1>a, <1>g DEF Below, c
      <3>2. CASE ~(d = c /\ b = a)
        <4>1. isLocked(line[d][b])
          BY <3>2, <2>2, <1>c DEF isLocked, Transient
        <4>2. PICK x \in Req : cacheOf(x) = d /\ addr(x) = b /\ pc[x] \in Below
          BY <4>1, <2>1 DEF LockedByOwner
        <4>3. x # r
          BY <4>2, <1>c DEF Below
        <4> QED BY <4>2, <4>3, <1>a DEF addr
      <3> QED BY <3>1, <3>2
    <2>3. ASSUME NEW x \in Req, pc'[x] \in Below
          PROVE  isLocked(line'[cacheOf(x)][req'[x].addr])
      <3>1. CASE x = r
        BY <3>1, <1>a, <1>c, <1>g DEF isLocked, Transient, c
      <3>2. CASE x # r
        <4>1. pc[x] \in Below /\ pc[x] \in Serving
          BY <3>2, <2>3, <1>a DEF Serving
        <4>2. isLocked(line[cacheOf(x)][req[x].addr])
          BY <4>1, <2>1 DEF LockedByOwner, state, addr
        <4> QED BY <4>1, <4>2, <3>2, <1>a, <1>c, <1>d
      <3> QED BY <3>1, <3>2
    <2> QED BY <2>2, <2>3 DEF LockedByOwner, addr, state
  <1>5. WaitersLine'
    <2>1. WaitersLine
      BY <1>f DEF IInv
    <2>2. ASSUME NEW x \in Req, pc'[x] \in Waiting
          PROVE  line'[cacheOf(x)][req'[x].addr]
                   \in (IF req'[x].op = "MemRead" THEN {"INVALID"} ELSE {"INVALID", "SHARED"})
      <3>1. x # r /\ pc[x] \in Waiting /\ pc[x] \in Serving /\ req'[x] = req[x]
        BY <2>2, <1>a DEF Waiting, Serving
      <3>2. line[cacheOf(x)][req[x].addr]
                   \in (IF req[x].op = "MemRead" THEN {"INVALID"} ELSE {"INVALID", "SHARED"})
        BY <3>1, <2>1 DEF WaitersLine, state, addr, isRead
      <3> QED BY <3>1, <3>2, <1>c, <1>d
    <2> QED BY <2>2 DEF WaitersLine, addr, state, isRead
  <1>6. AnswersHold'
    <2>1. AnswersHold
      BY <1>f DEF IInv
    <2>2. req[r].found = FALSE
      BY <1>c, <1>f, Basics DEF IInv, Response, Waiting, Request
    <2>3. ASSUME NEW x \in Req, x # r, pc[x] \in Below
          PROVE  /\ req'[x] = req[x] /\ pc'[x] = pc[x]
                 /\ \A d \in Caches : \/ line'[d][req[x].addr] = line[d][req[x].addr]
                                      \/ line'[d][req[x].addr] = "INVALID"
      BY <2>3, <1>a, <1>c, <1>d DEF Owning
    <2> QED BY <2>1, <2>2, <2>3, <1>a, <1>e
            DEF AnswersHold, Answered, Unsnooped, Below, addr, isRead, canBeWritten
  <1>7. Response'
    <2>1. Response
      BY <1>f DEF IInv
    <2> QED BY <2>1, <1>a, <1>b, <1>c, <1>e DEF Response, Waiting, Unsnooped, isRead
  <1>8. Operation'
    BY <1>a, <1>c, <1>f DEF IInv, Operation
  <1>9. Outstanding'
    <2>1. Outstanding
      BY <1>f DEF IInv
    <2>2. \A x \in Req : /\ (pc'[x] = "snoop") = (pc[x] = "snoop")
                         /\ (req'[x].op = "MemRead") = (req[x].op = "MemRead")
      BY <1>a, <1>b, <1>c
    <2> QED BY <1>e, <2>1, <2>2 DEF Outstanding, isRead
  <1>10. SingleWriter'
    BY <1>c, <1>f DEF IInv, SingleWriter, canBeWritten, canBeRead, Stable
  <1> QED BY <1>1, <1>2, <1>3, <1>4, <1>5, <1>6, <1>7, <1>8, <1>9, <1>10 DEF IInv

(* The line a request is about to reserve is not dirty.                    *)
LEMMA ReservedClean ==
  ASSUME TypeOK, IInv, NEW r \in Req, pc[r] \in {"send", "retry"}
  PROVE  ~isDirty(line[cacheOf(r)][addr(r)]) /\ transFor(r) \in {"TRANS_RD", "TRANS_WR"}
  BY DEF IInv, WaitersLine, Waiting, state, isDirty, transFor

(* writeShared and the allocations: a miss is sent below.                  *)
LEMMA StepWriteShared ==
  ASSUME TypeOK, IInv, NEW r \in Req, writeShared(r)
  PROVE  IInv'
  <1>1. /\ pc[r] = "send" /\ sendBelow(r, req[r], FALSE)
        /\ line'[cacheOf(r)][addr(r)] = "TRANS_WR"
        /\ \A d \in Caches, b \in Lines :
             d # cacheOf(r) \/ b # addr(r) => line'[d][b] = line[d][b]
        /\ UNCHANGED <<outsReq, mutExcl, snoop, acks, pendReqs, pendInv, stale>>
    BY Basics DEF writeShared, setLine, TypeOK
  <1>2. DirtyIffStale'
    BY <1>1, ReservedClean, Basics DEF IInv, DirtyIffStale, isDirty
  <1> QED BY <1>1, <1>2, StepSend

(* allocateFree takes a free way.                                          *)
LEMMA StepAllocateFree ==
  ASSUME TypeOK, IInv, NEW r \in Req, allocateFree(r)
  PROVE  IInv'
  <1>1. /\ pc[r] \in {"send", "retry"} /\ sendBelow(r, mutateWriteToRead(req[r]), TRUE)
        /\ line'[cacheOf(r)][addr(r)] = transFor(r)
        /\ \A d \in Caches, b \in Lines :
             d # cacheOf(r) \/ b # addr(r) => line'[d][b] = line[d][b]
        /\ UNCHANGED <<outsReq, mutExcl, snoop, acks, pendReqs, pendInv, stale>>
    BY Basics DEF allocateFree, Allocates, setLine, TypeOK
  <1>2. DirtyIffStale'
    BY <1>1, ReservedClean, Basics DEF IInv, DirtyIffStale, isDirty
  <1> QED BY <1>1, <1>2, StepSend, ReservedClean

(* allocateReplace: a dirty victim is written back as it is dropped.       *)
LEMMA StepAllocateReplace ==
  ASSUME TypeOK, IInv, NEW r \in Req, NEW v \in Lines, allocateReplace(r, v)
  PROVE  IInv'
  <1> DEFINE c == cacheOf(r)
             a == addr(r)
  <1>1. /\ pc[r] \in {"send", "retry"} /\ sendBelow(r, mutateWriteToRead(req[r]), TRUE)
        /\ ~isLocked(line[c][v])
        /\ UNCHANGED <<outsReq, mutExcl, snoop, acks, pendReqs, pendInv>>
    BY DEF allocateReplace, Allocates, replaceable
  <1>2. /\ c \in Caches /\ a \in Lines
        /\ line'[c][a] = transFor(r)
        /\ v # a => line'[c][v] = "INVALID"
        /\ \A d \in Caches, b \in Lines :
             d # c \/ (b # a /\ b # v) => line'[d][b] = line[d][b]
    <2>1. line' = [line EXCEPT ![c] = [@ EXCEPT ![v] = "INVALID", ![a] = transFor(r)]]
      BY DEF allocateReplace
    <2>2. line \in [Caches -> [Lines -> LineState]] /\ c \in Caches /\ a \in Lines
      BY Basics DEF TypeOK
    <2> HIDE DEF c, a
    <2> QED BY <2>1, <2>2
  <1>3. DirtyIffStale'
    <2>1. /\ stale'[v] = IF isDirty(line[c][v]) THEN FALSE ELSE stale[v]
          /\ \A b \in Lines : b # v => stale'[b] = stale[b]
      BY DEF allocateReplace, doWriteBack, TypeOK
    <2>2. DirtyIffStale /\ stale \in [Lines -> BOOLEAN]
      BY DEF IInv, TypeOK
    <2>3. ~isDirty(line[c][a]) /\ transFor(r) \in {"TRANS_RD", "TRANS_WR"}
      BY <1>1, ReservedClean
    <2>4. \A d \in Caches, b \in Lines :
            isDirty(line'[d][b]) <=> isDirty(line[d][b]) /\ ~(d = c /\ b = v)
      BY <1>2, <2>3 DEF isDirty
    <2> HIDE DEF c, a
    <2> QED BY <2>1, <2>2, <2>4, <1>2 DEF DirtyIffStale
  <1> QED BY <1>1, <1>2, <1>3, StepSend, ReservedClean

(* allocateRetry: every way is locked, the request stays.                  *)
LEMMA StepAllocateRetry ==
  ASSUME TypeOK, IInv, NEW r \in Req, allocateRetry(r)
  PROVE  IInv'
  <1>a. /\ pc[r] \in {"send", "retry"} /\ pc'[r] = "retry"
        /\ \A x \in Req : x # r => pc'[x] = pc[x] /\ req'[x] = req[x]
    BY DEF TypeOK, allocateRetry, Allocates, goTo
  <1>b. UNCHANGED <<line, outsReq, mutExcl, snoop, acks, pendReqs, pendInv, push, stale>>
    BY DEF allocateRetry
  <1>c. IInv
    OBVIOUS
  <1>d. req'[r] = mutateWriteToRead(req[r])
    BY DEF allocateRetry, TypeOK
  <1>e. /\ req'[r].addr = req[r].addr /\ req'[r].found = req[r].found
        /\ req'[r].state = req[r].state /\ req'[r].supplier = req[r].supplier
        /\ req'[r].writeDown = req[r].writeDown /\ req'[r].needSnoop = req[r].needSnoop
        /\ req'[r].orig = req[r].orig
        /\ \/ req'[r].op = req[r].op /\ req'[r].wToR = req[r].wToR
           \/ req[r].op = "MemWrite" /\ req'[r].op = "MemReadW" /\ req'[r].wToR = TRUE
    <2>1. req[r] \in Request
      BY Basics
    <2> QED BY <1>d, <2>1, MutateFields
  <1>g. \A x \in Req : /\ req'[x].addr = req[x].addr
                       /\ (req'[x].op = "MemRead") = (req[x].op = "MemRead")
                       /\ req'[x].found = req[x].found
                       /\ req'[x].state = req[x].state /\ req'[x].supplier = req[x].supplier
                       /\ req'[x].writeDown = req[x].writeDown
                       /\ req'[x].needSnoop = req[x].needSnoop
    BY <1>a, <1>e
  <1>1. NoneAbove'
    BY <1>a, <1>b, <1>c DEF IInv, NoneAbove
  <1>2. OutsQueue'
    BY <1>a, <1>b, <1>g, OutsFrame DEF IInv, Serving
  <1>3. MutexQueue'
    BY <1>a, <1>b, <1>g, MutexFrame DEF IInv, Owning
  <1>4. LockedByOwner'
    <2>1. LockedByOwner
      BY <1>c DEF IInv
    <2> QED BY <1>a, <1>b, <1>g, <2>1 DEF LockedByOwner, Below, addr, state
  <1>5. WaitersLine'
    BY <1>a, <1>b, <1>c, <1>g DEF IInv, WaitersLine, Waiting, addr, state, isRead
  <1>6. AnswersHold'
    <2>1. AnswersHold
      BY <1>c DEF IInv
    <2> QED BY <1>a, <1>b, <1>g, <2>1 DEF AnswersHold, Answered, Unsnooped, Below, addr, isRead
  <1>7. Response'
    BY <1>a, <1>b, <1>c, <1>g DEF IInv, Response, Waiting, Unsnooped, isRead
  <1>8. Operation'
    BY <1>a, <1>c, <1>e DEF IInv, Operation
  <1>9. Outstanding'
    <2>1. Outstanding
      BY <1>c DEF IInv
    <2> QED BY <1>a, <1>b, <1>g, <2>1 DEF Outstanding, isRead
  <1>10. SingleWriter' /\ DirtyIffStale'
    BY <1>b, <1>c DEF IInv, SingleWriter, DirtyIffStale
  <1> QED BY <1>1, <1>2, <1>3, <1>4, <1>5, <1>6, <1>7, <1>8, <1>9, <1>10 DEF IInv

(* goToMem and returnAccess: a request nobody answered visits the memory.  *)
LEMMA StepToMem ==
  ASSUME TypeOK, IInv, NEW r \in Req, goToMem(r) \/ returnAccess(r)
  PROVE  IInv'
  <1>a. /\ \/ pc[r] = "bus" /\ ~req[r].needSnoop /\ pc'[r] = "mem"
           \/ pc[r] = "mem" /\ pc'[r] = "return"
        /\ \A x \in Req : x # r => pc'[x] = pc[x]
    <2>1. CASE goToMem(r)
      BY <2>1 DEF TypeOK, goToMem, goTo
    <2>2. CASE returnAccess(r)
      BY <2>2 DEF TypeOK, returnAccess, goTo
    <2> QED BY <2>1, <2>2
  <1>b. UNCHANGED <<line, outsReq, mutExcl, req, snoop, acks, pendReqs, pendInv, stale>>
    BY DEF goToMem, returnAccess
  <1>c. IInv
    OBVIOUS
  <1>1. NoneAbove'
    BY <1>a, <1>b, <1>c DEF IInv, NoneAbove
  <1>2. OutsQueue'
    BY <1>a, <1>b, OutsFrame DEF IInv, Serving, Below
  <1>3. MutexQueue'
    BY <1>a, <1>b, MutexFrame DEF IInv, Owning, Below
  <1>4. LockedByOwner'
    <2>1. LockedByOwner
      BY <1>c DEF IInv
    <2>2. \A x \in Req : pc'[x] \in Below <=> pc[x] \in Below
      BY <1>a DEF Below
    <2> QED BY <1>b, <2>1, <2>2 DEF LockedByOwner, addr, state
  <1>5. WaitersLine'
    BY <1>a, <1>b, <1>c DEF IInv, WaitersLine, Waiting, addr, state, isRead
  <1>6. AnswersHold'
    BY <1>a, <1>b, <1>c DEF IInv, AnswersHold, Answered, Unsnooped, Below, addr, isRead
  <1>7. Response'
    BY <1>a, <1>b, <1>c DEF IInv, Response, Waiting, Unsnooped, isRead
  <1>8. Operation'
    BY <1>a, <1>b, <1>c DEF IInv, Operation
  <1>9. Outstanding'
    BY <1>a, <1>b, <1>c DEF IInv, Outstanding, isRead
  <1>10. SingleWriter' /\ DirtyIffStale'
    BY <1>b, <1>c DEF IInv, SingleWriter, DirtyIffStale
  <1> QED BY <1>1, <1>2, <1>3, <1>4, <1>5, <1>6, <1>7, <1>8, <1>9, <1>10 DEF IInv

(* snoopOthers: the count starts at the number of other caches.            *)
LEMMA StepSnoopOthers ==
  ASSUME TypeOK, IInv, NEW r \in Req, snoopOthers(r)
  PROVE  IInv'
  <1> DEFINE others == Caches \ {cacheOf(r)}
  <1>a. /\ pc[r] = "bus" /\ req[r].needSnoop
        /\ pc'[r] = IF others = {} THEN "return" ELSE "snoop"
        /\ snoop'[r] = others /\ pendReqs'[r] = Cardinality(others)
        /\ \A x \in Req : x # r => /\ pc'[x] = pc[x] /\ snoop'[x] = snoop[x]
                                   /\ pendReqs'[x] = pendReqs[x]
    BY DEF TypeOK, snoopOthers, goTo
  <1>b. UNCHANGED <<line, outsReq, mutExcl, req, acks, pendInv, stale>>
    BY DEF snoopOthers
  <1>c. IInv
    OBVIOUS
  <1>1. NoneAbove'
    BY <1>a, <1>b, <1>c DEF IInv, NoneAbove
  <1>2. OutsQueue'
    BY <1>a, <1>b, OutsFrame DEF IInv, Serving, Below
  <1>3. MutexQueue'
    BY <1>a, <1>b, MutexFrame DEF IInv, Owning, Below
  <1>4. LockedByOwner'
    <2>1. LockedByOwner
      BY <1>c DEF IInv
    <2>2. \A x \in Req : pc'[x] \in Below <=> pc[x] \in Below
      BY <1>a DEF Below
    <2> QED BY <1>b, <2>1, <2>2 DEF LockedByOwner, addr, state
  <1>5. WaitersLine'
    BY <1>a, <1>b, <1>c DEF IInv, WaitersLine, Waiting, addr, state, isRead
  <1>6. AnswersHold'
    <2>1. AnswersHold
      BY <1>c DEF IInv
    <2> QED BY <1>a, <1>b, <2>1 DEF AnswersHold, Answered, Unsnooped, Below, addr, isRead
  <1>7. Response'
    <2>1. Response
      BY <1>c DEF IInv
    <2>2. req[r].supplier = None /\ None \notin others
      BY <1>a, <2>1, CachesAssumption DEF Response, Unsnooped
    <2> QED BY <1>a, <1>b, <2>1, <2>2 DEF Response, Waiting, Unsnooped, isRead
  <1>8. Operation'
    BY <1>a, <1>b, <1>c DEF IInv, Operation
  <1>9. Outstanding'
    <2>1. Outstanding
      BY <1>c DEF IInv
    <2>2. acks[r] = {}
      BY <1>a, <2>1 DEF Outstanding
    <2>3. others \cup {} = others
      OBVIOUS
    <2> QED BY <1>a, <1>b, <2>1, <2>2, <2>3 DEF Outstanding, isRead
  <1>10. SingleWriter' /\ DirtyIffStale'
    BY <1>b, <1>c DEF IInv, SingleWriter, DirtyIffStale
  <1> QED BY <1>1, <1>2, <1>3, <1>4, <1>5, <1>6, <1>7, <1>8, <1>9, <1>10 DEF IInv

(* The bus counts one answer: what is left is counted exactly, and the     *)
(* request goes on when nothing is.                                        *)
LEMMA CountAnswer ==
  ASSUME TypeOK, Outstanding, NEW r \in Req, NEW c \in snoop[r] \cup acks[r],
         pendReqs' = [pendReqs EXCEPT ![r] = @ - 1],
         goTo(r, IF pendReqs[r] - 1 = 0 THEN "return" ELSE pc[r])
  PROVE  LET due == (snoop[r] \cup acks[r]) \ {c} IN
         /\ pc[r] = "snoop"
         /\ pc'[r] = IF due = {} THEN "return" ELSE "snoop"
         /\ pendReqs'[r] = Cardinality(due)
         /\ \A x \in Req : x # r => pc'[x] = pc[x] /\ pendReqs'[x] = pendReqs[x]
  <1> DEFINE due == snoop[r] \cup acks[r]
  <1>1. pc[r] = "snoop"
    BY DEF Outstanding
  <1>2. pendReqs[r] = Cardinality(due) /\ c \in due
    BY <1>1 DEF Outstanding
  <1>3. IsFiniteSet(due)
    <2>1. due \subseteq Caches
      BY DEF TypeOK
    <2> QED BY <2>1, CachesAssumption, FS_Subset
  <1> HIDE DEF due
  <1>4. /\ IsFiniteSet(due \ {c}) /\ Cardinality(due \ {c}) = Cardinality(due) - 1
        /\ Cardinality(due) \in Nat
    BY <1>2, <1>3, FS_RemoveElement, FS_CardinalityType
  <1>5. Cardinality(due \ {c}) = 0 <=> due \ {c} = {}
    BY <1>4, FS_EmptySet
  <1>6. /\ pendReqs'[r] = Cardinality(due \ {c})
        /\ pc'[r] = IF due \ {c} = {} THEN "return" ELSE "snoop"
    BY <1>1, <1>2, <1>4, <1>5 DEF TypeOK, goTo
  <1>7. \A x \in Req : x # r => pc'[x] = pc[x] /\ pendReqs'[x] = pendReqs[x]
    BY DEF TypeOK, goTo
  <1> QED BY <1>1, <1>6, <1>7 DEF due

(* A locked line is its owner's: no other cache answers from one.          *)
LEMMA SnoopedUnlocked ==
  ASSUME TypeOK, IInv, NEW r \in Req, NEW c \in Caches, c \in snoop[r]
  PROVE  /\ pc[r] = "snoop" /\ c # cacheOf(r)
         /\ ~isLocked(line[c][addr(r)])
  <1>1. pc[r] = "snoop" /\ c # cacheOf(r)
    BY DEF IInv, Outstanding
  <1>2. ASSUME isLocked(line[c][addr(r)]) PROVE FALSE
    <2>1. PICK x \in Req : cacheOf(x) = c /\ addr(x) = addr(r) /\ pc[x] \in Below
      BY <1>2, Basics DEF IInv, LockedByOwner
    <2>2. x = r
      BY <1>1, <2>1, OneOwner DEF IInv, Owning, Below
    <2> QED BY <1>1, <2>1, <2>2
  <1> QED BY <1>1, <1>2

(* handlerMiss: a cache without the line answers at once.                  *)
LEMMA StepHandlerMiss ==
  ASSUME TypeOK, IInv, NEW c \in Caches, NEW r \in Req, handlerMiss(c, r)
  PROVE  IInv'
  <1> DEFINE due == (snoop[r] \cup acks[r]) \ {c}
  <1>a. /\ pc[r] = "snoop" /\ c # cacheOf(r) /\ c \in snoop[r]
        /\ line[c][addr(r)] = "INVALID"
    <2>1. c \in snoop[r] /\ (line[c][addr(r)] = "INVALID" \/ isLocked(line[c][addr(r)]))
      BY DEF handlerMiss, Snooped, isValid
    <2> QED BY <2>1, SnoopedUnlocked
  <1>b. /\ pc'[r] = IF due = {} THEN "return" ELSE "snoop"
        /\ pendReqs'[r] = Cardinality(due)
        /\ \A x \in Req : x # r => pc'[x] = pc[x] /\ pendReqs'[x] = pendReqs[x]
    BY <1>a, CountAnswer DEF IInv, handlerMiss, respondBelow
  <1>c. /\ UNCHANGED <<line, outsReq, mutExcl, req, acks, pendInv, push, stale>>
        /\ snoop'[r] = snoop[r] \ {c}
        /\ \A x \in Req : x # r => snoop'[x] = snoop[x]
    <2>1. req[r].supplier # c
      BY <1>a DEF IInv, Response
    <2> QED BY <2>1 DEF handlerMiss, respondBelow, doWriteBack, Snooped, TypeOK
  <1>d. IInv
    OBVIOUS
  <1>e. Outstanding
    BY <1>d DEF IInv
  <1>f. due = snoop'[r] \cup acks[r]
    BY <1>a, <1>c, <1>e DEF Outstanding
  <1> HIDE DEF due
  <1>1. NoneAbove'
    BY <1>a, <1>b, <1>c, <1>d DEF IInv, NoneAbove
  <1>2. OutsQueue'
    BY <1>a, <1>b, <1>c, OutsFrame DEF IInv, Serving, Below
  <1>3. MutexQueue'
    BY <1>a, <1>b, <1>c, MutexFrame DEF IInv, Owning, Below
  <1>4. LockedByOwner'
    <2>1. LockedByOwner
      BY <1>d DEF IInv
    <2>2. \A x \in Req : pc'[x] \in Below <=> pc[x] \in Below
      BY <1>a, <1>b DEF Below
    <2> QED BY <1>c, <2>1, <2>2 DEF LockedByOwner, addr, state
  <1>5. WaitersLine'
    BY <1>a, <1>b, <1>c, <1>d DEF IInv, WaitersLine, Waiting, addr, state, isRead
  <1>6. AnswersHold'
    <2>1. AnswersHold
      BY <1>d DEF IInv
    <2> QED BY <1>a, <1>b, <1>c, <2>1 DEF AnswersHold, Answered, Unsnooped, Below, addr, isRead
  <1>7. Response'
    BY <1>a, <1>b, <1>c, <1>d DEF IInv, Response, Waiting, Unsnooped, isRead
  <1>8. Operation'
    BY <1>a, <1>b, <1>c, <1>d DEF IInv, Operation
  <1>9. Outstanding'
    BY <1>a, <1>b, <1>c, <1>e, <1>f DEF Outstanding, isRead
  <1>10. SingleWriter' /\ DirtyIffStale'
    BY <1>c, <1>d DEF IInv, SingleWriter, DirtyIffStale
  <1> QED BY <1>1, <1>2, <1>3, <1>4, <1>5, <1>6, <1>7, <1>8, <1>9, <1>10 DEF IInv

(* sendInvalidateAck: a cache that dropped the line answers.               *)
LEMMA StepInvalidateAck ==
  ASSUME TypeOK, IInv, NEW c \in Caches, NEW r \in Req, sendInvalidateAck(c, r)
  PROVE  IInv'
  <1> DEFINE due == (snoop[r] \cup acks[r]) \ {c}
  <1>a. pc[r] = "snoop" /\ c \in acks[r] /\ ~isRead(r)
    BY DEF IInv, Outstanding, sendInvalidateAck
  <1>b. /\ pc'[r] = IF due = {} THEN "return" ELSE "snoop"
        /\ pendReqs'[r] = Cardinality(due)
        /\ \A x \in Req : x # r => pc'[x] = pc[x] /\ pendReqs'[x] = pendReqs[x]
    BY <1>a, CountAnswer DEF IInv, sendInvalidateAck, respondBelow
  <1>c. /\ UNCHANGED <<line, outsReq, mutExcl, req, snoop, pendInv, push, stale>>
        /\ acks'[r] = acks[r] \ {c}
        /\ \A x \in Req : x # r => acks'[x] = acks[x]
    <2>1. req[r].writeDown = FALSE
      BY <1>a, Basics DEF IInv, Response, Request
    <2> QED BY <2>1 DEF sendInvalidateAck, respondBelow, doWriteBack, TypeOK
  <1>d. IInv
    OBVIOUS
  <1>e. Outstanding
    BY <1>d DEF IInv
  <1>f. due = snoop[r] \cup acks'[r]
    BY <1>a, <1>c, <1>e DEF Outstanding
  <1> HIDE DEF due
  <1>1. NoneAbove'
    BY <1>a, <1>b, <1>c, <1>d DEF IInv, NoneAbove
  <1>2. OutsQueue'
    BY <1>a, <1>b, <1>c, OutsFrame DEF IInv, Serving, Below
  <1>3. MutexQueue'
    BY <1>a, <1>b, <1>c, MutexFrame DEF IInv, Owning, Below
  <1>4. LockedByOwner'
    <2>1. LockedByOwner
      BY <1>d DEF IInv
    <2>2. \A x \in Req : pc'[x] \in Below <=> pc[x] \in Below
      BY <1>a, <1>b DEF Below
    <2> QED BY <1>c, <2>1, <2>2 DEF LockedByOwner, addr, state
  <1>5. WaitersLine'
    BY <1>a, <1>b, <1>c, <1>d DEF IInv, WaitersLine, Waiting, addr, state, isRead
  <1>6. AnswersHold'
    <2>1. AnswersHold
      BY <1>d DEF IInv
    <2> QED BY <1>a, <1>b, <1>c, <2>1 DEF AnswersHold, Answered, Unsnooped, Below, addr, isRead
  <1>7. Response'
    BY <1>a, <1>b, <1>c, <1>d DEF IInv, Response, Waiting, Unsnooped, isRead
  <1>8. Operation'
    BY <1>a, <1>b, <1>c, <1>d DEF IInv, Operation
  <1>9. Outstanding'
    BY <1>a, <1>b, <1>c, <1>e, <1>f DEF Outstanding, isRead
  <1>10. SingleWriter' /\ DirtyIffStale'
    BY <1>c, <1>d DEF IInv, SingleWriter, DirtyIffStale
  <1> QED BY <1>1, <1>2, <1>3, <1>4, <1>5, <1>6, <1>7, <1>8, <1>9, <1>10 DEF IInv

(* What a snooped cache adds to a response.                                *)
LEMMA CombineFields ==
  ASSUME NEW q \in Request, NEW s \in Stable, NEW c \in Caches
  PROVE  LET p == combineResponses(q, s, c) IN
         /\ p.addr = q.addr /\ p.op = q.op /\ p.orig = q.orig /\ p.wToR = q.wToR
         /\ p.needSnoop = q.needSnoop /\ p.found
         /\ IF s = "SHARED" /\ q.found
              THEN p.state = q.state /\ p.supplier = q.supplier
              ELSE p.state = s /\ p.supplier = c
         /\ (p.writeDown <=> q.writeDown \/ s = "MODIFIED")
  BY DEF combineResponses, Request, Stable

(* The same for a write, whose supplier writes nothing down.               *)
LEMMA ClearFields ==
  ASSUME NEW r \in Req, req[r] \in Request, NEW s \in Stable, NEW c \in Caches
  PROVE  LET p == combineAndClear(r, s, c)
             q == req[r] IN
         /\ p.addr = q.addr /\ p.op = q.op /\ p.orig = q.orig /\ p.wToR = q.wToR
         /\ p.needSnoop = q.needSnoop /\ p.found
         /\ IF s = "SHARED" /\ q.found
              THEN p.state = q.state /\ p.supplier = q.supplier
              ELSE p.state = s /\ p.supplier = c
         /\ (p.writeDown <=> q.writeDown /\ p.supplier # c)
  <1> DEFINE p == combineResponses(req[r], s, c)
  <1>1. p \in Request
    BY CombineType
  <1>2. /\ p.addr = req[r].addr /\ p.op = req[r].op /\ p.orig = req[r].orig
        /\ p.wToR = req[r].wToR /\ p.needSnoop = req[r].needSnoop /\ p.found
        /\ IF s = "SHARED" /\ req[r].found
             THEN p.state = req[r].state /\ p.supplier = req[r].supplier
             ELSE p.state = s /\ p.supplier = c
        /\ (p.writeDown <=> req[r].writeDown \/ s = "MODIFIED")
    BY CombineFields
  <1>3. combineAndClear(r, s, c) = IF p.supplier = c THEN [p EXCEPT !.writeDown = FALSE] ELSE p
    BY DEF combineAndClear
  <1> HIDE DEF p
  <1>4. CASE p.supplier = c
    BY <1>1, <1>2, <1>3, <1>4 DEF Request
  <1>5. CASE p.supplier # c
    BY <1>1, <1>2, <1>3, <1>5 DEF Request
  <1> QED BY <1>4, <1>5

(* A cache that has the line answers: the line becomes SHARED for a read   *)
(* and INVALID for a write, a dirty one leaves for the level below, and    *)
(* the answer tells the requestor that the line was found.                 *)
LEMMA StepAnswer ==
  ASSUME TypeOK, IInv, NEW c \in Caches, NEW r \in Req,
         c \in snoop[r], line[c][addr(r)] \in Stable,
         snoop'[r] = snoop[r] \ {c},
         line'[c][addr(r)] = IF isRead(r) THEN "SHARED" ELSE "INVALID",
         \A d \in Caches, b \in Lines : d # c \/ b # addr(r) => line'[d][b] = line[d][b],
         stale'[addr(r)] = IF line[c][addr(r)] = "MODIFIED" THEN FALSE ELSE stale[addr(r)],
         \A b \in Lines : b # addr(r) => stale'[b] = stale[b],
         pc'[r] \in {"snoop", "return"},
         \A x \in Req : x # r => pc'[x] = pc[x] /\ req'[x] = req[x] /\ snoop'[x] = snoop[x],
         req'[r].addr = req[r].addr, req'[r].op = req[r].op, req'[r].orig = req[r].orig,
         req'[r].wToR = req[r].wToR, req'[r].needSnoop = req[r].needSnoop,
         req'[r].found,
         IF line[c][addr(r)] = "SHARED" /\ req[r].found
           THEN req'[r].state = req[r].state /\ req'[r].supplier = req[r].supplier
           ELSE req'[r].state = line[c][addr(r)] /\ req'[r].supplier = c,
         ~isRead(r) => ~req'[r].writeDown,
         UNCHANGED <<outsReq, mutExcl, pendInv>>,
         Outstanding'
  PROVE  IInv'
  <1> DEFINE a == addr(r)
             s == line[c][a]
  <1>a. /\ pc[r] = "snoop" /\ c # cacheOf(r) /\ c \in snoop[r] /\ s \in Stable
        /\ a \in Lines /\ req[r].addr = a
    BY SnoopedUnlocked, Basics DEF addr
  <1>b. /\ line'[c][a] = IF isRead(r) THEN "SHARED" ELSE "INVALID"
        /\ \A d \in Caches, b \in Lines : d # c \/ b # a => line'[d][b] = line[d][b]
        /\ stale'[a] = IF s = "MODIFIED" THEN FALSE ELSE stale[a]
        /\ \A b \in Lines : b # a => stale'[b] = stale[b]
    OBVIOUS
  <1>c. /\ pc'[r] \in {"snoop", "return"} /\ snoop'[r] = snoop[r] \ {c}
        /\ \A x \in Req : x # r => pc'[x] = pc[x] /\ req'[x] = req[x] /\ snoop'[x] = snoop[x]
    OBVIOUS
  <1>d. /\ req'[r].addr = req[r].addr /\ req'[r].op = req[r].op /\ req'[r].orig = req[r].orig
        /\ req'[r].wToR = req[r].wToR /\ req'[r].needSnoop = req[r].needSnoop
        /\ req'[r].found
        /\ IF s = "SHARED" /\ req[r].found
             THEN req'[r].state = req[r].state /\ req'[r].supplier = req[r].supplier
             ELSE req'[r].state = s /\ req'[r].supplier = c
        /\ ~isRead(r) => ~req'[r].writeDown
    OBVIOUS
  <1>e. UNCHANGED <<outsReq, mutExcl, pendInv>>
    OBVIOUS
  <1>f. IInv
    OBVIOUS
  <1>g. \A x \in Req : /\ req'[x].addr = req[x].addr /\ req'[x].op = req[x].op
                       /\ pc'[x] \in Below <=> pc[x] \in Below
                       /\ x # r => pc'[x] = pc[x] /\ req'[x] = req[x] /\ snoop'[x] = snoop[x]
    BY <1>a, <1>c, <1>d DEF Below
  <1>h. \A x \in Req : /\ cacheOf(x) \in Caches /\ req[x].addr \in Lines
                       /\ req[x].addr = a /\ pc[x] \in Owning => x = r
    BY <1>a, Basics, OneOwner DEF IInv, Owning, Below, addr
  <1> HIDE DEF a, s
  <1>1. NoneAbove'
    <2>1. NoneAbove
      BY <1>f DEF IInv
    <2> QED BY <1>a, <1>b, <1>c, <1>e, <2>1 DEF NoneAbove
  <1>2. OutsQueue'
    BY <1>a, <1>c, <1>e, <1>g, OutsFrame DEF IInv, Serving, Below
  <1>3. MutexQueue'
    BY <1>a, <1>c, <1>e, <1>g, MutexFrame DEF IInv, Owning, Below
  <1>4. LockedByOwner'
    <2>1. LockedByOwner
      BY <1>f DEF IInv
    <2>2. \A d \in Caches, b \in Lines : isLocked(line'[d][b]) <=> isLocked(line[d][b])
      BY <1>a, <1>b DEF isLocked, Transient, Stable, s
    <2> QED BY <1>g, <1>h, <2>1, <2>2 DEF LockedByOwner, addr, state
  <1>5. WaitersLine'
    <2>1. WaitersLine
      BY <1>f DEF IInv
    <2> QED BY <1>a, <1>b, <1>c, <1>g, <1>h, <2>1
            DEF WaitersLine, Waiting, addr, state, isRead, Stable, s
  <1>6. AnswersHold'
    <2>1. AnswersHold
      BY <1>f DEF IInv
    <2>2. \A d \in Caches : ~canBeWritten(line'[d][a])
      <3>1. \A d \in Caches : d # c => ~canBeWritten(line[d][a])
        BY <1>a, <1>f DEF IInv, SingleWriter, canBeRead, canBeWritten, Stable, s
      <3> QED BY <3>1, <1>a, <1>b DEF canBeWritten
    <2>3. ASSUME NEW d \in Caches, Answered(r, d)'
          PROVE  IF isRead(r) THEN \/ line'[d][a] = "INVALID"
                                   \/ line'[d][a] = "SHARED"
                 ELSE line'[d][a] = "INVALID"
      <3>1. CASE d = c
        BY <3>1, <1>b
      <3>2. CASE d # c
        <4>1. Answered(r, d)
          BY <3>2, <2>3, <1>a, <1>c DEF Answered, Unsnooped, Below
        <4> QED BY <4>1, <3>2, <2>1, <1>a, <1>b DEF AnswersHold, addr
      <3> QED BY <3>1, <3>2
    <2>4. ASSUME NEW x \in Req, x # r, pc[x] \in Below
          PROVE  \A d \in Caches : line'[d][req[x].addr] = line[d][req[x].addr]
      BY <2>4, <1>b, <1>h DEF Owning
    <2>5. ASSUME NEW x \in Req, x # r
          PROVE  /\ \A d \in Caches : Answered(x, d)' =>
                     IF req'[x].op = "MemRead"
                       THEN \/ line'[d][req'[x].addr] = "INVALID"
                            \/ line'[d][req'[x].addr] = "SHARED" /\ req'[x].found
                       ELSE line'[d][req'[x].addr] = "INVALID"
                 /\ pc'[x] \in Below /\ req'[x].found =>
                     \A d \in Caches : ~canBeWritten(line'[d][req'[x].addr])
      BY <2>1, <2>4, <2>5, <1>g DEF AnswersHold, Answered, Unsnooped, addr, isRead, canBeWritten
    <2>6. /\ \A d \in Caches : Answered(r, d)' =>
               IF req'[r].op = "MemRead"
                 THEN \/ line'[d][req'[r].addr] = "INVALID"
                      \/ line'[d][req'[r].addr] = "SHARED" /\ req'[r].found
                 ELSE line'[d][req'[r].addr] = "INVALID"
          /\ pc'[r] \in Below /\ req'[r].found =>
               \A d \in Caches : ~canBeWritten(line'[d][req'[r].addr])
      BY <2>2, <2>3, <1>a, <1>d DEF isRead
    <2> QED BY <2>5, <2>6 DEF AnswersHold, addr, isRead
  <1>7. Response'
    <2>1. Response
      BY <1>f DEF IInv
    <2>2. s # "INVALID"
      BY <1>a DEF Stable
    <2> QED BY <1>a, <1>c, <1>d, <2>1, <2>2 DEF Response, Waiting, Unsnooped, isRead
  <1>8. Operation'
    BY <1>a, <1>c, <1>d, <1>f DEF IInv, Operation
  <1>10. SingleWriter'
    <2>1. SingleWriter
      BY <1>f DEF IInv
    <2> QED BY <1>a, <1>b, <2>1 DEF SingleWriter, canBeWritten, canBeRead, Stable, s
  <1>11. DirtyIffStale'
    <2>1. DirtyIffStale
      BY <1>f DEF IInv
    <2>2. isDirty(s) <=> s = "MODIFIED"
      BY <1>a DEF isDirty, Stable
    <2>3. \A d \in Caches, b \in Lines :
            isDirty(line'[d][b]) <=> isDirty(line[d][b]) /\ ~(d = c /\ b = a)
      BY <1>b DEF isDirty
    <2>4. \A b \in Lines : b # a => /\ stale'[b] = stale[b]
                                    /\ \A d \in Caches : isDirty(line'[d][b]) <=> isDirty(line[d][b])
      BY <2>3, <1>b
    <2>5. /\ stale'[a] <=> \E d \in Caches : isDirty(line'[d][a])
          /\ \A d, e \in Caches : isDirty(line'[d][a]) /\ isDirty(line'[e][a]) => d = e
      <3>1. stale'[a] <=> stale[a] /\ ~isDirty(s)
        BY <1>a, <1>b, <2>2 DEF TypeOK
      <3>2. /\ stale[a] <=> \E d \in Caches : isDirty(line[d][a])
            /\ \A d, e \in Caches : isDirty(line[d][a]) /\ isDirty(line[e][a]) => d = e
        BY <1>a, <2>1 DEF DirtyIffStale
      <3> QED BY <3>1, <3>2, <2>3, <1>a DEF s
    <2> QED BY <2>1, <2>4, <2>5 DEF DirtyIffStale
  <1> QED BY <1>1, <1>2, <1>3, <1>4, <1>5, <1>6, <1>7, <1>8, <1>10, <1>11 DEF IInv

(* The supplier of a read writes the line down exactly if it had it dirty. *)
LEMMA SupplierDirty ==
  ASSUME TypeOK, IInv, NEW c \in Caches, NEW r \in Req,
         c \in snoop[r], line[c][addr(r)] \in Stable
  PROVE  LET s == line[c][addr(r)]
             q == combineResponses(req[r], s, c) IN
         (q.supplier = c /\ q.writeDown) <=> s = "MODIFIED"
  <1> DEFINE s == line[c][addr(r)]
             q == combineResponses(req[r], s, c)
  <1>1. /\ IF s = "SHARED" /\ req[r].found
             THEN q.state = req[r].state /\ q.supplier = req[r].supplier
             ELSE q.state = s /\ q.supplier = c
        /\ (q.writeDown <=> req[r].writeDown \/ s = "MODIFIED")
    BY Basics, CombineFields
  <1>2. req[r].found => ~canBeWritten(s)
    BY SnoopedUnlocked DEF IInv, AnswersHold, Below
  <1>3. /\ req[r].found \in BOOLEAN /\ req[r].writeDown \in BOOLEAN
        /\ req[r].supplier # c /\ (~req[r].found => ~req[r].writeDown)
    BY Basics DEF IInv, Response, Request
  <1>4. s \in Stable
    OBVIOUS
  <1> HIDE DEF s, q
  <1>5. (q.supplier = c /\ q.writeDown) <=> s = "MODIFIED"
    BY <1>1, <1>2, <1>3, <1>4 DEF Stable, canBeWritten
  <1> QED BY <1>5 DEF s, q

(* readMissHandler: the holder of the line keeps it SHARED.                *)
LEMMA StepReadMissHandler ==
  ASSUME TypeOK, IInv, NEW c \in Caches, NEW r \in Req, readMissHandler(c, r)
  PROVE  IInv'
  <1> DEFINE a == addr(r)
             s == line[c][a]
             q == combineResponses(req[r], s, c)
             due == (snoop[r] \cup acks[r]) \ {c}
  <1>a. /\ pc[r] = "snoop" /\ c # cacheOf(r) /\ c \in snoop[r] /\ s \in Stable
        /\ isRead(r) /\ a \in Lines
    BY SnoopedUnlocked, StableState, Basics DEF readMissHandler, Snooped, TypeOK
  <1>b. /\ pc'[r] = IF due = {} THEN "return" ELSE "snoop"
        /\ pendReqs'[r] = Cardinality(due)
        /\ \A x \in Req : x # r => pc'[x] = pc[x] /\ pendReqs'[x] = pendReqs[x]
    BY <1>a, CountAnswer DEF IInv, readMissHandler, respondBelow
  <1>c. /\ UNCHANGED <<outsReq, mutExcl, acks, pendInv>>
        /\ snoop'[r] = snoop[r] \ {c} /\ req'[r] = q
        /\ \A x \in Req : x # r => snoop'[x] = snoop[x] /\ req'[x] = req[x]
    BY DEF readMissHandler, Snooped, TypeOK
  <1>d. /\ line'[c][a] = "SHARED"
        /\ \A d \in Caches, b \in Lines : d # c \/ b # a => line'[d][b] = line[d][b]
    BY <1>a DEF readMissHandler, setLine, TypeOK
  <1>e. /\ q.addr = a /\ q.op = req[r].op /\ q.orig = req[r].orig /\ q.wToR = req[r].wToR
        /\ q.needSnoop = req[r].needSnoop /\ q.found
        /\ IF s = "SHARED" /\ req[r].found
             THEN q.state = req[r].state /\ q.supplier = req[r].supplier
             ELSE q.state = s /\ q.supplier = c
        /\ (q.writeDown <=> req[r].writeDown \/ s = "MODIFIED")
    BY <1>a, Basics, CombineFields DEF addr
  <1>g. (q.supplier = c /\ q.writeDown) <=> s = "MODIFIED"
    BY <1>a, SupplierDirty
  <1>h. /\ stale'[a] = IF s = "MODIFIED" THEN FALSE ELSE stale[a]
        /\ \A b \in Lines : b # a => stale'[b] = stale[b]
    <2>1. stale' = IF s = "MODIFIED" THEN [stale EXCEPT ![a] = FALSE] ELSE stale
      BY <1>e, <1>g DEF readMissHandler, respondBelow, doWriteBack
    <2> HIDE DEF s, a
    <2> QED BY <1>a, <2>1 DEF TypeOK
  <1>i. Outstanding'
    <2>1. Outstanding
      BY DEF IInv
    <2>2. due = snoop'[r] \cup acks[r] /\ acks[r] = {}
      BY <1>a, <1>c, <2>1 DEF Outstanding
    <2>3. req'[r].op = req[r].op
      BY <1>c, <1>e
    <2> HIDE DEF due, q, s, a
    <2> QED BY <1>a, <1>b, <1>c, <2>1, <2>2, <2>3 DEF Outstanding, isRead
  <1>j. req[r].addr = a
    BY DEF addr
  <1> HIDE DEF due, q
  <1>k. /\ req'[r].addr = req[r].addr /\ req'[r].op = req[r].op /\ req'[r].orig = req[r].orig
        /\ req'[r].wToR = req[r].wToR /\ req'[r].needSnoop = req[r].needSnoop
        /\ req'[r].found
        /\ IF line[c][addr(r)] = "SHARED" /\ req[r].found
             THEN req'[r].state = req[r].state /\ req'[r].supplier = req[r].supplier
             ELSE req'[r].state = line[c][addr(r)] /\ req'[r].supplier = c
        /\ ~isRead(r) => ~req'[r].writeDown
    BY <1>a, <1>c, <1>e, <1>j
  <1>l. /\ pc'[r] \in {"snoop", "return"}
        /\ \A x \in Req : x # r => pc'[x] = pc[x] /\ req'[x] = req[x] /\ snoop'[x] = snoop[x]
        /\ line'[c][addr(r)] = IF isRead(r) THEN "SHARED" ELSE "INVALID"
    BY <1>a, <1>c, <1>d, <1>b
  <1> QED BY <1>a, <1>c, <1>d, <1>h, <1>i, <1>k, <1>l, StepAnswer

(* writeMissHandler: the holder of the line drops it.                      *)
LEMMA StepWriteMissHandler ==
  ASSUME TypeOK, IInv, NEW c \in Caches, NEW r \in Req, writeMissHandler(c, r)
  PROVE  IInv'
  <1> DEFINE a == addr(r)
             s == line[c][a]
             q == combineAndClear(r, s, c)
  <1>a. /\ pc[r] = "snoop" /\ c # cacheOf(r) /\ c \in snoop[r] /\ s \in Stable
        /\ ~isRead(r) /\ a \in Lines /\ NUpper = 0
    <2>1. NUpper = 0
      BY DEF IInv, NoneAbove
    <2> QED BY <2>1, SnoopedUnlocked, StableState, Basics DEF writeMissHandler, Snooped, TypeOK
  <1>c. /\ UNCHANGED <<outsReq, mutExcl, pc, pendReqs, pendInv>>
        /\ snoop'[r] = snoop[r] \ {c} /\ req'[r] = q /\ acks'[r] = acks[r] \cup {c}
        /\ \A x \in Req : x # r => /\ snoop'[x] = snoop[x] /\ req'[x] = req[x]
                                   /\ acks'[x] = acks[x]
    BY <1>a DEF writeMissHandler, Snooped, TypeOK
  <1>d. /\ line'[c][a] = "INVALID"
        /\ \A d \in Caches, b \in Lines : d # c \/ b # a => line'[d][b] = line[d][b]
    BY <1>a DEF writeMissHandler, setLine, TypeOK
  <1>e. /\ q.addr = a /\ q.op = req[r].op /\ q.orig = req[r].orig /\ q.wToR = req[r].wToR
        /\ q.needSnoop = req[r].needSnoop /\ q.found
        /\ IF s = "SHARED" /\ req[r].found
             THEN q.state = req[r].state /\ q.supplier = req[r].supplier
             ELSE q.state = s /\ q.supplier = c
        /\ (q.writeDown <=> req[r].writeDown /\ q.supplier # c)
    BY <1>a, Basics, ClearFields DEF addr
  <1>f. ~q.writeDown
    BY <1>a, <1>e DEF IInv, Response
  <1>h. /\ stale'[a] = IF s = "MODIFIED" THEN FALSE ELSE stale[a]
        /\ \A b \in Lines : b # a => stale'[b] = stale[b]
    <2>1. isDirty(s) <=> s = "MODIFIED"
      BY <1>a DEF isDirty, Stable
    <2>2. stale' = IF isDirty(s) THEN [stale EXCEPT ![a] = FALSE] ELSE stale
      BY <1>a DEF writeMissHandler, doWriteBack
    <2> HIDE DEF s, a
    <2> QED BY <1>a, <2>1, <2>2 DEF TypeOK
  <1>i. Outstanding'
    <2>1. Outstanding
      BY DEF IInv
    <2>2. snoop'[r] \cup acks'[r] = snoop[r] \cup acks[r] /\ snoop'[r] \cap acks'[r] = {}
      BY <1>a, <1>c, <2>1 DEF Outstanding
    <2>3. req'[r].op = req[r].op
      BY <1>c, <1>e
    <2> HIDE DEF q, s, a
    <2> QED BY <1>a, <1>c, <2>1, <2>2, <2>3 DEF Outstanding, isRead
  <1>j. req[r].addr = a
    BY DEF addr
  <1> HIDE DEF q
  <1>k. /\ req'[r].addr = req[r].addr /\ req'[r].op = req[r].op /\ req'[r].orig = req[r].orig
        /\ req'[r].wToR = req[r].wToR /\ req'[r].needSnoop = req[r].needSnoop
        /\ req'[r].found
        /\ IF line[c][addr(r)] = "SHARED" /\ req[r].found
             THEN req'[r].state = req[r].state /\ req'[r].supplier = req[r].supplier
             ELSE req'[r].state = line[c][addr(r)] /\ req'[r].supplier = c
        /\ ~isRead(r) => ~req'[r].writeDown
    BY <1>a, <1>c, <1>e, <1>j, <1>f
  <1>l. /\ pc'[r] \in {"snoop", "return"}
        /\ \A x \in Req : x # r => pc'[x] = pc[x] /\ req'[x] = req[x] /\ snoop'[x] = snoop[x]
        /\ line'[c][addr(r)] = IF isRead(r) THEN "SHARED" ELSE "INVALID"
    BY <1>a, <1>c, <1>d
  <1> QED BY <1>a, <1>c, <1>d, <1>h, <1>i, <1>k, <1>l, StepAnswer

(* When a request returns, every other cache has answered.                 *)
LEMMA AllAnswered ==
  ASSUME TypeOK, IInv, NEW r \in Req, pc[r] = "return"
  PROVE  /\ isLocked(state(r))
         /\ \A d \in Caches : d # cacheOf(r) =>
              IF isRead(r)
                THEN \/ line[d][addr(r)] = "INVALID"
                     \/ line[d][addr(r)] = "SHARED" /\ req[r].state # "INVALID"
                ELSE line[d][addr(r)] = "INVALID"
  <1>1. snoop[r] = {}
    BY DEF IInv, Outstanding
  <1>2. \A d \in Caches : d # cacheOf(r) => Answered(r, d)
    BY <1>1 DEF Answered, Unsnooped, Below
  <1>3. req[r].found => req[r].state # "INVALID"
    BY DEF IInv, Response
  <1>4. isLocked(state(r))
    BY DEF IInv, LockedByOwner, Below
  <1> QED BY <1>2, <1>3, <1>4 DEF IInv, AnswersHold

(* missAckToMem: the line was nowhere, the memory is asked.                *)
LEMMA StepMissAckToMem ==
  ASSUME TypeOK, IInv, NEW r \in Req, missAckToMem(r)
  PROVE  IInv'
  <1> DEFINE c == cacheOf(r)
             a == addr(r)
  <1>a. /\ pc[r] = "return" /\ pc'[r] = "bus" /\ req'[r] = [req[r] EXCEPT !.needSnoop = FALSE]
        /\ \A x \in Req : x # r => pc'[x] = pc[x] /\ req'[x] = req[x]
    BY DEF TypeOK, missAckToMem, goTo
  <1>b. UNCHANGED <<outsReq, mutExcl, snoop, acks, pendReqs, pendInv, push, stale>>
    BY DEF missAckToMem
  <1>c. IInv
    OBVIOUS
  <1>d. /\ c \in Caches /\ a \in Lines /\ isLocked(line[c][a])
        /\ line'[c][a] \in {"TRANS_RD_MEM", "TRANS_WR_MEM"}
        /\ \A d \in Caches, b \in Lines : d # c \/ b # a => line'[d][b] = line[d][b]
    <2>1. /\ c \in Caches /\ a \in Lines
          /\ line'[c][a] \in {"TRANS_RD_MEM", "TRANS_WR_MEM"}
          /\ \A d \in Caches, b \in Lines : d # c \/ b # a => line'[d][b] = line[d][b]
      BY Basics DEF missAckToMem, TypeOK, setLine
    <2> QED BY <1>a, <2>1, AllAnswered DEF state
  <1>e. /\ req'[r].addr = req[r].addr /\ req'[r].found = req[r].found
        /\ req'[r].state = req[r].state /\ req'[r].supplier = req[r].supplier
        /\ req'[r].writeDown = req[r].writeDown /\ req'[r].orig = req[r].orig
        /\ req'[r].op = req[r].op /\ req'[r].wToR = req[r].wToR
        /\ ~req'[r].needSnoop
    BY <1>a, Basics DEF Request
  <1>f. \A x \in Req : /\ cacheOf(x) \in Caches /\ req[x].addr \in Lines
                       /\ req'[x].addr = req[x].addr /\ req'[x].op = req[x].op
                       /\ req'[x].found = req[x].found
                       /\ pc'[x] \in Below <=> pc[x] \in Below
                       /\ cacheOf(x) = c /\ req[x].addr = a /\ pc[x] \in Serving => x = r
                       /\ req[x].addr = a /\ pc[x] \in Owning => x = r
    BY <1>a, <1>e, Basics, OneServed, OneOwner DEF IInv, Serving, Owning, Below, addr
  <1>g. req[r].addr = a
    BY DEF addr
  <1> HIDE DEF c, a
  <1>1. NoneAbove'
    BY <1>a, <1>b, <1>c, <1>d DEF IInv, NoneAbove
  <1>2. OutsQueue'
    BY <1>a, <1>b, <1>f, OutsFrame DEF IInv, Serving, Below
  <1>3. MutexQueue'
    BY <1>a, <1>b, <1>f, MutexFrame DEF IInv, Owning, Below
  <1>4. LockedByOwner'
    <2>1. LockedByOwner
      BY <1>c DEF IInv
    <2>2. \A d \in Caches, b \in Lines : isLocked(line'[d][b]) <=> isLocked(line[d][b])
      BY <1>d DEF isLocked, Transient
    <2> QED BY <1>f, <2>1, <2>2 DEF LockedByOwner, addr, state
  <1>5. WaitersLine'
    <2>1. WaitersLine
      BY <1>c DEF IInv
    <2> QED BY <1>a, <1>d, <1>f, <2>1 DEF WaitersLine, Waiting, Serving, addr, state, isRead
  <1>6. AnswersHold'
    <2>1. AnswersHold
      BY <1>c DEF IInv
    <2>2. \A x \in Req, d \in Caches : pc'[x] \in Below =>
            /\ x # r \/ d # c => line'[d][req[x].addr] = line[d][req[x].addr]
            /\ Answered(x, d)' => Answered(x, d)
            /\ canBeWritten(line'[d][req[x].addr]) => canBeWritten(line[d][req[x].addr])
      BY <1>a, <1>b, <1>d, <1>e, <1>f DEF Answered, Unsnooped, Below, Owning, canBeWritten
    <2>3. \A d \in Caches : Answered(r, d) => d # c
      BY DEF Answered, c
    <2>4. \A x \in Req, d \in Caches : Answered(x, d)' => pc'[x] \in Below
      BY DEF Answered
    <2> QED BY <1>f, <2>1, <2>2, <2>3, <2>4 DEF AnswersHold, addr, isRead
  <1>7. Response'
    <2>1. Response
      BY <1>c DEF IInv
    <2> QED BY <1>a, <1>b, <1>e, <2>1 DEF Response, Waiting, Unsnooped, isRead
  <1>8. Operation'
    BY <1>a, <1>c, <1>e DEF IInv, Operation
  <1>9. Outstanding'
    <2>1. Outstanding
      BY <1>c DEF IInv
    <2>2. \A x \in Req : (pc'[x] = "snoop") = (pc[x] = "snoop") /\ req'[x].op = req[x].op
      BY <1>a, <1>f
    <2> QED BY <1>b, <2>1, <2>2 DEF Outstanding, isRead
  <1>10. SingleWriter'
    BY <1>c, <1>d DEF IInv, SingleWriter, canBeWritten, canBeRead, Stable
  <1>11. DirtyIffStale'
    <2>1. \A d \in Caches, b \in Lines : isDirty(line'[d][b]) <=> isDirty(line[d][b])
      BY <1>c, <1>d DEF IInv, NoneAbove, isDirty, isLocked, Transient
    <2> QED BY <1>b, <1>c, <2>1 DEF IInv, DirtyIffStale
  <1> QED BY <1>1, <1>2, <1>3, <1>4, <1>5, <1>6, <1>7, <1>8, <1>9, <1>10, <1>11 DEF IInv

(* A request is answered and its line unlocked, in a state that the        *)
(* answers of the other caches justify.                                    *)
LEMMA StepAck ==
  ASSUME TypeOK, IInv, NEW r \in Req, pc[r] = "return", pc'[r] = "conclude",
         \A x \in Req : x # r => pc'[x] = pc[x] /\ req'[x] = req[x],
         req'[r].addr = req[r].addr, req'[r].found = req[r].found,
         req'[r].state = req[r].state, req'[r].supplier = req[r].supplier,
         req'[r].writeDown = req[r].writeDown, req'[r].orig = req[r].orig,
         req'[r].op = req'[r].orig, ~req'[r].wToR,
         (req'[r].op = "MemRead") = (req[r].op = "MemRead"),
         UNCHANGED <<outsReq, mutExcl, snoop, acks, pendReqs, pendInv>>,
         line'[cacheOf(r)][addr(r)] \in Stable,
         \A d \in Caches, b \in Lines :
           d # cacheOf(r) \/ b # addr(r) => line'[d][b] = line[d][b],
         SingleWriter', DirtyIffStale'
  PROVE  IInv'
  <1> DEFINE c == cacheOf(r)
             a == addr(r)
  <1>a. /\ pc[r] = "return" /\ pc'[r] = "conclude"
        /\ \A x \in Req : x # r => pc'[x] = pc[x] /\ req'[x] = req[x]
    OBVIOUS
  <1>b. UNCHANGED <<outsReq, mutExcl, snoop, acks, pendReqs, pendInv>>
    OBVIOUS
  <1>c. IInv
    OBVIOUS
  <1>d. /\ c \in Caches /\ a \in Lines /\ isLocked(line[c][a]) /\ line'[c][a] \in Stable
        /\ \A d \in Caches, b \in Lines : d # c \/ b # a => line'[d][b] = line[d][b]
    BY <1>a, AllAnswered, Basics DEF state
  <1>e. /\ req'[r].addr = req[r].addr /\ req'[r].found = req[r].found
        /\ req'[r].state = req[r].state /\ req'[r].supplier = req[r].supplier
        /\ req'[r].writeDown = req[r].writeDown
        /\ req'[r].op = req'[r].orig /\ ~req'[r].wToR
        /\ (req'[r].op = "MemRead") = (req[r].op = "MemRead")
    OBVIOUS
  <1>f. \A x \in Req : /\ cacheOf(x) \in Caches /\ req[x].addr \in Lines
                       /\ req'[x].addr = req[x].addr
                       /\ (req'[x].op = "MemRead") = (req[x].op = "MemRead")
                       /\ req'[x].found = req[x].found
                       /\ pc'[x] \in Below => pc[x] \in Below /\ x # r
                       /\ cacheOf(x) = c /\ req[x].addr = a /\ pc[x] \in Serving => x = r
                       /\ req[x].addr = a /\ pc[x] \in Owning => x = r
    BY <1>a, <1>e, Basics, OneServed, OneOwner DEF IInv, Serving, Owning, Below, addr
  <1>g. req[r].addr = a
    BY DEF addr
  <1> HIDE DEF c, a
  <1>1. NoneAbove'
    BY <1>a, <1>b, <1>c, <1>d DEF IInv, NoneAbove, Stable
  <1>2. OutsQueue'
    BY <1>a, <1>b, <1>f, OutsFrame DEF IInv, Serving, Below
  <1>3. MutexQueue'
    BY <1>a, <1>b, <1>f, MutexFrame DEF IInv, Owning, Below
  <1>4. LockedByOwner'
    <2>1. LockedByOwner
      BY <1>c DEF IInv
    <2>2. ASSUME NEW d \in Caches, NEW b \in Lines, isLocked(line'[d][b])
          PROVE  \E x \in Req : cacheOf(x) = d /\ req'[x].addr = b /\ pc'[x] \in Below
      <3>1. d # c \/ b # a
        BY <2>2, <1>d DEF isLocked, Transient, Stable
      <3>2. PICK x \in Req : cacheOf(x) = d /\ addr(x) = b /\ pc[x] \in Below
        BY <3>1, <2>1, <2>2, <1>d DEF LockedByOwner
      <3>3. x # r
        BY <3>1, <3>2, <1>g DEF c, addr
      <3> QED BY <3>2, <3>3, <1>a DEF addr
    <2>3. ASSUME NEW x \in Req, pc'[x] \in Below
          PROVE  isLocked(line'[cacheOf(x)][req'[x].addr])
      <3>1. pc[x] \in Below /\ pc[x] \in Serving /\ x # r
        BY <2>3, <1>f DEF Serving
      <3>2. isLocked(line[cacheOf(x)][req[x].addr])
        BY <3>1, <2>1 DEF LockedByOwner, addr, state
      <3> QED BY <3>1, <3>2, <1>d, <1>f
    <2> QED BY <2>2, <2>3 DEF LockedByOwner, addr, state
  <1>5. WaitersLine'
    <2>1. WaitersLine
      BY <1>c DEF IInv
    <2>2. \A x \in Req : pc'[x] \in Waiting =>
            x # r /\ pc[x] \in Waiting /\ pc[x] \in Serving
      BY <1>a DEF Waiting, Serving
    <2> QED BY <1>a, <1>d, <1>f, <2>1, <2>2 DEF WaitersLine, addr, state, isRead
  <1>6. AnswersHold'
    <2>1. AnswersHold
      BY <1>c DEF IInv
    <2>2. \A x \in Req, d \in Caches : pc'[x] \in Below =>
            /\ line'[d][req[x].addr] = line[d][req[x].addr]
            /\ Answered(x, d)' => Answered(x, d)
      BY <1>a, <1>b, <1>d, <1>f DEF Answered, Unsnooped, Owning
    <2>3. \A x \in Req, d \in Caches : Answered(x, d)' => pc'[x] \in Below
      BY DEF Answered
    <2> QED BY <1>f, <2>1, <2>2, <2>3 DEF AnswersHold, addr, isRead, canBeWritten
  <1>7. Response'
    <2>1. Response
      BY <1>c DEF IInv
    <2> QED BY <1>a, <1>b, <1>e, <2>1 DEF Response, Waiting, Unsnooped, isRead
  <1>8. Operation'
    BY <1>a, <1>c, <1>e DEF IInv, Operation
  <1>9. Outstanding'
    <2>1. Outstanding
      BY <1>c DEF IInv
    <2>2. \A x \in Req : /\ pc'[x] = "snoop" <=> pc[x] = "snoop"
                         /\ req'[x].op = "MemRead" <=> req[x].op = "MemRead"
      BY <1>a, <1>f
    <2> QED BY <1>b, <2>1, <2>2, OutstandingFrame
  <1> QED BY <1>1, <1>2, <1>3, <1>4, <1>5, <1>6, <1>7, <1>8, <1>9 DEF IInv

(* readMissAck: EXCLUSIVE if nobody answered, SHARED otherwise.            *)
LEMMA StepReadMissAck ==
  ASSUME TypeOK, IInv, NEW r \in Req, readMissAck(r)
  PROVE  IInv'
  <1> DEFINE c == cacheOf(r)
             a == addr(r)
  <1>a. /\ pc[r] = "return" /\ pc'[r] = "conclude" /\ isRead(r)
        /\ \A x \in Req : x # r => pc'[x] = pc[x]
        /\ UNCHANGED <<outsReq, mutExcl, req, snoop, acks, pendReqs, pendInv, push, stale>>
    BY DEF TypeOK, readMissAck, goTo
  <1>b. req[r].op = req[r].orig /\ ~req[r].wToR
    BY <1>a DEF IInv, Operation, isRead
  <1>c. /\ c \in Caches /\ a \in Lines
        /\ line'[c][a] = IF req[r].state = "INVALID" THEN "EXCLUSIVE" ELSE "SHARED"
        /\ \A d \in Caches, b \in Lines : d # c \/ b # a => line'[d][b] = line[d][b]
    BY Basics DEF readMissAck, TypeOK, setLine
  <1>d. /\ isLocked(line[c][a])
        /\ \A d \in Caches : d # c =>
             \/ line[d][a] = "INVALID"
             \/ line[d][a] = "SHARED" /\ req[r].state # "INVALID"
    BY <1>a, AllAnswered DEF state
  <1>1. SingleWriter'
    <2>1. SingleWriter
      BY DEF IInv
    <2> HIDE DEF c, a
    <2> QED BY <1>c, <1>d, <2>1 DEF SingleWriter, canBeWritten, canBeRead, Stable
  <1>2. DirtyIffStale'
    <2>1. \A d \in Caches, b \in Lines : isDirty(line'[d][b]) <=> isDirty(line[d][b])
      BY <1>c, <1>d DEF IInv, NoneAbove, isDirty, isLocked, Transient
    <2> QED BY <1>a, <2>1 DEF IInv, DirtyIffStale
  <1>3. line'[c][a] \in Stable
    BY <1>c DEF Stable
  <1> QED BY <1>a, <1>b, <1>c, <1>1, <1>2, <1>3, StepAck

(* writeMissAck: every other cache has dropped the line.                   *)
LEMMA StepWriteMissAck ==
  ASSUME TypeOK, IInv, NEW r \in Req, writeMissAck(r)
  PROVE  IInv'
  <1> DEFINE c == cacheOf(r)
             a == addr(r)
  <1>a. /\ pc[r] = "return" /\ pc'[r] = "conclude" /\ ~isRead(r)
        /\ req'[r] = mutateReadToWrite(req[r])
        /\ \A x \in Req : x # r => pc'[x] = pc[x] /\ req'[x] = req[x]
        /\ UNCHANGED <<outsReq, mutExcl, snoop, acks, pendReqs, pendInv, push>>
    BY DEF TypeOK, writeMissAck, goTo
  <1>b. /\ req'[r].addr = req[r].addr /\ req'[r].found = req[r].found
        /\ req'[r].state = req[r].state /\ req'[r].supplier = req[r].supplier
        /\ req'[r].writeDown = req[r].writeDown /\ req'[r].orig = req[r].orig
        /\ IF req[r].wToR THEN req'[r].op = "MemWrite" ELSE req'[r].op = req[r].op
        /\ ~req'[r].wToR
    BY <1>a, Basics DEF mutateReadToWrite, Request
  <1>c. /\ c \in Caches /\ a \in Lines /\ line'[c][a] = "MODIFIED"
        /\ \A d \in Caches, b \in Lines : d # c \/ b # a => line'[d][b] = line[d][b]
        /\ stale'[a] /\ \A b \in Lines : b # a => stale'[b] = stale[b]
    BY Basics DEF writeMissAck, TypeOK, setLine
  <1>d. /\ isLocked(line[c][a])
        /\ \A d \in Caches : d # c => line[d][a] = "INVALID"
    BY <1>a, AllAnswered DEF state
  <1>e. /\ req'[r].op = req'[r].orig
        /\ (req'[r].op = "MemRead") = (req[r].op = "MemRead")
    BY <1>a, <1>b DEF IInv, Operation, isRead
  <1>1. SingleWriter'
    <2>1. SingleWriter
      BY DEF IInv
    <2> HIDE DEF c, a
    <2> QED BY <1>c, <1>d, <2>1 DEF SingleWriter, canBeWritten, canBeRead, Stable
  <1>2. DirtyIffStale'
    <2>1. DirtyIffStale
      BY DEF IInv
    <2> HIDE DEF c, a
    <2> QED BY <1>c, <1>d, <2>1 DEF DirtyIffStale, isDirty
  <1>3. line'[c][a] \in Stable
    BY <1>c DEF Stable
  <1> QED BY <1>a, <1>b, <1>c, <1>e, <1>1, <1>2, <1>3, StepAck

(* retireOuts hands the outsReq entry to the next waiter.                  *)
LEMMA StepRetireOuts ==
  ASSUME TypeOK, IInv, NEW r \in Req, retireOuts(r)
  PROVE  IInv'
  <1> DEFINE c == cacheOf(r)
             a == addr(r)
             q == outsReq[c][a]
             rest == Tail(q)
             n == Head(rest)
  <1>a. /\ pc[r] \in {"hit", "conclude"} /\ q # <<>> /\ q \in Seq(Req)
        /\ c \in Caches /\ a \in Lines
        /\ outsReq' = [outsReq EXCEPT ![c][a] = rest]
        /\ UNCHANGED <<line, mutExcl, snoop, acks, pendReqs, pendInv, push, stale>>
    BY Basics DEF retireOuts, TypeOK
  <1>b. /\ q[1] = r
        /\ \A i \in 2 .. Len(q) : /\ q[i] \in Req /\ pc[q[i]] = "outs"
                                  /\ cacheOf(q[i]) = c /\ addr(q[i]) = a
                                  /\ \A j \in 2 .. Len(q) : q[j] = q[i] => i = j
    BY <1>a DEF IInv, OutsQueue, Serving
  <1>c. /\ rest \in Seq(Req) /\ Len(q) \in Nat /\ Len(q) # 0 /\ Len(rest) = Len(q) - 1
        /\ \A i \in 1 .. Len(rest) : rest[i] = q[i + 1]
        /\ rest # <<>> => Len(q) >= 2 /\ n = q[2]
    BY <1>a
  <1>d. rest # <<>> => n \in Req /\ pc[n] = "outs" /\ cacheOf(n) = c /\ addr(n) = a /\ n # r
    BY <1>a, <1>b, <1>c
  <1>e. /\ pc'[r] = IF pc[r] = "hit" THEN "idle" ELSE "release"
        /\ rest # <<>> => pc'[n] = "lookup"
        /\ \A x \in Req : x # r /\ (rest # <<>> => x # n) => pc'[x] = pc[x]
    BY <1>d DEF retireOuts, goTo, TypeOK
  <1>f. /\ req'[r] = IF pc[r] = "hit" THEN create(a, "MemRead") ELSE req[r]
        /\ \A x \in Req : x # r => req'[x] = req[x]
    BY <1>a DEF retireOuts, TypeOK, addr
  <1>g. /\ req'[r].addr = a
        /\ pc[r] = "hit" => /\ ~req'[r].found /\ req'[r].state = "INVALID"
                            /\ req'[r].supplier = None /\ ~req'[r].writeDown
                            /\ ~req'[r].wToR /\ req'[r].op = req'[r].orig
        /\ pc[r] = "conclude" => req'[r] = req[r]
    BY <1>a, <1>f DEF create, addr
  <1>h. IInv /\ req[r].addr = a
    BY DEF addr
  <1>i. \A x \in Req : /\ req'[x].addr = req[x].addr
                       /\ \/ pc'[x] = pc[x] /\ req'[x] = req[x] /\ x # r
                          \/ pc[x] = "outs" /\ pc'[x] = "lookup" /\ req'[x] = req[x] /\ x # r
                          \/ x = r /\ pc[x] = "hit" /\ pc'[x] = "idle"
                          \/ x = r /\ pc[x] = "conclude" /\ pc'[x] = "release" /\ req'[x] = req[x]
    BY <1>a, <1>d, <1>e, <1>f, <1>g, <1>h
  <1>j. UNCHANGED <<line, mutExcl, snoop, acks, pendReqs, pendInv, push, stale>>
    BY <1>a
  <1> HIDE DEF c, a, q, rest, n
  <1>1. NoneAbove'
    BY <1>i, <1>j, <1>h DEF IInv, NoneAbove
  <1>2. OutsQueue'
    <2>1. OutsQueue
      BY <1>h DEF IInv
    <2>a. /\ outsReq'[c][a] = rest
          /\ \A d \in Caches, b \in Lines : d # c \/ b # a => outsReq'[d][b] = outsReq[d][b]
      BY <1>a DEF TypeOK
    <2>2. ASSUME NEW x \in Req, pc'[x] \in Serving
          PROVE  LET p == outsReq'[cacheOf(x)][req'[x].addr] IN p # <<>> /\ p[1] = x
      <3>1. CASE rest # <<>> /\ x = n
        BY <3>1, <2>a, <1>c, <1>d, <1>f DEF n, addr
      <3>2. CASE ~(rest # <<>> /\ x = n)
        <4>1. x # r /\ pc[x] \in Serving /\ req'[x].addr = addr(x)
          BY <3>2, <2>2, <1>a, <1>e, <1>f DEF Serving, Below, addr
        <4>2. /\ outsReq[cacheOf(x)][addr(x)] # <<>> /\ outsReq[cacheOf(x)][addr(x)][1] = x
              /\ cacheOf(x) \in Caches /\ addr(x) \in Lines
          BY <4>1, <2>1, Basics DEF OutsQueue
        <4>3. cacheOf(x) # c \/ addr(x) # a
          BY <4>1, <4>2, <1>b DEF q
        <4> QED BY <4>1, <4>2, <4>3, <2>a
      <3> QED BY <3>1, <3>2
    <2>3. ASSUME NEW d \in Caches, NEW b \in Lines, NEW i \in 2 .. Len(outsReq'[d][b])
          PROVE  LET x == outsReq'[d][b][i] IN
                   /\ pc'[x] = "outs" /\ cacheOf(x) = d /\ req'[x].addr = b
                   /\ \A j \in 2 .. Len(outsReq'[d][b]) : outsReq'[d][b][j] = x => i = j
      <3>1. CASE d = c /\ b = a
        <4>1. /\ i + 1 \in 3 .. Len(q) /\ rest[i] = q[i + 1] /\ Len(q) >= 2
              /\ \A j \in 2 .. Len(rest) : j + 1 \in 3 .. Len(q) /\ rest[j] = q[j + 1]
              /\ rest # <<>>
          BY <3>1, <2>a, <1>c
        <4>2. q[i + 1] # n /\ q[i + 1] # r /\ q[i + 1] \in Req /\ pc[q[i + 1]] = "outs"
          BY <4>1, <1>a, <1>b, <1>c
        <4>3. pc'[q[i + 1]] = "outs" /\ req'[q[i + 1]].addr = a /\ cacheOf(q[i + 1]) = c
          BY <4>1, <4>2, <1>b, <1>c, <1>e, <1>f DEF addr
        <4>4. \A j \in 2 .. Len(rest) : rest[j] = rest[i] => i = j
          BY <4>1, <1>b, <1>c
        <4> QED BY <4>1, <4>3, <4>4, <3>1, <2>a
      <3>2. CASE d # c \/ b # a
        <4> DEFINE p == outsReq[d][b]
        <4>1. /\ outsReq'[d][b] = p /\ p \in Seq(Req)
              /\ \A k \in 2 .. Len(p) : /\ pc[p[k]] = "outs" /\ cacheOf(p[k]) = d /\ addr(p[k]) = b
                                        /\ \A j \in 2 .. Len(p) : p[j] = p[k] => k = j
          BY <3>2, <2>a, <2>1 DEF OutsQueue, TypeOK
        <4> HIDE DEF p
        <4>2. p[i] \in Req /\ p[i] # r /\ (rest # <<>> => p[i] # n)
          BY <4>1, <3>2, <1>a, <1>d
        <4> QED BY <4>1, <4>2, <1>e, <1>f DEF addr
      <3> QED BY <3>1, <3>2
    <2> QED BY <2>2, <2>3 DEF OutsQueue, addr
  <1>3. MutexQueue'
    BY <1>i, <1>j, <1>h, MutexFrame DEF IInv, Owning, Below
  <1>4. LockedByOwner'
    <2>1. LockedByOwner
      BY <1>h DEF IInv
    <2>2. \A x \in Req : pc'[x] \in Below <=> pc[x] \in Below
      BY <1>i DEF Below
    <2> QED BY <1>i, <1>j, <2>1, <2>2 DEF LockedByOwner, addr, state
  <1>5. WaitersLine'
    <2>1. WaitersLine
      BY <1>h DEF IInv
    <2> QED BY <1>i, <1>j, <2>1 DEF WaitersLine, Waiting, addr, state, isRead
  <1>6. AnswersHold'
    <2>1. AnswersHold
      BY <1>h DEF IInv
    <2> QED BY <1>i, <1>j, <2>1 DEF AnswersHold, Answered, Unsnooped, Below, addr, isRead
  <1>7. Response'
    <2>1. Response /\ snoop[r] = {}
      BY <1>a, <1>h DEF IInv, Outstanding
    <2> QED BY <1>g, <1>i, <1>j, <2>1 DEF Response, Waiting, Unsnooped, isRead
  <1>8. Operation'
    <2>1. Operation
      BY <1>h DEF IInv
    <2> QED BY <1>g, <1>i, <2>1 DEF Operation
  <1>9. Outstanding'
    <2>1. Outstanding
      BY <1>h DEF IInv
    <2>2. \A x \in Req : /\ pc'[x] = "snoop" <=> pc[x] = "snoop"
                         /\ pc[x] = "snoop" => req'[x].op = req[x].op
      BY <1>i
    <2> QED BY <1>j, <2>1, <2>2 DEF Outstanding, isRead
  <1>10. SingleWriter' /\ DirtyIffStale'
    BY <1>h, <1>j DEF IInv, SingleWriter, DirtyIffStale
  <1> QED BY <1>1, <1>2, <1>3, <1>4, <1>5, <1>6, <1>7, <1>8, <1>9, <1>10 DEF IInv

(* retireMutExcl hands the mutExclBuffer entry to the next waiter.         *)
LEMMA StepRetireMutExcl ==
  ASSUME TypeOK, IInv, NEW r \in Req, retireMutExcl(r)
  PROVE  IInv'
  <1> DEFINE a == addr(r)
             q == mutExcl[a]
             rest == Tail(q)
             n == Head(rest)
  <1>a. /\ pc[r] = "release" /\ q # <<>> /\ q \in Seq(Req) /\ a \in Lines
        /\ mutExcl' = [mutExcl EXCEPT ![a] = rest]
        /\ UNCHANGED <<line, outsReq, snoop, acks, pendReqs, pendInv, push, stale>>
    BY Basics DEF retireMutExcl, TypeOK
  <1>b. /\ q[1] = r
        /\ \A i \in 2 .. Len(q) : /\ q[i] \in Req /\ pc[q[i]] = "mutex" /\ addr(q[i]) = a
                                  /\ \A j \in 2 .. Len(q) : q[j] = q[i] => i = j
    BY <1>a DEF IInv, MutexQueue, Owning
  <1>c. /\ rest \in Seq(Req) /\ Len(q) \in Nat /\ Len(q) # 0 /\ Len(rest) = Len(q) - 1
        /\ \A i \in 1 .. Len(rest) : rest[i] = q[i + 1]
        /\ rest # <<>> => Len(q) >= 2 /\ n = q[2]
    BY <1>a
  <1>d. rest # <<>> => n \in Req /\ pc[n] = "mutex" /\ addr(n) = a /\ n # r
    BY <1>a, <1>b, <1>c
  <1>e. /\ pc'[r] = "idle"
        /\ rest # <<>> => pc'[n] = "send"
        /\ \A x \in Req : x # r /\ (rest # <<>> => x # n) => pc'[x] = pc[x]
    BY <1>d DEF retireMutExcl, goTo, TypeOK
  <1>f. /\ req'[r] = create(a, "MemRead")
        /\ \A x \in Req : x # r => req'[x] = req[x]
    BY DEF retireMutExcl, TypeOK, addr
  <1>g. /\ req'[r].addr = a
        /\ ~req'[r].found /\ req'[r].state = "INVALID"
        /\ req'[r].supplier = None /\ ~req'[r].writeDown
        /\ ~req'[r].wToR /\ req'[r].op = req'[r].orig
    BY <1>f DEF create
  <1>h. IInv /\ req[r].addr = a
    BY DEF addr
  <1>i. \A x \in Req : /\ req'[x].addr = req[x].addr
                       /\ \/ pc'[x] = pc[x] /\ req'[x] = req[x] /\ x # r
                          \/ pc[x] = "mutex" /\ pc'[x] = "send" /\ req'[x] = req[x] /\ x # r
                          \/ x = r /\ pc[x] = "release" /\ pc'[x] = "idle"
    BY <1>a, <1>d, <1>e, <1>f, <1>g, <1>h
  <1>j. UNCHANGED <<line, outsReq, snoop, acks, pendReqs, pendInv, push, stale>>
    BY <1>a
  <1> HIDE DEF a, q, rest, n
  <1>1. NoneAbove'
    BY <1>i, <1>j, <1>h DEF IInv, NoneAbove
  <1>2. OutsQueue'
    BY <1>i, <1>j, <1>h, OutsFrame DEF IInv, Serving, Below
  <1>3. MutexQueue'
    <2>1. MutexQueue
      BY <1>h DEF IInv
    <2>a. /\ mutExcl'[a] = rest
          /\ \A b \in Lines : b # a => mutExcl'[b] = mutExcl[b]
      BY <1>a DEF TypeOK
    <2>2. ASSUME NEW x \in Req, pc'[x] \in Owning
          PROVE  mutExcl'[req'[x].addr] # <<>> /\ mutExcl'[req'[x].addr][1] = x
      <3>1. CASE rest # <<>> /\ x = n
        BY <3>1, <2>a, <1>c, <1>d, <1>f DEF n, addr
      <3>2. CASE ~(rest # <<>> /\ x = n)
        <4>1. x # r /\ pc[x] \in Owning /\ req'[x].addr = addr(x)
          BY <3>2, <2>2, <1>a, <1>e, <1>f DEF Owning, Below, addr
        <4>2. /\ mutExcl[addr(x)] # <<>> /\ mutExcl[addr(x)][1] = x /\ addr(x) \in Lines
          BY <4>1, <2>1, Basics DEF MutexQueue
        <4>3. addr(x) # a
          BY <4>1, <4>2, <1>b DEF q
        <4> QED BY <4>1, <4>2, <4>3, <2>a
      <3> QED BY <3>1, <3>2
    <2>3. ASSUME NEW b \in Lines, NEW i \in 2 .. Len(mutExcl'[b])
          PROVE  LET x == mutExcl'[b][i] IN
                   /\ pc'[x] = "mutex" /\ req'[x].addr = b
                   /\ \A j \in 2 .. Len(mutExcl'[b]) : mutExcl'[b][j] = x => i = j
      <3>1. CASE b = a
        <4>1. /\ i + 1 \in 3 .. Len(q) /\ rest[i] = q[i + 1] /\ Len(q) >= 2
              /\ \A j \in 2 .. Len(rest) : j + 1 \in 3 .. Len(q) /\ rest[j] = q[j + 1]
              /\ rest # <<>>
          BY <3>1, <2>a, <1>c
        <4>2. q[i + 1] # n /\ q[i + 1] # r /\ q[i + 1] \in Req /\ pc[q[i + 1]] = "mutex"
          BY <4>1, <1>a, <1>b, <1>c
        <4>3. pc'[q[i + 1]] = "mutex" /\ req'[q[i + 1]].addr = a
          BY <4>1, <4>2, <1>b, <1>c, <1>e, <1>f DEF addr
        <4>4. \A j \in 2 .. Len(rest) : rest[j] = rest[i] => i = j
          BY <4>1, <1>b, <1>c
        <4> QED BY <4>1, <4>3, <4>4, <3>1, <2>a
      <3>2. CASE b # a
        <4> DEFINE p == mutExcl[b]
        <4>1. /\ mutExcl'[b] = p /\ p \in Seq(Req)
              /\ \A k \in 2 .. Len(p) : /\ pc[p[k]] = "mutex" /\ addr(p[k]) = b
                                        /\ \A j \in 2 .. Len(p) : p[j] = p[k] => k = j
          BY <3>2, <2>a, <2>1 DEF MutexQueue, TypeOK
        <4> HIDE DEF p
        <4>2. p[i] \in Req /\ p[i] # r /\ (rest # <<>> => p[i] # n)
          BY <4>1, <3>2, <1>a, <1>d
        <4> QED BY <4>1, <4>2, <1>e, <1>f DEF addr
      <3> QED BY <3>1, <3>2
    <2> QED BY <2>2, <2>3 DEF MutexQueue, addr
  <1>4. LockedByOwner'
    <2>1. LockedByOwner
      BY <1>h DEF IInv
    <2>2. \A x \in Req : pc'[x] \in Below <=> pc[x] \in Below
      BY <1>i DEF Below
    <2> QED BY <1>i, <1>j, <2>1, <2>2 DEF LockedByOwner, addr, state
  <1>5. WaitersLine'
    <2>1. WaitersLine
      BY <1>h DEF IInv
    <2> QED BY <1>i, <1>j, <2>1 DEF WaitersLine, Waiting, addr, state, isRead
  <1>6. AnswersHold'
    <2>1. AnswersHold
      BY <1>h DEF IInv
    <2> QED BY <1>i, <1>j, <2>1 DEF AnswersHold, Answered, Unsnooped, Below, addr, isRead
  <1>7. Response'
    <2>1. Response /\ snoop[r] = {}
      BY <1>a, <1>h DEF IInv, Outstanding
    <2> QED BY <1>g, <1>i, <1>j, <2>1 DEF Response, Waiting, Unsnooped, isRead
  <1>8. Operation'
    <2>1. Operation
      BY <1>h DEF IInv
    <2> QED BY <1>g, <1>i, <2>1 DEF Operation
  <1>9. Outstanding'
    <2>1. Outstanding
      BY <1>h DEF IInv
    <2>2. \A x \in Req : /\ pc'[x] = "snoop" <=> pc[x] = "snoop"
                         /\ pc[x] = "snoop" => req'[x].op = req[x].op
      BY <1>i
    <2> QED BY <1>j, <2>1, <2>2 DEF Outstanding, isRead
  <1>10. SingleWriter' /\ DirtyIffStale'
    BY <1>h, <1>j DEF IInv, SingleWriter, DirtyIffStale
  <1> QED BY <1>1, <1>2, <1>3, <1>4, <1>5, <1>6, <1>7, <1>8, <1>9, <1>10 DEF IInv

(* The invariant holds initially.                                          *)
LEMMA InvInit ==
  ASSUME NUpper = 0, Init
  PROVE  IInv
  <1>a. /\ \A c \in Caches, a \in Lines : /\ line[c][a] = "INVALID" /\ outsReq[c][a] = <<>>
                                          /\ pendInv[c][a] = NoInv
        /\ \A a \in Lines : mutExcl[a] = <<>> /\ stale[a] = FALSE
        /\ \A r \in Req : /\ pc[r] = "idle" /\ snoop[r] = {} /\ acks[r] = {}
    BY DEF Init
  <1>b. \A r \in Req : /\ req[r].found = FALSE /\ req[r].state = "INVALID"
                       /\ req[r].supplier = None /\ req[r].writeDown = FALSE
                       /\ req[r].wToR = FALSE /\ req[r].op = req[r].orig
    BY DEF Init, create
  <1>1. NoneAbove
    BY <1>a DEF NoneAbove
  <1>2. OutsQueue
    BY <1>a DEF OutsQueue, Serving, Below
  <1>3. MutexQueue
    BY <1>a DEF MutexQueue, Owning, Below
  <1>4. LockedByOwner /\ WaitersLine
    BY <1>a DEF LockedByOwner, WaitersLine, Waiting, Below, isLocked, Transient
  <1>5. AnswersHold
    BY <1>a DEF AnswersHold, Answered, Below
  <1>6. Response /\ Operation
    BY <1>a, <1>b DEF Response, Operation
  <1>7. Outstanding
    BY <1>a DEF Outstanding
  <1>8. SingleWriter /\ DirtyIffStale
    BY <1>a DEF SingleWriter, DirtyIffStale, canBeWritten, isDirty
  <1> QED BY <1>1, <1>2, <1>3, <1>4, <1>5, <1>6, <1>7, <1>8 DEF IInv

(* With no caches above, nothing waits for them.                           *)
LEMMA NothingAbove ==
  ASSUME IInv
  PROVE  /\ \A r \in Req : ~doAllocateLine(r) /\ \A v \in Lines : ~allocateInvalidate(r, v)
         /\ \A c \in Caches, a \in Lines :
              ~doInvalidateMore(c, a) /\ ~doInvalidateLine(c, a) /\ ~doInvalidateVictim(c, a)
  <1>1. \A r \in Req : ~doAllocateLine(r)
    BY DEF IInv, NoneAbove, doAllocateLine
  <1>2. \A r \in Req, v \in Lines : ~allocateInvalidate(r, v)
    <2>1. NUpper = 0
      BY DEF IInv, NoneAbove
    <2>2. ~(NUpper > 0)
      BY <2>1
    <2> QED BY <2>2 DEF allocateInvalidate
  <1>3. \A c \in Caches, a \in Lines :
          ~doInvalidateMore(c, a) /\ ~doInvalidateLine(c, a) /\ ~doInvalidateVictim(c, a)
    <2>1. \A c \in Caches, a \in Lines : pendInv[c][a].resps = 0
      BY DEF IInv, NoneAbove, NoInv
    <2> QED BY <2>1 DEF doInvalidateMore, doInvalidateLine, doInvalidateVictim
  <1> QED BY <1>1, <1>2, <1>3

(* A step that leaves all but the write-backs in flight alone.             *)
LEMMA StepLineOnly ==
  ASSUME IInv, UNCHANGED <<line, outsReq, mutExcl, pc, req, snoop, acks, pendReqs, pendInv, stale>>
  PROVE  IInv'
  <1> USE DEF IInv
  <1>1. NoneAbove' /\ SingleWriter' /\ DirtyIffStale'
    BY DEF NoneAbove, SingleWriter, DirtyIffStale
  <1>2. OutsQueue' /\ MutexQueue'
    BY DEF OutsQueue, MutexQueue, addr
  <1>3. LockedByOwner' /\ WaitersLine'
    BY DEF LockedByOwner, WaitersLine, addr, state, isRead
  <1>4. AnswersHold'
    BY DEF AnswersHold, Answered, Unsnooped, addr, isRead
  <1>5. Response' /\ Operation' /\ Outstanding'
    BY DEF Response, Operation, Outstanding, Unsnooped, isRead
  <1> QED BY <1>1, <1>2, <1>3, <1>4, <1>5

(* Every step preserves the invariant.                                     *)
LEMMA InvNext ==
  ASSUME TypeOK, IInv, [Next]_vars
  PROVE  IInv'
  <1>t. TypeOK'
    BY TypeNext
  <1>1. ASSUME NEW r \in Req, NEW a \in Lines, NEW op \in MemOp, access(r, a, op) PROVE IInv'
    BY <1>1, <1>t, StepAccess
  <1>2. ASSUME NEW r \in Req, CacheStep(r) PROVE IInv'
    <2>1. CASE doLookupLocked(r)
      BY <2>1, LookupUnlocked DEF doLookupLocked
    <2>2. CASE doAllocateLine(r)
      BY <2>2, NothingAbove
    <2>3. ASSUME NEW v \in Lines, allocateReplace(r, v) \/ allocateInvalidate(r, v) PROVE IInv'
      BY <2>3, StepAllocateReplace, NothingAbove
    <2> QED BY <1>2, <1>t, <2>1, <2>2, <2>3, StepReadHit, StepWriteHit, StepLookupMiss,
               StepWriteShared, StepAllocateFree, StepAllocateRetry, StepMissAckToMem,
               StepReadMissAck, StepWriteMissAck, StepRetireOuts, StepRetireMutExcl
            DEF CacheStep
  <1>3. ASSUME NEW r \in Req, BusStep(r) PROVE IInv'
    BY <1>3, StepToMem, StepSnoopOthers DEF BusStep
  <1>4. ASSUME NEW c \in Caches, NEW r \in Req, SnoopStep(c, r) PROVE IInv'
    BY <1>4, StepHandlerMiss, StepReadMissHandler, StepWriteMissHandler, StepInvalidateAck
       DEF SnoopStep
  <1>5. ASSUME NEW c \in Caches, NEW a \in Lines, LineStep(c, a) PROVE IInv'
    <2>1. CASE doPush(c, a)
      BY <2>1, StepLineOnly DEF doPush
    <2> QED BY <1>5, <2>1, NothingAbove DEF LineStep
  <1>6. CASE UNCHANGED vars
    BY <1>6, StepLineOnly DEF vars
  <1> QED BY <1>1, <1>2, <1>3, <1>4, <1>5, <1>6 DEF Next, Access, Callback

(* The invariant of the SMP system without caches above: for every number  *)
(* of caches, requests, lines and ways, each of its parts holds in every   *)
(* reachable state.                                                        *)
THEOREM InductiveInvariant ==
  ASSUME NUpper = 0
  PROVE  Spec => [](TypeOK /\ IInv)
  <1>1. Init => TypeOK /\ IInv
    BY TypeInit, InvInit
  <1>2. (TypeOK /\ IInv) /\ [Next]_vars => (TypeOK /\ IInv)'
    BY TypeNext, InvNext
  <1> QED BY <1>1, <1>2, PTL DEF Spec

(* Single writer, multiple readers, for every number of caches: a cache    *)
(* that may write a line is the only one that may read it, whatever the    *)
(* order of hits, replacements, snoop answers and nested callbacks.        *)
THEOREM Coherent == 
  ASSUME NUpper = 0
  PROVE  Spec => []SingleWriter
  <1>1. TypeOK /\ IInv => SingleWriter
    BY DEF IInv
  <1> QED BY <1>1, InductiveInvariant, PTL

(* Dirty data is neither lost nor invented: the level below lacks the last *)
(* write of a line exactly when one cache, and only one, holds it dirty.   *)
THEOREM NothingLost ==
  ASSUME NUpper = 0
  PROVE  Spec => []DirtyIffStale
  <1>1. TypeOK /\ IInv => DirtyIffStale
    BY DEF IInv
  <1> QED BY <1>1, InductiveInvariant, PTL

(* The assertions of MESIProtocol::read and write hold: when a request has *)
(* waited in mutExclBuffer, its line is absent, or SHARED for a write.     *)
THEOREM SendAssertionHolds ==
  ASSUME NUpper = 0
  PROVE  Spec => []SendFindsLine
  <1>1. TypeOK /\ IInv => SendFindsLine
    BY DEF IInv, WaitersLine, Waiting, SendFindsLine
  <1> QED BY <1>1, InductiveInvariant, PTL

(* An access is acknowledged as the operation the processor issued,        *)
(* although it may have travelled as MemReadW.                             *)
THEOREM OperationKept ==
  ASSUME NUpper = 0
  PROVE  Spec => []AckKeepsOperation
  <1>1. TypeOK /\ IInv => AckKeepsOperation
    BY DEF IInv, Operation, AckKeepsOperation
  <1> QED BY <1>1, InductiveInvariant, PTL

(* pendReqsTable counts exactly the answers that are still due, for every  *)
(* number of caches.                                                       *)
THEOREM AnswersCounted ==
  ASSUME NUpper = 0
  PROVE  Spec => []SnoopsAccounted
  <1>1. ASSUME TypeOK, IInv PROVE SnoopsAccounted
    <2>1. ASSUME NEW r \in Req
          PROVE  {c \in Caches : \/ c \in snoop[r] \/ c \in acks[r]
                                 \/ pendInv[c][addr(r)].cb = r
                                      /\ pendInv[c][addr(r)].invalidate}
                   = snoop[r] \cup acks[r]
      <3>1. \A c \in Caches : ~pendInv[c][addr(r)].invalidate
        BY <1>1, Basics DEF IInv, NoneAbove, NoInv
      <3>2. snoop[r] \subseteq Caches /\ acks[r] \subseteq Caches
        BY <1>1 DEF TypeOK
      <3> QED BY <3>1, <3>2
    <2> QED BY <1>1, <2>1 DEF IInv, Outstanding, SnoopsAccounted
  <1> QED BY <1>1, InductiveInvariant, PTL

(* A write-back leaves a cache only for a line that is dirty there.        *)
LEMMA PushOfDirty ==
  ASSUME TypeOK, IInv, NEW c \in Caches, NEW a \in Lines, NEW needed \in BOOLEAN,
         doWriteBack(needed, c, a), needed => isDirty(line[c][a])
  PROVE  \A d \in Caches, b \in Lines : push'[d][b] > push[d][b] => stale[b]
  <1>1. push \in [Caches -> [Lines -> Nat]]
    BY DEF TypeOK
  <1>2. CASE needed
    <2>1. stale[a]
      BY <1>2 DEF IInv, DirtyIffStale
    <2>2. \A d \in Caches, b \in Lines : d # c \/ b # a => push'[d][b] = push[d][b]
      BY <1>1, <1>2 DEF doWriteBack
    <2>3. \A d \in Caches, b \in Lines : ~(push[d][b] > push[d][b])
      BY <1>1
    <2> QED BY <2>1, <2>2, <2>3
  <1>3. CASE ~needed
    <2>1. push' = push
      BY <1>3 DEF doWriteBack
    <2> QED BY <1>1, <2>1
  <1> QED BY <1>2, <1>3

(* A step without a write-back keeps the count.                            *)
LEMMA PushKept ==
  ASSUME TypeOK, push' = push
  PROVE  \A d \in Caches, b \in Lines : push'[d][b] > push[d][b] => stale[b]
  <1>1. push \in [Caches -> [Lines -> Nat]]
    BY DEF TypeOK
  <1> QED BY <1>1

(* No step writes back a line the level below already has.                 *)
LEMMA PushNext ==
  ASSUME TypeOK, IInv, Next
  PROVE  \A c \in Caches, a \in Lines : push'[c][a] > push[c][a] => stale[a]
  <1> DEFINE Once == \A c \in Caches, a \in Lines : push'[c][a] > push[c][a] => stale[a]
  <1>1. ASSUME NEW r \in Req, NEW v \in Lines, allocateReplace(r, v) PROVE Once
    <2>1. doWriteBack(isDirty(line[cacheOf(r)][v]), cacheOf(r), v)
      BY <1>1 DEF allocateReplace
    <2>2. isDirty(line[cacheOf(r)][v]) \in BOOLEAN
      BY DEF isDirty
    <2> QED BY <2>1, <2>2, Basics, PushOfDirty
  <1>2. ASSUME NEW c \in Caches, NEW r \in Req, handlerMiss(c, r) PROVE Once
    <2>1. req[r].supplier # c
      BY <1>2 DEF IInv, Response, handlerMiss, Snooped
    <2>2. push' = push
      BY <1>2, <2>1 DEF handlerMiss, respondBelow, doWriteBack
    <2> QED BY <2>2, PushKept
  <1>3. ASSUME NEW c \in Caches, NEW r \in Req, readMissHandler(c, r) PROVE Once
    <2> DEFINE s == line[c][addr(r)]
               q == combineResponses(req[r], s, c)
               w == q.supplier = c /\ q.writeDown
    <2>1. c \in snoop[r] /\ s \in Stable /\ addr(r) \in Lines
      BY <1>3, StableState, Basics DEF readMissHandler, Snooped, TypeOK
    <2>2. w => isDirty(s)
      BY <2>1, SupplierDirty DEF isDirty
    <2>3. q.addr = addr(r)
      BY <2>1, Basics, CombineFields DEF addr
    <2>4. doWriteBack(w, c, addr(r))
      BY <1>3, <2>3 DEF readMissHandler, respondBelow
    <2>5. w \in BOOLEAN
      OBVIOUS
    <2> HIDE DEF w
    <2> QED BY <2>1, <2>2, <2>4, <2>5, PushOfDirty
  <1>4. ASSUME NEW c \in Caches, NEW r \in Req, writeMissHandler(c, r) PROVE Once
    <2> DEFINE w == isDirty(line[c][addr(r)])
    <2>1. NUpper = 0
      BY DEF IInv, NoneAbove
    <2>2. doWriteBack(w, c, addr(r)) /\ w \in BOOLEAN
      BY <1>4, <2>1 DEF writeMissHandler, isDirty
    <2> QED BY <2>2, Basics, PushOfDirty
  <1>5. ASSUME NEW c \in Caches, NEW r \in Req, sendInvalidateAck(c, r) PROVE Once
    <2>1. ~req[r].writeDown
      BY <1>5 DEF IInv, Outstanding, Response, sendInvalidateAck
    <2>2. push' = push
      BY <1>5, <2>1 DEF sendInvalidateAck, respondBelow, doWriteBack
    <2> QED BY <2>2, PushKept
  <1>6. ASSUME NEW c \in Caches, NEW a \in Lines, doPush(c, a) PROVE Once
    <2>1. push \in [Caches -> [Lines -> Nat]] /\ push' = [push EXCEPT ![c][a] = @ - 1]
      BY <1>6 DEF doPush, TypeOK
    <2> QED BY <2>1
  <1>7. ASSUME push' = push PROVE Once
    BY <1>7, PushKept
  <1> HIDE DEF Once
  <1>8. ASSUME NEW r \in Req, CacheStep(r) \/ BusStep(r) PROVE Once
    <2>1. CASE push' = push
      BY <2>1, <1>7
    <2>2. CASE push' # push
      <3>1. \/ doAllocateLine(r)
            \/ \E v \in Lines : allocateReplace(r, v)
        BY <2>2, <1>8
           DEF CacheStep, BusStep, doReadHit, doWriteHit, doLookupLocked, doLookupMiss,
               writeShared, allocateFree, allocateRetry, allocateInvalidate, missAckToMem,
               readMissAck, writeMissAck, retireOuts, retireMutExcl, goToMem, snoopOthers,
               returnAccess
      <3> QED BY <3>1, <1>1, NothingAbove
    <2> QED BY <2>1, <2>2
  <1>9. ASSUME NEW c \in Caches, NEW a \in Lines, LineStep(c, a) PROVE Once
    BY <1>6, <1>9, NothingAbove DEF LineStep
  <1>10. ASSUME NEW r \in Req, NEW a \in Lines, NEW op \in MemOp, access(r, a, op) PROVE Once
    BY <1>7, <1>10 DEF access
  <1> QED BY <1>2, <1>3, <1>4, <1>5, <1>8, <1>9, <1>10
          DEF Next, Access, Callback, SnoopStep, Once

(* A MemPush leaves a cache only while the level below lacks the data: no  *)
(* write is written back twice.                                            *)
THEOREM WrittenBackOnce ==
  ASSUME NUpper = 0
  PROVE  Spec => WriteBackOnce
  <1>1. TypeOK /\ IInv /\ [Next]_vars =>
          [\A c \in Caches, a \in Lines : push'[c][a] > push[c][a] => stale[a]]_vars
    BY PushNext
  <1> QED BY <1>1, InductiveInvariant, PTL DEF Spec, WriteBackOnce
=============================================================================
