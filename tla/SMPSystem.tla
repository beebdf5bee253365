------------------------------ MODULE SMPSystem ------------------------------
(***************************************************************************)
(* The snooping multiprocessor memory system of libsmp: private caches     *)
(* (SMPCache) running the MESI protocol (MESIProtocol), their system bus   *)
(* (SMPSystemBus), the requests that travel between them (SMPMemRequest),  *)
(* and the two request buffers that order them: outsReq, one per cache,    *)
(* and the static mutExclBuffer all caches share.                          *)
(*                                                                         *)
(* The simulator is single threaded.  An event is a callback taken from    *)
(* the event queue; events of different delays interleave, so any pending  *)
(* event may be next.  A callback that retires a buffer entry calls the    *)
(* next waiter's callback synchronously, before it returns: `stack' holds  *)
(* the requests whose callbacks are active, innermost first, and while it  *)
(* is not empty nothing but the innermost callback runs.                   *)
(***************************************************************************)
EXTENDS Integers, Sequences, FiniteSets, MESIState

CONSTANTS
  Caches,     (* the SMPCaches above the bus                               *)
  Slots,      (* requests a cache's upper level may have outstanding       *)
  Lines,      (* line addresses; all fall in one set of the cache          *)
  Assoc,      (* lines a set holds                                         *)
  NUpper,     (* caches above an SMPCache; 0: SMPCache is the highest level*)
  PushBound,  (* bound: no new access with more write-backs in flight      *)
  None        (* the null pointer                                          *)

ASSUME CachesAssumption ==
  /\ IsFiniteSet(Caches) /\ Caches # {}
  /\ None \notin Caches /\ None \notin Caches \X Slots
ASSUME SizeAssumption ==
  Assoc \in Nat \ {0} /\ NUpper \in Nat /\ PushBound \in Nat

Req == Caches \X Slots
cacheOf(r) == r[1]

(* A request's program counter: which callback carries it next.            *)
Phase ==
  {"idle",      (* acknowledged, or never issued                           *)
   "outs",      (* waits in outsReq for the line's earlier request         *)
   "lookup",    (* doReadCB / doWriteCB pending                            *)
   "mutex",     (* waits in mutExclBuffer                                  *)
   "send",      (* sendRead / sendWrite is being called                    *)
   "retry",     (* allocateLineRetryCB pending                             *)
   "evict",     (* the victim is being invalidated in the upper levels     *)
   "evicted",   (* doAllocateLineCB pending                                *)
   "bus",       (* on its way to SMPSystemBus::doRead / doWrite            *)
   "snoop",     (* in pendReqsTable                                        *)
   "mem",       (* below the bus                                           *)
   "return",    (* returnAccess pending at the requestor                   *)
   "hit",       (* acknowledged by a hit, outsReq still to be retired      *)
   "conclude",  (* acknowledged by concludeAccess, outsReq to be retired   *)
   "release"}   (* mutExclBuffer still to be retired                       *)

MemOp == {"MemRead", "MemWrite", "MemReadW"}

VARIABLES
  line,      (* line[c][a]: state of a in cache c; INVALID when absent     *)
  outsReq,   (* outsReq[c][a]: requests in the MSHR entry, owner first     *)
  mutExcl,   (* mutExcl[a]: requests in the shared buffer, owner first     *)
  pc,        (* pc[r]: phase of request r                                  *)
  req,       (* req[r]: fields of the MemRequest and its SMPMemRequest     *)
  snoop,     (* snoop[r]: caches with doReceiveFromBelowCB(r) pending      *)
  acks,      (* acks[r]: caches with their ack callback for r scheduled    *)
  pendReqs,  (* pendReqs[r]: SMPSystemBus::pendReqsTable                   *)
  pendInv,   (* pendInv[c][a]: SMPCache::pendInvTable                      *)
  push,      (* push[c][a]: write-backs (MemPush) in flight                *)
  stale,     (* history: the last write of a has not been pushed below     *)
  stack      (* active synchronous callbacks, innermost first              *)

vars == <<line, outsReq, mutExcl, pc, req, snoop, acks, pendReqs, pendInv,
          push, stale, stack>>

Request == [addr: Lines, op: MemOp, orig: MemOp, wToR: BOOLEAN,
            state: {"INVALID"} \cup Stable, found: BOOLEAN,
            supplier: Caches \cup {None}, writeDown: BOOLEAN,
            needData: BOOLEAN, needSnoop: BOOLEAN, victim: Lines]

(* A request as its creation leaves it: no response, no supplier.          *)
create(a, op) ==
  [addr |-> a, op |-> op, orig |-> op, wToR |-> FALSE,
   state |-> "INVALID", found |-> FALSE, supplier |-> None,
   writeDown |-> FALSE, needData |-> FALSE, needSnoop |-> FALSE,
   victim |-> a]

NoInv == [resps |-> 0, cb |-> None, invalidate |-> FALSE]
PendInv == [resps: Nat, cb: Req \cup {None}, invalidate: BOOLEAN]

(* The types of the caches, the requests and the bus.                      *)
TypeOK ==
  /\ line \in [Caches -> [Lines -> LineState]]
  /\ outsReq \in [Caches -> [Lines -> Seq(Req)]]
  /\ mutExcl \in [Lines -> Seq(Req)]
  /\ pc \in [Req -> Phase]
  /\ req \in [Req -> Request]
  /\ snoop \in [Req -> SUBSET Caches]
  /\ acks \in [Req -> SUBSET Caches]
  /\ pendReqs \in [Req -> Int]
  /\ pendInv \in [Caches -> [Lines -> PendInv]]
  /\ push \in [Caches -> [Lines -> Nat]]
  /\ stale \in [Lines -> BOOLEAN]
  /\ stack \in Seq(Req)

Init ==
  /\ line = [c \in Caches |-> [a \in Lines |-> "INVALID"]]
  /\ outsReq = [c \in Caches |-> [a \in Lines |-> <<>>]]
  /\ mutExcl = [a \in Lines |-> <<>>]
  /\ pc = [r \in Req |-> "idle"]
  /\ \E a \in Lines : req = [r \in Req |-> create(a, "MemRead")]
  /\ snoop = [r \in Req |-> {}]
  /\ acks = [r \in Req |-> {}]
  /\ pendReqs = [r \in Req |-> 0]
  /\ pendInv = [c \in Caches |-> [a \in Lines |-> NoInv]]
  /\ push = [c \in Caches |-> [a \in Lines |-> 0]]
  /\ stale = [a \in Lines |-> FALSE]
  /\ stack = <<>>
-----------------------------------------------------------------------------
(* MemRequest::mutateWriteToRead and mutateReadToWrite.                    *)
mutateWriteToRead(q) ==
  IF q.op = "MemWrite" THEN [q EXCEPT !.op = "MemReadW", !.wToR = TRUE] ELSE q
(* Mutant: concludeAccess does not restore the operation.                  *)
mutNoRestore(q) == q

mutateReadToWrite(q) ==
  IF q.wToR THEN [q EXCEPT !.op = "MemWrite", !.wToR = FALSE] ELSE q

addr(r)   == req[r].addr
state(r)  == line[cacheOf(r)][addr(r)]
isRead(r) == req[r].op = "MemRead"

(* The callback of r may run: it is an event and no callback is active, or *)
(* it is the innermost active one.  `Outer' is what is active below it.    *)
Runs(r) == stack # <<>> => Head(stack) = r
Active(r) == stack # <<>> /\ Head(stack) = r
Outer == IF stack = <<>> THEN <<>> ELSE Tail(stack)
Event == stack = <<>>

setLine(c, a, s) == line' = [line EXCEPT ![c][a] = s]
goTo(r, phase) == pc' = [pc EXCEPT ![r] = phase]

(* SMPCache::doWriteBack: a MemPush with the line's data leaves cache c.   *)
doWriteBack(needed, c, a) ==
  /\ push' = IF needed THEN [push EXCEPT ![c][a] = @ + 1] ELSE push
  /\ stale' = IF needed THEN [stale EXCEPT ![a] = FALSE] ELSE stale

(* Mutant: outsReq lets a second request of the line through.              *)
mutAliasing(r, a, op) ==
  LET c == cacheOf(r) IN
  /\ Event /\ pc[r] = "idle"
  /\ NUpper = 0 => op # "MemReadW"
  /\ \A d \in Caches, b \in Lines : push[d][b] <= PushBound
  /\ req' = [req EXCEPT ![r] = create(a, op)]
  /\ goTo(r, "lookup")
  /\ outsReq' = [outsReq EXCEPT ![c][a] = Append(@, r)]
  /\ UNCHANGED <<line, mutExcl, snoop, acks, pendReqs, pendInv, push, stale, stack>>

(***************************************************************************)
(* Requests from the upper level: SMPCache::access, read, write            *)
(***************************************************************************)
access(r, a, op) ==
  LET c == cacheOf(r) IN
  /\ Event /\ pc[r] = "idle"
  /\ NUpper = 0 => op # "MemReadW"
  /\ \A d \in Caches, b \in Lines : push[d][b] <= PushBound
  /\ req' = [req EXCEPT ![r] = create(a, op)]
  /\ goTo(r, IF outsReq[c][a] = <<>> THEN "lookup" ELSE "outs")
  /\ outsReq' = [outsReq EXCEPT ![c][a] = Append(@, r)]
  /\ UNCHANGED <<line, mutExcl, snoop, acks, pendReqs, pendInv, push, stale, stack>>

(***************************************************************************)
(* SMPCache::doRead and doWrite                                            *)
(***************************************************************************)
doReadHit(r) ==
  /\ pc[r] = "lookup" /\ Runs(r) /\ isRead(r)
  /\ canBeRead(state(r))
  /\ goTo(r, "hit")
  /\ stack' = <<r>> \o Outer
  /\ UNCHANGED <<line, outsReq, mutExcl, req, snoop, acks, pendReqs, pendInv,
                 push, stale>>

doWriteHit(r) ==
  /\ pc[r] = "lookup" /\ Runs(r) /\ ~isRead(r)
  /\ canBeWritten(state(r))
  /\ setLine(cacheOf(r), addr(r), "MODIFIED")
  /\ stale' = [stale EXCEPT ![addr(r)] = TRUE]
  /\ goTo(r, "hit")
  /\ stack' = <<r>> \o Outer
  /\ UNCHANGED <<outsReq, mutExcl, req, snoop, acks, pendReqs, pendInv, push>>

doLookupLocked(r) ==
  /\ pc[r] = "lookup" /\ Runs(r)
  /\ isLocked(state(r))
  /\ req' = [req EXCEPT ![r] = mutateWriteToRead(@)]
  /\ stack' = Outer
  /\ UNCHANGED <<line, outsReq, mutExcl, pc, snoop, acks, pendReqs, pendInv,
                 push, stale>>

doLookupMiss(r) ==
  /\ pc[r] = "lookup" /\ Runs(r)
  /\ ~isLocked(state(r))
  /\ IF isRead(r) THEN ~canBeRead(state(r)) ELSE ~canBeWritten(state(r))
  /\ req' = IF isValid(state(r)) THEN req
            ELSE [req EXCEPT ![r] = mutateWriteToRead(@)]
  /\ mutExcl' = [mutExcl EXCEPT ![addr(r)] = Append(@, r)]
  /\ IF mutExcl[addr(r)] = <<>>
       THEN goTo(r, "send") /\ stack' = <<r>> \o Outer
       ELSE goTo(r, "mutex") /\ stack' = Outer
  /\ UNCHANGED <<line, outsReq, snoop, acks, pendReqs, pendInv, push, stale>>

(***************************************************************************)
(* MESIProtocol::read and write, called by sendRead and sendWrite with the *)
(* line's mutual exclusion held.  A request is sent with sendBelow; its    *)
(* reserved line goes on to TRANS_RD or TRANS_WR in the same callback.     *)
(***************************************************************************)
sendBelow(r, q, data) ==
  /\ req' = [req EXCEPT ![r] = [q EXCEPT !.needData = data, !.needSnoop = TRUE]]
  /\ goTo(r, "bus")

transFor(r) == IF isRead(r) THEN "TRANS_RD" ELSE "TRANS_WR"

writeShared(r) ==
  /\ pc[r] = "send" /\ Active(r) /\ ~isRead(r)
  /\ isValid(state(r)) /\ ~canBeWritten(state(r))
  /\ setLine(cacheOf(r), addr(r), "TRANS_WR")
  /\ sendBelow(r, req[r], FALSE)
  /\ stack' = Outer
  /\ UNCHANGED <<outsReq, mutExcl, snoop, acks, pendReqs, pendInv, push, stale>>

(* SMPCache::allocateLine for a miss, or again from allocateLineRetry.     *)
Allocates(r) ==
  \/ pc[r] = "send" /\ Active(r) /\ ~isValid(state(r))
  \/ pc[r] = "retry" /\ Event

occupied(c) == {b \in Lines : isValid(line[c][b])}
replaceable(c) == {b \in occupied(c) : ~isLocked(line[c][b])}

allocateFree(r) ==
  /\ Allocates(r)
  /\ Cardinality(occupied(cacheOf(r))) < Assoc
  /\ setLine(cacheOf(r), addr(r), transFor(r))
  /\ sendBelow(r, mutateWriteToRead(req[r]), TRUE)
  /\ stack' = Outer
  /\ UNCHANGED <<outsReq, mutExcl, snoop, acks, pendReqs, pendInv, push, stale>>

(* Mutant: a dirty victim is replaced without a write-back.                *)
mutDropDirty(r, v) ==
  LET c == cacheOf(r) IN
  /\ Allocates(r) /\ NUpper = 0
  /\ Cardinality(occupied(c)) >= Assoc /\ v \in replaceable(c)
  /\ line' = [line EXCEPT ![c] = [@ EXCEPT ![v] = "INVALID",
                                           ![addr(r)] = transFor(r)]]
  /\ sendBelow(r, mutateWriteToRead(req[r]), TRUE)
  /\ stack' = Outer
  /\ UNCHANGED <<outsReq, mutExcl, snoop, acks, pendReqs, pendInv, push, stale>>

(* No cache above: the victim v is written back and replaced at once.      *)
allocateReplace(r, v) ==
  LET c == cacheOf(r) IN
  /\ Allocates(r) /\ NUpper = 0
  /\ Cardinality(occupied(c)) >= Assoc /\ v \in replaceable(c)
  /\ line' = [line EXCEPT ![c] = [@ EXCEPT ![v] = "INVALID",
                                           ![addr(r)] = transFor(r)]]
  /\ doWriteBack(isDirty(line[c][v]), c, v)
  /\ sendBelow(r, mutateWriteToRead(req[r]), TRUE)
  /\ stack' = Outer
  /\ UNCHANGED <<outsReq, mutExcl, snoop, acks, pendReqs, pendInv>>

(* Caches above: the victim is locked until they have dropped it.          *)
allocateInvalidate(r, v) ==
  LET c == cacheOf(r) IN
  /\ Allocates(r) /\ NUpper > 0
  /\ Cardinality(occupied(c)) >= Assoc /\ v \in replaceable(c)
  /\ setLine(c, v, preInvalidate(line[c][v]))
  /\ pendInv' = [pendInv EXCEPT ![c][v] =
                   [resps |-> NUpper, cb |-> r, invalidate |-> FALSE]]
  /\ req' = [req EXCEPT ![r] = [mutateWriteToRead(@) EXCEPT !.victim = v]]
  /\ goTo(r, "evict")
  /\ stack' = Outer
  /\ UNCHANGED <<outsReq, mutExcl, snoop, acks, pendReqs, push, stale>>

(* Every line of the set is locked: try again ten cycles later.            *)
allocateRetry(r) ==
  LET c == cacheOf(r) IN
  /\ Allocates(r)
  /\ Cardinality(occupied(c)) >= Assoc /\ replaceable(c) = {}
  /\ req' = [req EXCEPT ![r] = mutateWriteToRead(@)]
  /\ goTo(r, "retry")
  /\ stack' = Outer
  /\ UNCHANGED <<line, outsReq, mutExcl, snoop, acks, pendReqs, pendInv, push, stale>>

doAllocateLine(r) ==
  LET c == cacheOf(r)
      v == req[r].victim IN
  /\ Event /\ pc[r] = "evicted"
  /\ doWriteBack(isDirty(line[c][v]), c, v)
  /\ line' = [line EXCEPT ![c] = [@ EXCEPT ![v] = "INVALID",
                                           ![addr(r)] = transFor(r)]]
  /\ sendBelow(r, req[r], TRUE)
  /\ UNCHANGED <<outsReq, mutExcl, snoop, acks, pendReqs, pendInv, stack>>

(***************************************************************************)
(* SMPSystemBus::doRead and doWrite                                        *)
(***************************************************************************)
goToMem(r) ==
  /\ Event /\ pc[r] = "bus" /\ ~req[r].needSnoop
  /\ goTo(r, "mem")
  /\ UNCHANGED <<line, outsReq, mutExcl, req, snoop, acks, pendReqs, pendInv,
                 push, stale, stack>>

(* Mutant: the request returns without waiting for the answers.            *)
mutNoWait(r) ==
  LET others == Caches \ {cacheOf(r)} IN
  /\ Event /\ pc[r] = "bus" /\ req[r].needSnoop
  /\ pendReqs' = [pendReqs EXCEPT ![r] = Cardinality(others)]
  /\ snoop' = [snoop EXCEPT ![r] = others]
  /\ goTo(r, "return")
  /\ UNCHANGED <<line, outsReq, mutExcl, req, acks, pendInv, push, stale, stack>>

(* The request is put into pendReqsTable and handed to the other caches;   *)
(* with none, finalizeAccess returns it at once.                           *)
snoopOthers(r) ==
  LET others == Caches \ {cacheOf(r)} IN
  /\ Event /\ pc[r] = "bus" /\ req[r].needSnoop
  /\ pendReqs' = [pendReqs EXCEPT ![r] = Cardinality(others)]
  /\ snoop' = [snoop EXCEPT ![r] = others]
  /\ goTo(r, IF others = {} THEN "return" ELSE "snoop")
  /\ UNCHANGED <<line, outsReq, mutExcl, req, acks, pendInv, push, stale, stack>>

(* Mutant: the first of several answers finalizes the access.              *)
mutFirstAnswer(c, r, q) ==
  /\ doWriteBack(q.supplier = c /\ q.writeDown, c, q.addr)
  /\ pendReqs' = [pendReqs EXCEPT ![r] = @ - 1]
  /\ goTo(r, "return")

(* SMPCache::respondBelow: cache c answers the request in its present form *)
(* q, after a write-back if it is the supplier of dirty data.  The bus     *)
(* counts the answer and the last one finalizes the access.                *)
respondBelow(c, r, q) ==
  /\ doWriteBack(q.supplier = c /\ q.writeDown, c, q.addr)
  /\ pendReqs' = [pendReqs EXCEPT ![r] = @ - 1]
  /\ goTo(r, IF pendReqs[r] - 1 = 0 THEN "return" ELSE pc[r])

(* The level below the bus answers: SMPSystemBus::returnAccess.            *)
returnAccess(r) ==
  /\ Event /\ pc[r] = "mem"
  /\ goTo(r, "return")
  /\ UNCHANGED <<line, outsReq, mutExcl, req, snoop, acks, pendReqs, pendInv,
                 push, stale, stack>>

doPush(c, a) ==
  /\ Event /\ push[c][a] > 0
  /\ push' = [push EXCEPT ![c][a] = @ - 1]
  /\ UNCHANGED <<line, outsReq, mutExcl, pc, req, snoop, acks, pendReqs,
                 pendInv, stale, stack>>

(***************************************************************************)
(* A snooped request at cache c: SMPCache::doReceiveFromBelow and the      *)
(* protocol's readMissHandler, writeMissHandler, invalidateHandler         *)
(***************************************************************************)
Snooped(c, r) == Event /\ c \in snoop[r] /\ snoop' = [snoop EXCEPT ![r] = @ \ {c}]

handlerMiss(c, r) ==
  LET s == line[c][addr(r)] IN
  /\ Snooped(c, r)
  /\ ~isValid(s) \/ isLocked(s)
  /\ respondBelow(c, r, req[r])
  /\ UNCHANGED <<line, outsReq, mutExcl, req, acks, pendInv, stack>>

readMissHandler(c, r) ==
  LET a == addr(r)
      s == line[c][a]
      q == combineResponses(req[r], s, c) IN
  /\ Snooped(c, r) /\ isRead(r)
  /\ isValid(s) /\ ~isLocked(s)
  /\ req' = [req EXCEPT ![r] = q]
  /\ setLine(c, a, "SHARED")
  /\ respondBelow(c, r, q)
  /\ UNCHANGED <<outsReq, mutExcl, acks, pendInv, stack>>

(* Mutant: the supplier's write-down is left set, and written back twice.  *)
mutNoClear(r, s, c) == combineResponses(req[r], s, c)

(* The line is invalidated before the answer; the write-back is left to    *)
(* the invalidation (clearWriteDown).                                      *)
combineAndClear(r, s, c) ==
  LET q == combineResponses(req[r], s, c) IN
  IF q.supplier = c THEN [q EXCEPT !.writeDown = FALSE] ELSE q

writeMissHandler(c, r) ==
  LET a == addr(r)
      s == line[c][a] IN
  /\ Snooped(c, r) /\ ~isRead(r)
  /\ isValid(s) /\ ~isLocked(s)
  /\ req' = [req EXCEPT ![r] = combineAndClear(r, s, c)]
  /\ IF NUpper = 0
       THEN /\ setLine(c, a, "INVALID")
            /\ doWriteBack(isDirty(s), c, a)
            /\ acks' = [acks EXCEPT ![r] = @ \cup {c}]
            /\ UNCHANGED pendInv
       ELSE /\ setLine(c, a, preInvalidate(s))
            /\ pendInv' = [pendInv EXCEPT ![c][a] =
                             [resps |-> NUpper, cb |-> r, invalidate |-> TRUE]]
            /\ UNCHANGED <<push, stale, acks>>
  /\ UNCHANGED <<outsReq, mutExcl, pc, pendReqs, stack>>

(* Mutant: the acknowledgement does not wait for the caches above.         *)
mutAckEarly(c, r) ==
  /\ Event /\ pendInv[c][addr(r)].cb = r /\ pendInv[c][addr(r)].invalidate
  /\ respondBelow(c, r, req[r])
  /\ UNCHANGED <<line, outsReq, mutExcl, req, snoop, acks, pendInv, stack>>

sendInvalidateAck(c, r) ==
  /\ Event /\ c \in acks[r]
  /\ acks' = [acks EXCEPT ![r] = @ \ {c}]
  /\ respondBelow(c, r, req[r])
  /\ UNCHANGED <<line, outsReq, mutExcl, req, snoop, pendInv, stack>>

(***************************************************************************)
(* A cache above c has dropped line a: SMPCache::doInvalidate              *)
(***************************************************************************)
doInvalidateMore(c, a) ==
  /\ Event /\ pendInv[c][a].resps > 1
  /\ pendInv' = [pendInv EXCEPT ![c][a].resps = @ - 1]
  /\ UNCHANGED <<line, outsReq, mutExcl, pc, req, snoop, acks, pendReqs, push,
                 stale, stack>>

(* The last answer of a snooped invalidation: realInvalidate, then the ack.*)
doInvalidateLine(c, a) ==
  LET r == pendInv[c][a].cb IN
  /\ Event /\ pendInv[c][a].resps = 1 /\ pendInv[c][a].invalidate
  /\ pendInv' = [pendInv EXCEPT ![c][a] = NoInv]
  /\ setLine(c, a, "INVALID")
  /\ doWriteBack(isDirty(line[c][a]), c, a)
  /\ acks' = [acks EXCEPT ![r] = @ \cup {c}]
  /\ UNCHANGED <<outsReq, mutExcl, pc, req, snoop, pendReqs, stack>>

(* The last answer of a replacement: doAllocateLine is scheduled.          *)
doInvalidateVictim(c, a) ==
  /\ Event /\ pendInv[c][a].resps = 1 /\ ~pendInv[c][a].invalidate
  /\ pendInv' = [pendInv EXCEPT ![c][a] = NoInv]
  /\ goTo(pendInv[c][a].cb, "evicted")
  /\ UNCHANGED <<line, outsReq, mutExcl, req, snoop, acks, pendReqs, push,
                 stale, stack>>

(***************************************************************************)
(* The answer at the requestor: SMPCache::returnAccess and the protocol's  *)
(* readMissAckHandler, writeMissAckHandler, invalidateAckHandler           *)
(***************************************************************************)
notFound(r) ==
  /\ isRead(r) \/ req[r].needData
  /\ req[r].state = "INVALID" /\ state(r) \in {"TRANS_RD", "TRANS_WR"}

missAckToMem(r) ==
  /\ Event /\ pc[r] = "return" /\ notFound(r)
  /\ setLine(cacheOf(r), addr(r),
             IF isRead(r) THEN "TRANS_RD_MEM" ELSE "TRANS_WR_MEM")
  /\ req' = [req EXCEPT ![r].needSnoop = FALSE]
  /\ goTo(r, "bus")
  /\ UNCHANGED <<outsReq, mutExcl, snoop, acks, pendReqs, pendInv, push, stale, stack>>

readMissAck(r) ==
  /\ Event /\ pc[r] = "return" /\ isRead(r) /\ ~notFound(r)
  /\ setLine(cacheOf(r), addr(r),
             IF req[r].state = "INVALID" THEN "EXCLUSIVE" ELSE "SHARED")
  /\ goTo(r, "conclude")
  /\ stack' = <<r>>
  /\ UNCHANGED <<outsReq, mutExcl, req, snoop, acks, pendReqs, pendInv, push, stale>>

writeMissAck(r) ==
  /\ Event /\ pc[r] = "return" /\ ~isRead(r) /\ ~notFound(r)
  /\ setLine(cacheOf(r), addr(r), "MODIFIED")
  /\ stale' = [stale EXCEPT ![addr(r)] = TRUE]
  /\ req' = [req EXCEPT ![r] = mutateReadToWrite(@)]
  /\ goTo(r, "conclude")
  /\ stack' = <<r>>
  /\ UNCHANGED <<outsReq, mutExcl, snoop, acks, pendReqs, pendInv, push>>

(***************************************************************************)
(* MSHR::retire on each buffer calls the next waiter before it returns:    *)
(* outsReq first, mutExclBuffer after it (SMPCache::concludeAccess); a hit *)
(* holds only outsReq.  retire asserts that the entry is there.            *)
(***************************************************************************)
retireOuts(r) ==
  LET c    == cacheOf(r)
      rest == Tail(outsReq[c][addr(r)])
      next == IF pc[r] = "hit" THEN "idle" ELSE "release"
      outer == IF pc[r] = "hit" THEN Tail(stack) ELSE stack IN
  /\ pc[r] \in {"hit", "conclude"} /\ Active(r)
  /\ outsReq[c][addr(r)] # <<>>
  /\ outsReq' = [outsReq EXCEPT ![c][addr(r)] = rest]
  /\ IF rest = <<>>
       THEN goTo(r, next) /\ stack' = outer
       ELSE /\ pc' = [pc EXCEPT ![r] = next, ![Head(rest)] = "lookup"]
            /\ stack' = <<Head(rest)>> \o outer
  /\ req' = IF pc[r] = "hit" THEN [req EXCEPT ![r] = create(@.addr, "MemRead")]
            ELSE req
  /\ UNCHANGED <<line, mutExcl, snoop, acks, pendReqs, pendInv, push, stale>>

(* Mutant: the next waiter is not called.                                  *)
mutLostWakeup(r) ==
  /\ pc[r] = "release" /\ Active(r)
  /\ mutExcl' = [mutExcl EXCEPT ![addr(r)] = Tail(@)]
  /\ goTo(r, "idle") /\ stack' = Tail(stack)
  /\ req' = [req EXCEPT ![r] = create(@.addr, "MemRead")]
  /\ UNCHANGED <<line, outsReq, snoop, acks, pendReqs, pendInv, push, stale>>

retireMutExcl(r) ==
  LET rest == Tail(mutExcl[addr(r)]) IN
  /\ pc[r] = "release" /\ Active(r)
  /\ mutExcl[addr(r)] # <<>>
  /\ mutExcl' = [mutExcl EXCEPT ![addr(r)] = rest]
  /\ IF rest = <<>>
       THEN goTo(r, "idle") /\ stack' = Tail(stack)
       ELSE /\ pc' = [pc EXCEPT ![r] = "idle", ![Head(rest)] = "send"]
            /\ stack' = <<Head(rest)>> \o Tail(stack)
  /\ req' = [req EXCEPT ![r] = create(@.addr, "MemRead")]
  /\ UNCHANGED <<line, outsReq, snoop, acks, pendReqs, pendInv, push, stale>>

-----------------------------------------------------------------------------
CacheStep(r) ==
  \/ doReadHit(r) \/ doWriteHit(r) \/ doLookupLocked(r) \/ doLookupMiss(r)
  \/ writeShared(r)
  \/ allocateFree(r) \/ allocateRetry(r) \/ doAllocateLine(r)
  \/ \E v \in Lines : allocateReplace(r, v) \/ allocateInvalidate(r, v)
  \/ missAckToMem(r) \/ readMissAck(r) \/ writeMissAck(r)
  \/ retireOuts(r) \/ retireMutExcl(r)

BusStep(r) == goToMem(r) \/ snoopOthers(r) \/ returnAccess(r)

SnoopStep(c, r) ==
  \/ handlerMiss(c, r) \/ readMissHandler(c, r) \/ writeMissHandler(c, r)
  \/ sendInvalidateAck(c, r)

LineStep(c, a) ==
  \/ doPush(c, a)
  \/ doInvalidateMore(c, a) \/ doInvalidateLine(c, a) \/ doInvalidateVictim(c, a)

(* A callback scheduled or active in the simulator.                        *)
Callback ==
  \/ \E r \in Req : CacheStep(r) \/ BusStep(r)
  \/ \E c \in Caches, r \in Req : SnoopStep(c, r)
  \/ \E c \in Caches, a \in Lines : LineStep(c, a)

Access == \E r \in Req, a \in Lines, op \in MemOp : access(r, a, op)

Next == Access \/ Callback

Spec == Init /\ [][Next]_vars
-----------------------------------------------------------------------------
(* Single writer, multiple readers: a cache that may write a line (state   *)
(* EXCLUSIVE or MODIFIED) is the only one that may read it.  Breaks when a *)
(* snoop answer is lost, counted twice, or a request is granted before all *)
(* the answers are in.                                                     *)
SingleWriter ==
  \A a \in Lines, c, d \in Caches :
    c # d /\ canBeWritten(line[c][a]) => ~canBeRead(line[d][a])

(* Dirty data is neither lost nor invented: the level below lacks the last *)
(* write of a line exactly when one cache still holds it dirty.  Covers    *)
(* every place that drops a line: replacement, snooped read, invalidation. *)
DirtyIffStale ==
  \A a \in Lines :
    /\ stale[a] <=> \E c \in Caches : isDirty(line[c][a])
    /\ \A c, d \in Caches : isDirty(line[c][a]) /\ isDirty(line[d][a]) => c = d

(* The bus counts what is really outstanding: pendReqsTable equals the     *)
(* snoops not yet handled plus the acknowledgements still due.             *)
SnoopsAccounted ==
  \A r \in Req :
    LET due == {c \in Caches : \/ c \in snoop[r] \/ c \in acks[r]
                               \/ pendInv[c][addr(r)].cb = r
                                    /\ pendInv[c][addr(r)].invalidate} IN
    /\ pc[r] = "snoop" => due # {} /\ pendReqs[r] = Cardinality(due)
    /\ pc[r] # "snoop" => due = {}

(* sendRead and sendWrite find the line as the assertions of               *)
(* MESIProtocol::read and write expect it: absent, or SHARED for a write.  *)
SendFindsLine ==
  \A r \in Req :
    pc[r] = "send" => IF isRead(r) THEN state(r) = "INVALID"
                      ELSE state(r) \in {"INVALID", "SHARED"}

(* An access is acknowledged as the operation the processor issued, however*)
(* often it was turned into MemReadW on its way (DMemRequest::dinstAck     *)
(* releases a store buffer entry only for MemWrite).                       *)
AckKeepsOperation ==
  \A r \in Req : pc[r] \in {"hit", "conclude", "release"} =>
                   req[r].op = req[r].orig

(* No cache may write a line while another cache is still having it dropped*)
(* from its own upper levels on a snooped write: the acknowledgement waits *)
(* for all NUpper of them.                                                 *)
InvalidationReachesUpper ==
  \A a \in Lines, c, d \in Caches :
    c # d /\ canBeWritten(line[c][a]) => ~pendInv[d][a].invalidate

(* A write is written back at most once: a MemPush leaves only while the   *)
(* level below lacks the data.                                             *)
WriteBackOnce ==
  [][\A c \in Caches, a \in Lines : push'[c][a] > push[c][a] => stale[a]]_vars

(* Every access is eventually acknowledged.                                *)
EveryAccessConcludes == \A r \in Req : pc[r] # "idle" ~> pc[r] = "idle"
=============================================================================
