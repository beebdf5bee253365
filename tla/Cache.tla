------------------------------- MODULE Cache -------------------------------
(***************************************************************************)
(* A write-back or write-through cache of libmem with its SingleMSHR, for  *)
(* the lines of one set.  The requests in the buffer are SingleMSHR's; the *)
(* callbacks it calls are those the cache gave it.                         *)
(*                                                                         *)
(* A request that misses goes below when it has an entry, comes back       *)
(* (preReturnAccess), allocates a line, and is retired.  To replace a line *)
(* a lower-level inclusive cache first locks it, under its new tag, and    *)
(* has the caches above drop the old one.  Their answers take two cycles   *)
(* per level: meanwhile hits, misses and answers from below may come, but  *)
(* nothing goes below and returns ("late").                                *)
(***************************************************************************)
EXTENDS SingleMSHR, CacheCore

CONSTANTS
  Confs,     (* configurations of a cache                                  *)
  NumUpper   (* caches above one that is not of the highest level          *)

(* writeBack: WBCache, not WTCache.  doWBFwd: reads are served from the    *)
(* writes that miss.  assoc: lines of a set.                               *)
Conf == [writeBack: BOOLEAN, highest: BOOLEAN, inclusive: BOOLEAN,
         doWBFwd: BOOLEAN, assoc: Nat \ {0}]

ASSUME CacheAssumption ==
  /\ NumUpper \in Nat \ {0}
  /\ IsFiniteSet(Requests) /\ NoTag \notin Lines
  /\ Confs \subseteq Conf
  /\ \A c \in Confs : ~c.writeBack => c.highest   (* WTCache takes no push *)

VARIABLES
  conf,
  set,           (* the lines of the set, see CacheCore                    *)
  memOp,         (* memOp[r]: its operation at this level                  *)
  stage,         (* stage[r]: what the cache waits for                     *)
  wbuff,         (* wbuff[a]: writes to a the cache has not finished       *)
  pendingWrites,
  pendInvTable   (* pendInvTable[a]: the answers still missing before a,   *)
                 (* the line replaced, is gone, and the request allocating *)

mshr == <<ms, entry, nFreeEntries, nFullReadEntries, nFullWriteEntries,
          overflow, checkingOverflow, pc, rline, rop, stack, nWrites>>
cacheVars == <<conf, set, memOp, stage, wbuff, pendingWrites, pendInvTable>>

(* waits, reexec: for the buffer to call doReadQueued or doWriteQueued, or *)
(* reexecuteDoWrite; below, late: for the level below; locked: for the     *)
(* caches above; allocated: for doAllocateLine; retry: for a line.         *)
Stage == {"none", "waits", "reexec", "below", "late", "locked", "allocated",
          "retry"}

CacheInit ==
  /\ conf \in Confs
  /\ set = [i \in 1..conf.assoc |-> invalid]
  /\ memOp = [r \in Requests |-> "MemRead"]
  /\ stage = [r \in Requests |-> "none"]
  /\ wbuff = [a \in Lines |-> 0]
  /\ pendingWrites = 0
  /\ pendInvTable = [a \in Lines |-> [outsResps |-> 0, r |-> None]]

retire(r) == retireNext(r) \/ retireLast(r)

pending(a) == pendInvTable[a].r # None
isLocked(a) == holds(set, a) /\ lineOf(set, a).locked

setStage(r, s) == stage' = [stage EXCEPT ![r] = s]

(* The request is answered: goUp.                                          *)
goUp(r) ==
  /\ setStage(r, "none")
  /\ memOp' = [memOp EXCEPT ![r] = "MemRead"]

(* goDown, of a request that missed.                                       *)
goDown(r) == setStage(r, IF \E a \in Lines : pending(a) THEN "late" ELSE "below")

wbuffAdd(a) ==
  IF conf.doWBFwd
  THEN wbuff' = [wbuff EXCEPT ![a] = @ + 1] /\ pendingWrites' = pendingWrites + 1
  ELSE UNCHANGED <<wbuff, pendingWrites>>

wbuffRemove(a) ==
  IF wbuff[a] > 0
  THEN wbuff' = [wbuff EXCEPT ![a] = @ - 1] /\ pendingWrites' = pendingWrites - 1
  ELSE UNCHANGED <<wbuff, pendingWrites>>
-----------------------------------------------------------------------------
(***************************************************************************)
(* Requests from above.  Accesses come as events, never in a callback.     *)
(***************************************************************************)
accepts(r) == stack = <<>> /\ pc[r] = "idle" /\ stage[r] = "none"

(* A hit only moves the line to the front; a write to a WBCache makes it   *)
(* dirty.                                                                  *)
readHit(a) ==
  /\ stack = <<>> /\ holds(set, a)
  /\ set' = findLineTag(set, a)
  /\ UNCHANGED <<mshr, conf, memOp, stage, wbuff, pendingWrites, pendInvTable>>

writeHit(a) ==
  /\ stack = <<>> /\ holds(set, a)
  /\ conf.highest /\ conf.writeBack
  /\ set' = [findLineTag(set, a) EXCEPT ![1].dirty = TRUE]
  /\ UNCHANGED <<mshr, conf, memOp, stage, wbuff, pendingWrites, pendInvTable>>

missHandler(r, a, op) ==
  /\ accepts(r) /\ ~holds(set, a)
  /\ memOp' = [memOp EXCEPT ![r] = op]
  /\ UNCHANGED <<conf, set, pendInvTable>>

(* Mutant: the miss is sent below although another one is.                 *)
mutSendTwice(r, a, op) ==
  /\ missHandler(r, a, op)
  /\ wbuff[a] = 0
  /\ issue(r, a, "MemRead") \/ addEntry(r, a, "MemRead") \/ toOverflow(r, a, "MemRead")
  /\ goDown(r)
  /\ UNCHANGED <<wbuff, pendingWrites>>

(* A read that finds its line in wbuff is answered at once.                *)
readMissHandler(r, a, op) ==
  /\ missHandler(r, a, op)
  /\ wbuff[a] = 0
  /\ \/ issue(r, a, "MemRead") /\ goDown(r)
     \/ addEntry(r, a, "MemRead") /\ setStage(r, "waits")
     \/ toOverflow(r, a, "MemRead") /\ setStage(r, "waits")
  /\ UNCHANGED <<wbuff, pendingWrites>>

writeMissHandler(r, a) ==
  /\ conf.highest
  /\ missHandler(r, a, "MemWrite")
  /\ wbuffAdd(a)
  /\ \/ issue(r, a, "MemWrite") /\ goDown(r)
     \/ addEntry(r, a, "MemWrite") /\ setStage(r, "waits")
     \/ toOverflow(r, a, "MemWrite") /\ setStage(r, "waits")

(* WTCache::writePropagateHandler: a write that hits goes below, too.      *)
writePropagateHandler(r, a) ==
  /\ ~conf.writeBack
  /\ accepts(r) /\ holds(set, a)
  /\ set' = findLineTag(set, a)
  /\ memOp' = [memOp EXCEPT ![r] = "MemWrite"]
  /\ wbuffAdd(a)
  /\ \/ issue(r, a, "MemRead") /\ goDown(r)
     \/ addEntry(r, a, "MemRead") /\ setStage(r, "reexec")
     \/ toOverflow(r, a, "MemRead") /\ setStage(r, "reexec")
  /\ UNCHANGED <<conf, pendInvTable>>

(* WBCache::doPush.  A push that finds no line is dropped by an inclusive  *)
(* cache, and fetches the line without an entry in the buffer otherwise.   *)
(* None comes for a line under allocation: nobody above has it yet.        *)
pushHit(a) ==
  /\ stack = <<>> /\ ~conf.highest /\ holds(set, a) /\ ~isLocked(a)
  /\ set' = [findLineTag(set, a) EXCEPT ![1] = [validate(@) EXCEPT !.dirty = TRUE]]
  /\ UNCHANGED <<mshr, conf, memOp, stage, wbuff, pendingWrites, pendInvTable>>

pushMiss(r, a) ==
  /\ ~conf.highest /\ ~conf.inclusive
  /\ missHandler(r, a, "MemPush")
  /\ rline' = [rline EXCEPT ![r] = a]
  /\ goDown(r)
  /\ UNCHANGED <<ms, entry, nFreeEntries, nFullReadEntries, nFullWriteEntries,
                 overflow, checkingOverflow, pc, rop, stack, nWrites, wbuff,
                 pendingWrites>>
-----------------------------------------------------------------------------
(***************************************************************************)
(* Callbacks of the buffer.  retire calls the one of the next request of   *)
(* the line, checkOverflow the overflow callback of one it gives an entry. *)
(***************************************************************************)
calledBack(r, s) == Top("callback") /\ Head(stack).r = r /\ stage[r] = s
fromOverflow == stack[2].call = "pop"

doReadQueued(r) ==
  /\ calledBack(r, "waits") /\ ~fromOverflow /\ memOp[r] # "MemWrite"
  /\ goUp(r)
  /\ retire(r)
  /\ UNCHANGED <<conf, set, wbuff, pendingWrites, pendInvTable>>

(* Mutant: the write stays in wbuff.                                       *)
mutStaysInWBuff(r) ==
  /\ calledBack(r, "waits") /\ ~fromOverflow /\ memOp[r] = "MemWrite"
  /\ goUp(r)
  /\ retire(r)
  /\ UNCHANGED <<conf, set, wbuff, pendingWrites, pendInvTable>>

doWriteQueued(r) ==
  /\ calledBack(r, "waits") /\ ~fromOverflow /\ memOp[r] = "MemWrite"
  /\ goUp(r)
  /\ wbuffRemove(rline[r])
  /\ retire(r)
  /\ UNCHANGED <<conf, set, pendInvTable>>

activateHit(r) ==
  LET a == rline[r] IN
  /\ calledBack(r, "waits") /\ fromOverflow /\ holds(set, a)
  /\ set' = [findLineTag(set, a) EXCEPT ![1].dirty = @ \/ memOp[r] = "MemWrite"]
  /\ goUp(r)
  /\ IF memOp[r] = "MemWrite" THEN wbuffRemove(a)
                              ELSE UNCHANGED <<wbuff, pendingWrites>>
  /\ retire(r)
  /\ UNCHANGED <<conf, pendInvTable>>

activateMiss(r) ==
  /\ calledBack(r, "waits") /\ fromOverflow /\ ~holds(set, rline[r])
  /\ goDown(r)
  /\ UNCHANGED <<mshr, conf, set, memOp, wbuff, pendingWrites, pendInvTable>>

activateOverflow(r) == activateHit(r) \/ activateMiss(r)

(* Queued and overflow callback of a propagated write.                     *)
reexecuteDoWrite(r) ==
  LET a == rline[r] IN
  /\ calledBack(r, "reexec")
  /\ set' = IF holds(set, a) THEN findLineTag(set, a) ELSE set
  /\ goDown(r)
  /\ UNCHANGED <<mshr, conf, memOp, wbuff, pendingWrites, pendInvTable>>

callbacks(r) ==
  doReadQueued(r) \/ doWriteQueued(r) \/ activateOverflow(r) \/ reexecuteDoWrite(r)

(* The buffer goes on when the callback has done its part.                 *)
bufferReturns ==
  /\ Returns
  /\ Top("callback") => stage[Head(stack).r] \notin {"waits", "reexec"}
  /\ UNCHANGED cacheVars
-----------------------------------------------------------------------------
(***************************************************************************)
(* Answers from below.                                                     *)
(***************************************************************************)
(* doReturnAccess: w is the set with the line of r in it.                  *)
doReturnAccess(r, w) ==
  LET a == rline[r]
      l == validate(findLineTag(w, a)[1]) IN
  /\ set' = [findLineTag(w, a) EXCEPT
               ![1] = [l EXCEPT !.dirty = @ \/ (conf.writeBack /\ memOp[r] # "MemRead")]]
  /\ goUp(r)
  /\ IF memOp[r] = "MemPush"
     THEN /\ destroy(r)
          /\ UNCHANGED <<ms, entry, nFreeEntries, nFullReadEntries, nFullWriteEntries,
                         overflow, checkingOverflow, pc, stack, nWrites, wbuff,
                         pendingWrites>>
     ELSE /\ retire(r)
          /\ IF memOp[r] # "MemRead" THEN wbuffRemove(a)
                                     ELSE UNCHANGED <<wbuff, pendingWrites>>

(* allocateLine finds a line to use at once: invalid, or one that can be   *)
(* replaced without asking above.  What is dirty is written back.          *)
useAtOnce(i) ==
  i # 0 /\ (~set[i].valid \/ conf.highest \/ ~conf.inclusive)

allocateNow(r) ==
  LET a == rline[r]
      i == findLine2Replace(set, a) IN
  /\ ~holds(set, a) /\ useAtOnce(i)
  /\ doReturnAccess(r, [fillLine(set, i, a) EXCEPT
                          ![1] = [validate(@) EXCEPT !.dirty = FALSE]])
  /\ UNCHANGED <<conf, pendInvTable>>

allocateLocks(r) ==
  LET a == rline[r]
      i == findLine2Replace(set, a) IN
  /\ ~holds(set, a) /\ i # 0 /\ ~useAtOnce(i)
  /\ set' = [fillLine(set, i, a) EXCEPT ![1].locked = TRUE]
  /\ pendInvTable' = [pendInvTable EXCEPT
                        ![set[i].tag] = [outsResps |-> NumUpper, r |-> r]]
  /\ setStage(r, "locked")
  /\ UNCHANGED <<mshr, conf, memOp, wbuff, pendingWrites>>

allocateLater(r) ==
  /\ ~holds(set, rline[r]) /\ findLine2Replace(set, rline[r]) = 0
  /\ setStage(r, "retry")
  /\ UNCHANGED <<mshr, conf, set, memOp, wbuff, pendingWrites, pendInvTable>>

(* preReturnAccess and returnPush.                                         *)
findsLine(r) ==
  /\ holds(set, rline[r])
  /\ doReturnAccess(r, set)
  /\ UNCHANGED <<conf, pendInvTable>>

preReturnAccess(r) ==
  /\ stack = <<>> /\ stage[r] = "below"
  /\ findsLine(r) \/ allocateNow(r) \/ allocateLocks(r) \/ allocateLater(r)

(* Retried until a line is unlocked.  The set was full, and is still: the  *)
(* line has to be dropped above as well.                                   *)
doAllocateLineRetry(r) ==
  /\ stack = <<>> /\ stage[r] = "retry"
  /\ allocateLocks(r)

(* doInvalidate: a cache above has dropped a.  Should a be here again, it  *)
(* is invalidated.                                                         *)
doInvalidate(a) ==
  LET e == pendInvTable[a]
      last == e.outsResps = 1 IN
  /\ stack = <<>> /\ pending(a)
  /\ pendInvTable' = [pendInvTable EXCEPT
       ![a] = IF last THEN [outsResps |-> 0, r |-> None] ELSE [e EXCEPT !.outsResps = @ - 1]]
  /\ set' = IF holds(set, a) THEN [findLineTag(set, a) EXCEPT ![1] = invalid] ELSE set
  /\ LET ends == last /\ \A b \in Lines \ {a} : ~pending(b) IN
     stage' = [r \in Requests |->
                 IF last /\ r = e.r THEN "allocated"
                 ELSE IF ends /\ stage[r] = "late" THEN "below" ELSE stage[r]]
  /\ UNCHANGED <<mshr, conf, memOp, wbuff, pendingWrites>>

(* The old line is gone above: written back if dirty, and the access goes  *)
(* on.                                                                     *)
doAllocateLine(r) ==
  /\ stack = <<>> /\ stage[r] = "allocated" /\ holds(set, rline[r])
  /\ doReturnAccess(r, [findLineTag(set, rline[r]) EXCEPT ![1].dirty = FALSE])
  /\ UNCHANGED <<conf, pendInvTable>>

(* An inclusive cache below drops a line of this one.                      *)
invalidate(a) ==
  /\ stack = <<>> /\ conf.highest /\ holds(set, a)
  /\ set' = [findLineTag(set, a) EXCEPT ![1] = invalid]
  /\ UNCHANGED <<mshr, conf, memOp, stage, wbuff, pendingWrites, pendInvTable>>
-----------------------------------------------------------------------------
Hits == \E a \in Lines : readHit(a) \/ writeHit(a) \/ pushHit(a) \/ invalidate(a)

Accesses ==
  \E r \in Requests, a \in Lines :
    \/ readMissHandler(r, a, "MemRead")
    \/ ~conf.highest /\ readMissHandler(r, a, "MemReadW")
    \/ writeMissHandler(r, a) \/ writePropagateHandler(r, a) \/ pushMiss(r, a)

event(r) ==
  callbacks(r) \/ preReturnAccess(r) \/ doAllocateLineRetry(r) \/ doAllocateLine(r)

Events ==
  \/ \E r \in Requests : event(r)
  \/ \E a \in Lines : doInvalidate(a)
  \/ bufferReturns

CacheNext == Hits \/ Accesses \/ Events

CacheSpec == Init /\ CacheInit /\ [][CacheNext]_<<vars, cacheVars>>
-----------------------------------------------------------------------------
(* The callbacks and answers reach the request that holds the buffer's     *)
(* entry of the line, and every entry has one on its way: a request is     *)
(* below or allocates exactly if it owns its line and is not just being    *)
(* called back; it waits for a callback only in the buffer.                *)
MissesOwnLines ==
  \A r \in Requests :
    /\ stage[r] \in {"below", "late", "locked", "allocated", "retry"} /\ memOp[r] # "MemPush"
         => pc[r] = "owner"
    /\ stage[r] \in {"waits", "reexec"}
         => pc[r] \in {"queued", "overflow"} \/ calledBack(r, stage[r])
    /\ stage[r] = "none" => pc[r] = "idle"

(* What the assertions of allocateLine, doAllocateLine and invalidate rely *)
(* on, with several replacements of the set under way: a line is in the    *)
(* set once; each locked line is that of one request, which will unlock    *)
(* it; a line being dropped above is not in the set.                       *)
ReplacementsApart ==
  /\ \A a \in Lines : Cardinality(ways(set, a)) <= 1
  /\ \A a \in Lines : pending(a) => ~holds(set, a) /\ stage[pendInvTable[a].r] = "locked"
  /\ \A r \in Requests : stage[r] \in {"locked", "allocated"} => isLocked(rline[r])
  /\ Cardinality({i \in DOMAIN set : set[i].locked})
       = Cardinality({r \in Requests : stage[r] \in {"locked", "allocated"}})

(* wbuff, from which reads are served and by which canAcceptStore counts,  *)
(* holds exactly the writes that missed or are propagated and have not     *)
(* come back, however they left the buffer.                                *)
WBuffExact ==
  conf.doWBFwd =>
    /\ \A a \in Lines :
         wbuff[a] = Cardinality({r \in Requests :
                       stage[r] # "none" /\ memOp[r] = "MemWrite" /\ rline[r] = a})
    /\ pendingWrites = Cardinality({r \in Requests :
                       stage[r] # "none" /\ memOp[r] = "MemWrite"})
=============================================================================
