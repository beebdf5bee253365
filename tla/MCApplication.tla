--------------------------- MODULE MCApplication ---------------------------
(***************************************************************************)
(* Applications for TLC: what a simulated application synchronises with    *)
(* (barrier; lock, semaphores and flag) and what a native one runs on      *)
(* (threads).  The three share no state: `uses' tells which one this       *)
(* application uses, and the others stay as they are.                      *)
(***************************************************************************)
EXTENDS SescBarrier, Integers

CONSTANTS
  MaxBarriers,                      (* bound: barriers in a row            *)
  LockThreads, Calls, PoolSize,     (* of SescLocks                        *)
  Pids, Root, SESC_TABLESIZE, Offset, MaxSpawns   (* of SescThread         *)

VARIABLES
  uses,
  spin, flag, lcount, sema, lpc, op, reg,
  table, nConcurrentThreads, tpc, tf, own, arg, aborted, parent, spawned,
  finished, returned

lockVars == <<spin, flag, lcount, sema, lpc, op, reg>>
threadVars == <<table, nConcurrentThreads, tpc, tf, own, arg, aborted, parent,
                spawned, finished, returned>>

(* SescLocks and SescThread, with the theorems about them, which           *)
(* ApplicationProofs cites.                                                *)
L == INSTANCE SescLocksProofs WITH Threads <- LockThreads, count <- lcount, pc <- lpc
T == INSTANCE SescThreadProofs WITH pc <- tpc

ASSUME LocksAssumption == L!Parameters
ASSUME SescThreadAssumption == T!Parameters

MCInit ==
  /\ uses \in {"barrier", "locks", "threads"}
  /\ Init /\ L!Init /\ T!Init

CallBarrier(t) ==
  /\ uses = "barrier"
  /\ (entered[t] < MaxBarriers /\ readSense(t)) \/ Inside(t)

MCNext ==
  /\ UNCHANGED uses
  /\ \/ (\E t \in Threads : CallBarrier(t)) /\ UNCHANGED <<lockVars, threadVars>>
     \/ uses = "locks" /\ L!Next /\ UNCHANGED <<vars, threadVars>>
     \/ uses = "threads" /\ T!Next /\ UNCHANGED <<vars, lockVars>>

(* Every thread calls the barrier MaxBarriers times and is scheduled: the  *)
(* loop that spins yields the processor.  A thread that has called a lock, *)
(* semaphore or flag runs on.  Of the native threads, which do not spin,   *)
(* one runs while some can.                                                *)
Fairness ==
  /\ \A t \in Threads : WF_vars(CallBarrier(t))
  /\ \A t \in LockThreads : WF_lockVars(uses = "locks" /\ L!Runs(t))
  /\ WF_threadVars(uses = "threads" /\ \E p \in Pids : T!Runs(p))

MCSpec == MCInit /\ [][MCNext]_<<uses, vars, lockVars, threadVars>> /\ Fairness
-----------------------------------------------------------------------------
(* sesc_vsema, sesc_psema and the flags built on them: the semaphore of a  *)
(* flag holds exactly the signals sent and not yet consumed, and those     *)
(* that count its waiters exclude each other (sesc_lock).                  *)
SignalsBalance == L!SignalsBalance

(* sesc_thread.c: a running native thread has exactly one entry in the     *)
(* table, although its spawner and itself both try to make it.             *)
OneEntry == T!OneEntry

(* sesc_wait returns no more often than threads end.                       *)
WaitJoins == T!WaitJoins

(* Whatever blocks in libapp gets on.  Nobody is left behind in the loop   *)
(* of a barrier, although the others are already in the next one; waiters  *)
(* of a flag that is set get away; a thread blocked in sesc_wait is        *)
(* awakened, however that interleaves with the end of its child.           *)
EveryoneGetsOn ==
  /\ \A t \in Threads : pc[t] # "outside" ~> pc[t] = "outside"
  /\ L!WaitersReleased
  /\ T!WaitReturns
=============================================================================
