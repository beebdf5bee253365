-------------------------------- MODULE OSSim --------------------------------
(***************************************************************************)
(* The operating system the simulator emulates for the threads of the      *)
(* simulated program: the process table and the process queue (ProcessId), *)
(* the assignment of processes to the flows of the processors              *)
(* (RunningProcs) and the calls that change it (OSSim): spawn, exit, wait, *)
(* suspend, resume, yield, sysconf and setPriority.                        *)
(*                                                                         *)
(* A call is made by a running process and runs to its end; calls of       *)
(* processes on different processors interleave.  makeRunnable is the last *)
(* thing a call does (see eventExit), and may end by making the process it *)
(* preempted runnable in turn: `pending' is its argument, and while there  *)
(* is one nothing else runs.                                               *)
(***************************************************************************)
EXTENDS Integers, Sequences, FiniteSets, FiniteSetsExt, SequencesExt

CONSTANTS
  Pids,          (* process ids                                            *)
  Cpus,          (* processor numbers                                      *)
  maxFlows,      (* maxFlows[c]: flows of processor c, several on an SMT   *)
  Priorities,    (* lower is better; 0 by default                          *)
  SuspendBound,  (* bound: how far suspendedCounter is from 0              *)
  None           (* the null pointer                                       *)

ASSUME PidAssumption == IsFiniteSet(Pids) /\ Pids # {} /\ None \notin Pids
ASSUME CpuAssumption ==
  /\ IsFiniteSet(Cpus) /\ Cpus \subseteq Nat /\ Cpus # {}
  /\ maxFlows \in [Cpus -> Nat \ {0}]
ASSUME BoundAssumption ==
  Priorities \subseteq Int /\ 0 \in Priorities /\ SuspendBound \in Nat

VARIABLES
  pidTable,             (* pidTable[p]: the ProcessId of p                 *)
  processQueue,         (* the runnable processes                          *)
  flow,                 (* flow[c]: processes in the fetch engines of c    *)
  availableProcessors,  (* how often c is in the multiset                  *)
  workingList,          (* the processors run() clocks                     *)
  pending,              (* the process makeRunnable is called for          *)
  adopted,              (* history: created with children of an earlier    *)
                        (* process of the same pid still alive             *)
  displaced             (* history: ready, but switched out, passed over   *)
                        (* or reconfigured since makeRunnable left it so   *)

vars == <<pidTable, processQueue, flow, availableProcessors, workingList,
          pending, adopted, displaced>>

AnyCpu == -1
ProcessState == {"Free", "Invalid", "Ready", "Running", "Suspended", "Waiting"}

(* nChilds is unsigned in the code, but only ever compared with 0.         *)
ProcessId == [state: ProcessState, ppid: Pids \cup {None},
              cpu: Cpus \cup {AnyCpu}, migrable: BOOLEAN, pinned: BOOLEAN,
              priority: Priorities, nChilds: Int,
              suspendedCounter: -SuspendBound .. SuspendBound]

(* SESC_FLAG_NOMIGRATE and SESC_FLAG_MAP with its processor.               *)
Flags == [migrate: BOOLEAN, map: Cpus \cup {AnyCpu}]

NoProcess == [state |-> "Free", ppid |-> None, cpu |-> AnyCpu, migrable |-> TRUE,
              pinned |-> FALSE, priority |-> 0, nChilds |-> 0,
              suspendedCounter |-> 0]

(* The types of the process table, the queue and the processors' tables.   *)
TypeOK ==
  /\ pidTable \in [Pids -> ProcessId]
  /\ processQueue \in Seq(Pids)
  /\ flow \in [Cpus -> SUBSET Pids]
  /\ availableProcessors \in [Cpus -> Nat]
  /\ workingList \subseteq Cpus
  /\ pending \in Pids \cup {None}
  /\ adopted \subseteq Pids /\ displaced \subseteq Pids
-----------------------------------------------------------------------------
(***************************************************************************)
(* The state a call works on, as a record its steps transform.             *)
(***************************************************************************)
Now == [proc |-> pidTable, queue |-> processQueue, flow |-> flow,
        avail |-> availableProcessors, working |-> workingList]

(* The call leaves state s; D are the processes it displaced.              *)
Becomes(s, D) ==
  /\ pidTable' = s.proc /\ processQueue' = s.queue /\ flow' = s.flow
  /\ availableProcessors' = s.avail /\ workingList' = s.working
  /\ displaced' = {p \in displaced \cup D : s.proc[p].state = "Ready"}

setState(s, p, st) == [s EXCEPT !.proc[p].state = st]
availableFlows(s, c) == maxFlows[c] - Cardinality(s.flow[c])

(* A ready process that may run on processor c.                            *)
fits(s, p, c) ==
  /\ s.proc[p].state = "Ready"
  /\ ~s.proc[p].pinned \/ s.proc[p].cpu = c

workingListAdd(s, c) ==
  [s EXCEPT !.avail[c] = IF @ > 0 THEN @ - 1 ELSE 0, !.working = @ \cup {c}]

(* Mutant: inserted although it is there.                                  *)
mutInsertAgain(s, c) == [s EXCEPT !.avail[c] = @ + 1]

(* The processor stays in workingList while it drains its instructions.    *)
workingListRemove(s, c) ==
  [s EXCEPT !.avail[c] = IF @ = 0 THEN 1 ELSE @]

switchIn(s, c, p) ==
  LET t == workingListAdd(s, c) IN
  [t EXCEPT !.proc[p].cpu = c, !.proc[p].state = "Running",
            !.proc[p].pinned = @ \/ ~s.proc[p].migrable,
            !.flow[c] = @ \cup {p}]

switchOut(s, c, p) ==
  workingListRemove([setState(s, p, "Ready") EXCEPT !.flow[c] = @ \ {p}], c)

(***************************************************************************)
(* The process queue                                                       *)
(***************************************************************************)
prio(s, p) == s.proc[p].priority
positionOf(s, p) == CHOOSE i \in DOMAIN s.queue : s.queue[i] = p

queueInsertAt(s, p, j) == [s EXCEPT !.queue = InsertAt(@, j, p)]
queueRemove(s, p) == [s EXCEPT !.queue = RemoveAt(@, positionOf(s, p))]

(* Mutant: the process keeps its position.                                 *)
mutStaysBehind(s, p, k) == k

(* Where queuePromote stops on its way from position k to the front.       *)
promotedTo(s, p, k) ==
  1 + Max({0} \cup {i \in 1 .. k - 1 : prio(s, s.queue[i]) <= prio(s, p)})

(* Mutants: a process that waits is evicted; a pinned process evicts no    *)
(* other.                                                                  *)
mutEvictReady(s, p, k) ==
  LET passed == promotedTo(s, p, k) .. k - 1 IN
  IF passed = {} THEN None ELSE s.queue[Max(passed)]

mutPinnedWaits(s, p, k) ==
  LET passed == {i \in promotedTo(s, p, k) .. k - 1 :
                   LET v == s.queue[i] IN
                   s.proc[v].state = "Running" /\ ~s.proc[p].pinned} IN
  IF passed = {} THEN None ELSE s.queue[Max(passed)]

(* What it returns: the last running process it passed that p can replace. *)
victimOf(s, p, k) ==
  LET passed == {i \in promotedTo(s, p, k) .. k - 1 :
                   LET v == s.queue[i] IN
                   /\ s.proc[v].state = "Running"
                   /\ ~s.proc[p].pinned \/ s.proc[p].cpu = s.proc[v].cpu} IN
  IF passed = {} THEN None ELSE s.queue[Max(passed)]

(* Where queueDemote stops on its way from position k to the end, in the   *)
(* queue without p, and the process to run in place of p.                  *)
demotedTo(s, p, k) ==
  Min({Len(s.queue) + 1} \cup
      {i \in k + 1 .. Len(s.queue) : prio(s, s.queue[i]) > prio(s, p)}) - 1

successorOf(s, p, k) ==
  LET passed == {i \in k + 1 .. demotedTo(s, p, k) :
                   fits(s, s.queue[i], s.proc[p].cpu)} IN
  IF passed = {} THEN None ELSE s.queue[Min(passed)]

queueGet(s, c) ==
  LET ready == {i \in DOMAIN s.queue : fits(s, s.queue[i], c)} IN
  IF ready = {} THEN None ELSE s.queue[Min(ready)]

(***************************************************************************)
(* ProcessId: configuration and creation                                   *)
(***************************************************************************)
(* sysconf refuses to move a runnable process to another processor.        *)
refuses(q, f) ==
  /\ q.state \in {"Running", "Ready"}
  /\ ~f.migrate /\ f.map # AnyCpu /\ f.map # q.cpu

sysconf(q, f) ==
  IF q.state = "Running"
    THEN [q EXCEPT !.migrable = f.migrate, !.pinned = ~f.migrate]
    ELSE [q EXCEPT !.migrable = f.migrate, !.cpu = f.map,
                   !.pinned = ~f.migrate /\ f.map # AnyCpu]

create(s, parent, p, f) ==
  LET q == sysconf([NoProcess EXCEPT !.state = "Invalid", !.ppid = parent], f) IN
  [s EXCEPT !.proc[p] = q, !.proc[parent].nChilds = @ + 1]

(* Mutant: the parent keeps counting the child.                            *)
mutKeepCounting(s, p) == [s EXCEPT !.proc[p] = NoProcess]

destroy(s, p) ==
  LET parent == s.proc[p].ppid
      t == IF parent # None /\ s.proc[parent].state # "Free"
             THEN [s EXCEPT !.proc[parent].nChilds = @ - 1] ELSE s IN
  [t EXCEPT !.proc[p] = NoProcess]

(***************************************************************************)
(* RunningProcs                                                            *)
(***************************************************************************)
becomeNonReady(s, p) == queueRemove(setState(s, p, "Invalid"), p)

(* Mutant: nobody takes over the flow.                                     *)
mutLeaveIdle(s, p) ==
  IF s.proc[p].state # "Running" THEN becomeNonReady(s, p)
  ELSE becomeNonReady(switchOut(s, s.proc[p].cpu, p), p)

makeNonRunnable(s, p) ==
  LET c    == s.proc[p].cpu
      out  == becomeNonReady(switchOut(s, c, p), p)
      next == queueGet(out, c) IN
  IF s.proc[p].state # "Running" THEN becomeNonReady(s, p)
  ELSE IF next = None THEN out ELSE switchIn(out, c, next)

becomeReady(s, p) ==
  queueInsertAt(setState(s, p, "Ready"), p, promotedTo(s, p, Len(s.queue) + 1))

(* The processors getAvailableProcessor may return: the multiset is ordered*)
(* by address, an idle processor comes first, and if the multiset is empty *)
(* the first processor with a free flow will do.                           *)
getAvailableProcessor(s) ==
  LET listed == {c \in Cpus : s.avail[c] > 0}
      idle   == {c \in listed : availableFlows(s, c) = maxFlows[c]}
      free   == {c \in Cpus : availableFlows(s, c) > 0} IN
  IF listed = {} THEN {c \in free : c = Min(free)}
  ELSE IF idle # {} THEN idle ELSE listed

wantsCpu(p) ==
  LET c == pidTable[p].cpu IN c # AnyCpu /\ availableFlows(Now, c) > 0
elsewhere(p) == IF pidTable[p].pinned THEN {} ELSE getAvailableProcessor(Now)
victim(p) == victimOf(setState(Now, p, "Ready"), p, Len(processQueue) + 1)

runWhereWanted(p) ==
  /\ pending = p /\ wantsCpu(p)
  /\ Becomes(switchIn(becomeReady(Now, p), pidTable[p].cpu, p), {})
  /\ pending' = None /\ UNCHANGED adopted

runElsewhere(p, c) ==
  /\ pending = p /\ ~wantsCpu(p) /\ c \in elsewhere(p)
  /\ Becomes(switchIn(becomeReady(Now, p), c, p), {})
  /\ pending' = None /\ UNCHANGED adopted

(* The victim is switched out and made runnable again after p.             *)
preempt(p) ==
  LET v == victim(p)
      c == pidTable[v].cpu
      s == switchIn(switchOut(becomeReady(Now, p), c, v), c, p) IN
  /\ pending = p /\ ~wantsCpu(p) /\ elsewhere(p) = {} /\ v # None
  /\ Becomes(becomeNonReady(s, v), {})
  /\ pending' = v /\ UNCHANGED adopted

waitItsTurn(p) ==
  /\ pending = p /\ ~wantsCpu(p) /\ elsewhere(p) = {} /\ victim(p) = None
  /\ Becomes(becomeReady(Now, p), {})
  /\ pending' = None /\ UNCHANGED adopted

makeRunnable(p) ==
  runWhereWanted(p) \/ (\E c \in Cpus : runElsewhere(p, c)) \/ preempt(p) \/ waitItsTurn(p)

(* run() meets a processor that has no work left.                          *)
idle(c) ==
  /\ pending = None /\ c \in workingList /\ flow[c] = {}
  /\ Becomes([workingListRemove(Now, c) EXCEPT !.working = @ \ {c}], {})
  /\ UNCHANGED <<pending, adopted>>
-----------------------------------------------------------------------------
(***************************************************************************)
(* The calls.  A running process makes them, about itself or another.      *)
(***************************************************************************)
st(p) == pidTable[p].state
Runnable(q) == q.state \in {"Ready", "Running"}
Live == {p \in Pids : st(p) # "Free"}
calls(p) == pending = None /\ st(p) = "Running"

eventSpawn(p, child, f) ==
  /\ calls(p) /\ st(child) = "Free"
  /\ Becomes(create(Now, p, child, f), {})
  /\ pending' = child
  /\ adopted' = IF \E q \in Live : pidTable[q].ppid = child
                  THEN adopted \cup {child} ELSE adopted

(* The parent is made runnable before p is destroyed in the code; p is in  *)
(* no queue and on no processor by then.                                   *)
wakesParent(p) == LET parent == pidTable[p].ppid IN
                  parent # None /\ st(parent) = "Waiting"

eventExit(p) ==
  LET parent == pidTable[p].ppid
      s      == makeNonRunnable(Now, p)
      t      == IF wakesParent(p) THEN setState(s, parent, "Invalid") ELSE s IN
  /\ calls(p)
  /\ Becomes(destroy(t, p), {})
  /\ pending' = IF wakesParent(p) THEN parent ELSE None
  /\ adopted' = adopted \ {p}

eventWait(p) ==
  /\ calls(p) /\ pidTable[p].nChilds # 0
  /\ Becomes(setState(makeNonRunnable(Now, p), p, "Waiting"), {})
  /\ UNCHANGED <<pending, adopted>>

(* A process that waits or is being created is not suspended: asserted.    *)
eventSuspend(p, q) ==
  LET s == [Now EXCEPT !.proc[q].suspendedCounter = @ + 1] IN
  /\ calls(p) /\ st(q) \in {"Ready", "Running", "Suspended"}
  /\ pidTable[q].suspendedCounter < SuspendBound
  /\ IF st(q) # "Suspended" /\ s.proc[q].suspendedCounter > 0
       THEN Becomes(setState(makeNonRunnable(s, q), q, "Suspended"), {})
       ELSE Becomes(s, {})
  /\ UNCHANGED <<pending, adopted>>

eventResume(p, q) ==
  LET s == [Now EXCEPT !.proc[q].suspendedCounter = @ - 1] IN
  /\ calls(p) /\ st(q) # "Free"
  /\ pidTable[q].suspendedCounter > -SuspendBound
  /\ IF st(q) = "Suspended" /\ s.proc[q].suspendedCounter <= 0
       THEN Becomes(setState(s, q, "Invalid"), {}) /\ pending' = q
       ELSE Becomes(s, {}) /\ UNCHANGED pending
  /\ UNCHANGED adopted

(* q is the process named in the call, or the first that fits if none is;  *)
(* waiting processes ahead of q are passed over.                           *)
eventYield(p, q) ==
  LET c     == pidTable[p].cpu
      ahead == {u \in Pids : fits(Now, u, c) /\ positionOf(Now, u) < positionOf(Now, q)} IN
  /\ calls(p) /\ fits(Now, q, c)
  /\ Becomes(switchIn(switchOut(Now, c, p), c, q), {p} \cup ahead)
  /\ UNCHANGED <<pending, adopted>>

eventSysconf(p, q, f) ==
  /\ calls(p) /\ st(q) # "Free"
  /\ IF refuses(pidTable[q], f)
       THEN LET s == makeNonRunnable(Now, q) IN
            Becomes([s EXCEPT !.proc[q] = sysconf(@, f)], {}) /\ pending' = q
       ELSE Becomes([Now EXCEPT !.proc[q] = sysconf(@, f)], {q}) /\ UNCHANGED pending
  /\ UNCHANGED adopted

(* Process b takes the processor of process a.                             *)
swap(s, a, b) == LET c == s.proc[a].cpu IN switchIn(switchOut(s, c, a), c, b)

setPriority(q, n) ==
  LET old   == pidTable[q].priority
      k     == positionOf(Now, q)
      s     == [Now EXCEPT !.proc[q].priority = n]
      moved == queueInsertAt(queueRemove(s, q), q,
                             IF n < old THEN promotedTo(s, q, k) ELSE demotedTo(s, q, k))
      other == IF n < old THEN victimOf(s, q, k) ELSE successorOf(s, q, k) IN
  /\ pending = None /\ st(q) # "Free" /\ n # old
  /\ IF ~Runnable(pidTable[q]) THEN Becomes(s, {})
     ELSE IF other # None /\ n > old /\ st(q) = "Running"
       THEN Becomes(swap(moved, q, other), {q})
     ELSE IF other # None /\ n < old /\ st(q) = "Ready"
       THEN Becomes(swap(moved, other, q), {other})
     ELSE Becomes(moved, {})
  /\ UNCHANGED <<pending, adopted>>

(* boot() has spawned the first process, without a parent.                 *)
Init ==
  /\ \E p \in Pids :
       /\ pidTable = [q \in Pids |->
                       IF q = p THEN [NoProcess EXCEPT !.state = "Invalid"] ELSE NoProcess]
       /\ pending = p
  /\ processQueue = <<>>
  /\ flow = [c \in Cpus |-> {}]
  /\ availableProcessors = maxFlows
  /\ workingList = {} /\ adopted = {} /\ displaced = {}

Call(p) ==
  \/ eventExit(p) \/ eventWait(p)
  \/ \E q \in Pids : \/ eventSuspend(p, q) \/ eventResume(p, q) \/ eventYield(p, q)
                     \/ \E f \in Flags : eventSpawn(p, q, f) \/ eventSysconf(p, q, f)

Next ==
  \/ \E p \in Pids : makeRunnable(p) \/ Call(p)
  \/ \E q \in Pids, n \in Priorities : setPriority(q, n)
  \/ \E c \in Cpus : idle(c)

Spec == Init /\ [][Next]_vars
-----------------------------------------------------------------------------
(***************************************************************************)
(* Properties                                                              *)
(***************************************************************************)
(* The processor a process is recorded on and the fetch engine that holds  *)
(* it agree after every call, swaps and preemptions included; no processor *)
(* holds more than its flows, and one that holds a process is clocked.     *)
RunningAgrees ==
  \A c \in Cpus :
    /\ flow[c] = {p \in Pids : st(p) = "Running" /\ pidTable[p].cpu = c}
    /\ Cardinality(flow[c]) <= maxFlows[c]
    /\ flow[c] # {} => c \in workingList

(* The multiset of available processors never promises a flow that is      *)
(* taken, and lists every idle processor, although switching out adds to   *)
(* it only if the processor is not in it at all.                           *)
AvailableSound ==
  \A c \in Cpus :
    /\ availableProcessors[c] <= availableFlows(Now, c)
    /\ flow[c] = {} => availableProcessors[c] > 0

(* The queue holds exactly the runnable processes, once each, the better   *)
(* priorities first, whatever promotions and demotions moved them.         *)
QueueExact ==
  /\ Cardinality(Range(processQueue)) = Len(processQueue)
  /\ Range(processQueue) = {p \in Pids : Runnable(pidTable[p])}
  /\ \A i, j \in DOMAIN processQueue :
       i < j => prio(Now, processQueue[i]) <= prio(Now, processQueue[j])

(* A process that makeRunnable left waiting its turn does not wait while a *)
(* processor that may run it has a free flow.                              *)
WorkConserving ==
  pending = None =>
    \A p \in Pids \ displaced, c \in Cpus :
      fits(Now, p, c) => availableFlows(Now, c) = 0

(* Nor does it wait while a process of worse priority runs where it may.   *)
NoInversion ==
  pending = None =>
    \A p \in Pids \ displaced, c \in Cpus :
      fits(Now, p, c) => \A u \in flow[c] : prio(Now, u) <= prio(Now, p)

(* What sesc_wait goes by: the children a process counts are those alive,  *)
(* and a process waits only while it has one.                              *)
NChildsExact ==
  \A p \in Live \ adopted :
    /\ pidTable[p].nChilds = Cardinality({q \in Live : pidTable[q].ppid = p})
    /\ st(p) = "Waiting" => pidTable[p].nChilds > 0
=============================================================================
