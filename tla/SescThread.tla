----------------------------- MODULE SescThread -----------------------------
(***************************************************************************)
(* sesc_thread.c of libapp: sesc_spawn, sesc_wait and sesc_exit for        *)
(* applications that run natively, on POSIX threads, outside the simulator.*)
(* A table maps a thread's pid to its entry; wait_lock and hash_lock guard *)
(* short sections, each of which is one step.                              *)
(*                                                                         *)
(* The applications are structured: a thread calls sesc_wait once for each *)
(* thread it has spawned before its routine returns.                       *)
(***************************************************************************)
EXTENDS Integers, FiniteSets

CONSTANTS
  Pids,           (* threads, each created at most once                    *)
  Root,           (* the main thread                                       *)
  SESC_TABLESIZE,
  Offset,         (* what sesc_spawn adds to a pid to make up another      *)
  MaxSpawns       (* bound: threads spawned by one thread                  *)

(* What the constants have to satisfy.  A pid that is made up is at least  *)
(* Offset + 1 above another: it has to be the pid of no thread, which the  *)
(* code takes for granted.                                                 *)
Parameters ==
  /\ Pids \subseteq Nat /\ IsFiniteSet(Pids) /\ Root \in Pids /\ Offset \in Nat
  /\ SESC_TABLESIZE \in Nat \ {0} /\ MaxSpawns \in Nat
  /\ \A p \in Pids, i \in 1 .. SESC_TABLESIZE + 1 : p + Offset + i \notin Pids

Slots == 0 .. SESC_TABLESIZE - 1
NoSlot == -1

VARIABLES
  table,              (* table[s]: the entry in slot s                     *)
  nConcurrentThreads,
  pc,                 (* pc[p]: where thread p is                          *)
  tf,                 (* tf[p]: the entry its current call works on        *)
  own,                (* own[p]: its own entry (tf of sesc_spawn_wrapper)  *)
  arg,                (* arg[p]: the entry with its arguments (tempArg)    *)
  aborted,            (* an assertion has failed                           *)
  parent,             (* history: the thread that created p                *)
  spawned,            (* history: threads p has created                    *)
  finished,           (* history: of those, the ones past their routine    *)
  returned            (* history: calls of sesc_wait that have returned    *)

vars == <<table, nConcurrentThreads, pc, tf, own, arg, aborted, parent,
          spawned, finished, returned>>

Entry == [inUse: BOOLEAN, nPid: Nat, ppid: Pids, thr: Pids,
          nWaiting: Int, doWait: BOOLEAN, locked: BOOLEAN]

(* The types, and nConcurrentThreads never leaves 1 .. the number of       *)
(* threads: sesc_spawn and sesc_spawn_wrapper count each thread once.      *)
TypeOK ==
  /\ table \in [Slots -> Entry]
  /\ nConcurrentThreads \in 1 .. Cardinality(Pids)
  /\ pc \in [Pids -> {"none", "start", "free", "run", "count", "create",
                      "register", "return", "block", "find", "awake", "drop",
                      "done"}]
  /\ tf \in [Pids -> Slots \cup {NoSlot}]
  /\ own \in [Pids -> Slots \cup {NoSlot}]
  /\ arg \in [Pids -> Slots \cup {NoSlot}]
  /\ aborted \in BOOLEAN
  /\ parent \in [Pids -> Pids]
  /\ spawned \in [Pids -> Nat] /\ finished \in [Pids -> Nat]
  /\ returned \in [Pids -> Nat]
-----------------------------------------------------------------------------
(* The slots in the order in which a pid's are tried, and the first good.  *)
probe(p, i) == (p + i) % SESC_TABLESIZE
firstOf(p, good) ==
  IF good = {} THEN NoSlot
  ELSE probe(p, CHOOSE i \in Slots :
                  /\ probe(p, i) \in good
                  /\ \A j \in 0 .. i - 1 : probe(p, j) \notin good)

entriesOf(p) == {s \in Slots : table[s].inUse /\ table[s].nPid = p}
TableFindEntry(p) == firstOf(p, entriesOf(p))

(* TableNewEntry: with no free slot it never returns.  The fields it does  *)
(* not set keep their values.                                              *)
freeFor(p) == firstOf(p, {s \in Slots : ~table[s].inUse})
newEntry(s, p) ==
  [table[s] EXCEPT !.inUse = TRUE, !.nPid = p, !.nWaiting = 0, !.doWait = FALSE,
                   !.locked = TRUE]

(* sesc_init                                                               *)
Init ==
  /\ table = [x \in Slots |->
                [inUse |-> x = probe(Root, 0), nPid |-> Root, ppid |-> Root,
                 thr |-> Root, nWaiting |-> 0, doWait |-> FALSE, locked |-> TRUE]]
  /\ own = [p \in Pids |-> IF p = Root THEN probe(Root, 0) ELSE NoSlot]
  /\ nConcurrentThreads = 1
  /\ pc = [p \in Pids |-> IF p = Root THEN "run" ELSE "none"]
  /\ tf = [p \in Pids |-> NoSlot] /\ arg = [p \in Pids |-> NoSlot]
  /\ aborted = FALSE
  /\ parent = [p \in Pids |-> Root]
  /\ spawned = [p \in Pids |-> 0] /\ finished = [p \in Pids |-> 0]
  /\ returned = [p \in Pids |-> 0]

at(p, l) == pc[p] = l /\ ~aborted
goTo(p, l) == pc' = [pc EXCEPT ![p] = l]
-----------------------------------------------------------------------------
(***************************************************************************)
(* sesc_spawn                                                              *)
(***************************************************************************)
(* The entry that passes the arguments is filed under a pid of no thread.  *)
fakePid(p) ==
  p + Offset + (CHOOSE i \in 1 .. SESC_TABLESIZE + 1 :
                  /\ entriesOf(p + Offset + i) = {}
                  /\ \A j \in 1 .. i - 1 : entriesOf(p + Offset + j) # {})

(* Bounds: MaxSpawns, and a pid is left for every thread being created.    *)
spawn(p) ==
  /\ at(p, "run") /\ spawned[p] < MaxSpawns
  /\ Cardinality({q \in Pids : pc[q] \in {"count", "create"}})
       < Cardinality({c \in Pids : pc[c] = "none"})
  /\ LET pid == fakePid(p)
         s == freeFor(pid)
     IN /\ s # NoSlot
        /\ table' = [table EXCEPT ![s] = [newEntry(s, pid) EXCEPT !.ppid = p]]
        /\ tf' = [tf EXCEPT ![p] = s]
  /\ goTo(p, "count")
  /\ UNCHANGED <<nConcurrentThreads, own, arg, aborted, parent, spawned,
                 finished, returned>>

spawnCount(p) ==
  /\ at(p, "count")
  /\ nConcurrentThreads' = nConcurrentThreads + 1
  /\ goTo(p, "create")
  /\ UNCHANGED <<table, tf, own, arg, aborted, parent, spawned, finished,
                 returned>>

(* pthread_create stores the new pid in the entry of the arguments.        *)
spawnCreate(p, c) ==
  /\ at(p, "create") /\ pc[c] = "none"
  /\ table' = [table EXCEPT ![tf[p]].thr = c]
  /\ arg' = [arg EXCEPT ![c] = tf[p]]
  /\ pc' = [pc EXCEPT ![p] = "register", ![c] = "start"]
  /\ parent' = [parent EXCEPT ![c] = p]
  /\ spawned' = [spawned EXCEPT ![p] = @ + 1]
  /\ UNCHANGED <<nConcurrentThreads, tf, own, aborted, finished, returned>>

(* An entry for the new thread, made by whoever comes first.               *)
makeEntry(s, p, from) ==
  table' = [table EXCEPT ![s] = [newEntry(s, p) EXCEPT !.ppid = table[from].ppid]]

spawnRegister(p) ==
  LET thr == table[tf[p]].thr IN
  /\ at(p, "register")
  /\ IF TableFindEntry(thr) = NoSlot
     THEN freeFor(thr) # NoSlot /\ makeEntry(freeFor(thr), thr, tf[p])
     ELSE UNCHANGED table
  /\ goTo(p, "return")
  /\ UNCHANGED <<nConcurrentThreads, tf, own, arg, aborted, parent, spawned,
                 finished, returned>>

spawnReturn(p) ==
  /\ at(p, "return")
  /\ goTo(p, "run")
  /\ UNCHANGED <<table, nConcurrentThreads, tf, own, arg, aborted, parent,
                 spawned, finished, returned>>

(***************************************************************************)
(* sesc_spawn_wrapper, in the new thread                                   *)
(***************************************************************************)
(* Mutant: the entry the spawner may have made is not looked for.          *)
mutSecondEntry(c) ==
  /\ at(c, "start")
  /\ freeFor(c) # NoSlot /\ makeEntry(freeFor(c), c, arg[c])
  /\ own' = [own EXCEPT ![c] = freeFor(c)]
  /\ goTo(c, "free")
  /\ UNCHANGED <<nConcurrentThreads, tf, arg, aborted, parent, spawned,
                 finished, returned>>

wrapperStart(c) ==
  /\ at(c, "start")
  /\ IF TableFindEntry(c) = NoSlot
     THEN /\ freeFor(c) # NoSlot /\ makeEntry(freeFor(c), c, arg[c])
          /\ own' = [own EXCEPT ![c] = freeFor(c)]
     ELSE own' = [own EXCEPT ![c] = TableFindEntry(c)] /\ UNCHANGED table
  /\ goTo(c, "free")
  /\ UNCHANGED <<nConcurrentThreads, tf, arg, aborted, parent, spawned,
                 finished, returned>>

wrapperFree(c) ==
  /\ at(c, "free")
  /\ table' = [table EXCEPT ![arg[c]].inUse = FALSE]
  /\ goTo(c, "run")
  /\ UNCHANGED <<nConcurrentThreads, tf, own, arg, aborted, parent, spawned,
                 finished, returned>>

(* The routine has returned.                                               *)
wrapperExit(c) ==
  /\ at(c, "run") /\ c # Root /\ returned[c] = spawned[c]
  /\ nConcurrentThreads' = nConcurrentThreads - 1
  /\ finished' = [finished EXCEPT ![parent[c]] = @ + 1]
  /\ goTo(c, "find")
  /\ UNCHANGED <<table, tf, own, arg, aborted, parent, spawned, returned>>

wrapperDrop(c) ==
  /\ at(c, "drop")
  /\ table' = [table EXCEPT ![own[c]].inUse = FALSE]
  /\ goTo(c, "done")
  /\ UNCHANGED <<nConcurrentThreads, tf, own, arg, aborted, parent, spawned,
                 finished, returned>>

(* sesc_exit in the main thread: the others may still be on their way out. *)
sesc_exit ==
  /\ at(Root, "run") /\ returned[Root] = spawned[Root]
  /\ table' = [table EXCEPT ![TableFindEntry(Root)].inUse = FALSE]
  /\ goTo(Root, "done")
  /\ UNCHANGED <<nConcurrentThreads, tf, own, arg, aborted, parent, spawned,
                 finished, returned>>

(***************************************************************************)
(* awakeWaiting, called for the parent of a thread that ends               *)
(***************************************************************************)
awakeFind(c) ==
  LET found == TableFindEntry(table[own[c]].ppid) IN
  /\ at(c, "find")
  /\ tf' = [tf EXCEPT ![c] = found]
  /\ goTo(c, IF found = NoSlot THEN "drop" ELSE "awake")
  /\ UNCHANGED <<table, nConcurrentThreads, own, arg, aborted, parent, spawned,
                 finished, returned>>

(* Mutant: the mutex is not unlocked.                                      *)
mutNoUnlock(e) == [e EXCEPT !.nWaiting = @ - 1, !.doWait = FALSE]

awoken(e) ==
  [e EXCEPT !.nWaiting = @ - 1, !.doWait = FALSE,
            !.locked = IF e.doWait THEN FALSE ELSE @]

awakeWaiting(c) ==
  LET e == table[tf[c]] IN
  /\ at(c, "awake")
  /\ aborted' = (e.doWait /\ e.nWaiting - 1 # 0)
  /\ table' = [table EXCEPT ![tf[c]] = awoken(e)]
  /\ goTo(c, "drop")
  /\ UNCHANGED <<nConcurrentThreads, tf, own, arg, parent, spawned, finished,
                 returned>>

(***************************************************************************)
(* sesc_wait: addWaiting for the thread itself                             *)
(***************************************************************************)
(* Mutant: a thread waits only while nobody has ended.                     *)
mutNotYet(e) == e.nWaiting + 1 > 1 /\ nConcurrentThreads > 1

mustWait(e) == e.nWaiting + 1 > 0 /\ nConcurrentThreads > 1

addWaiting(e) == [e EXCEPT !.nWaiting = @ + 1, !.doWait = mustWait(e)]

wait(p) ==
  /\ at(p, "run") /\ returned[p] < spawned[p]
  /\ LET s == TableFindEntry(p) IN
       /\ table' = [table EXCEPT ![s] = addWaiting(table[s])]
       /\ tf' = [tf EXCEPT ![p] = s]
       /\ IF mustWait(table[s])
          THEN goTo(p, "block") /\ UNCHANGED returned
          ELSE returned' = [returned EXCEPT ![p] = @ + 1] /\ UNCHANGED pc
  /\ UNCHANGED <<nConcurrentThreads, own, arg, aborted, parent, spawned,
                 finished>>

(* pthread_mutex_lock returns.                                             *)
waitEnds(p) ==
  /\ at(p, "block") /\ ~table[tf[p]].locked
  /\ table' = [table EXCEPT ![tf[p]].locked = TRUE]
  /\ returned' = [returned EXCEPT ![p] = @ + 1]
  /\ goTo(p, "run")
  /\ UNCHANGED <<nConcurrentThreads, tf, own, arg, aborted, parent, spawned,
                 finished>>
-----------------------------------------------------------------------------
Runs(p) ==
  \/ spawnCount(p) \/ (\E c \in Pids : spawnCreate(p, c)) \/ spawnRegister(p)
  \/ spawnReturn(p)
  \/ wrapperStart(p) \/ wrapperFree(p) \/ wrapperExit(p) \/ wrapperDrop(p)
  \/ awakeFind(p) \/ awakeWaiting(p) \/ wait(p) \/ waitEnds(p)

Next == sesc_exit \/ \E p \in Pids : Runs(p) \/ spawn(p)

Spec == Init /\ [][Next]_vars
-----------------------------------------------------------------------------
inRoutine(p) == pc[p] \in {"run", "count", "create", "register", "return", "block"}

(* A thread in its routine has exactly one entry in the table, its own,    *)
(* which sesc_wait uses without a check: spawner and spawned both try to   *)
(* make it.                                                                *)
OneEntry == \A p \in Pids : inRoutine(p) => entriesOf(p) = {own[p]}

(* sesc_wait returns at most once for each thread that has ended.          *)
WaitJoins == \A p \in Pids : returned[p] <= finished[p]

(* A thread blocked in sesc_wait is awakened, by the end of a thread that  *)
(* it spawned, however the two interleave.                                 *)
WaitReturns == \A p \in Pids : pc[p] = "block" ~> (pc[p] # "block" \/ aborted)

(* awakeWaiting asserts that the thread it wakes waits for nobody else:    *)
(* nWaiting is 0.                                                          *)
AwakeAssertion == ~aborted
=============================================================================
