# A TLA+ verification project for SESC

SESC is a cycle-level simulator of multiprocessors: an event-driven program that
interprets the instructions of an application (`libll`, `libmint`), passes them
through models of out-of-order processors (`libcore`), caches and memories
(`libmem`, `libsmp`, `libnet`), and emulates an operating system for the
application's threads (`libcore`). Applications call it through a small library
(`libapp`), which also has a native version on POSIX threads.

The project models the parts of SESC whose correctness depends on the order in
which things happen: coherence, caches and their request buffers, the DRAM scheduler,
the pipeline of a processor, the scheduling of simulated threads, the event queue, the network, and the
synchronisation library. TLC checks the
models on small instances, and TLAPS proves some of the properties for all
instances. `PROJECT.json` says for every definition which lines it models, which
properties each run checks, and which hazard of the code each property is about.

The simulator is single-threaded. Concurrency in it comes from its event queue:
each handler runs to its end, schedules callbacks at later times, and the
callbacks of different requests interleave. Delays depend on contention and
configuration, so most models let any pending callback run next; the event queue itself,
and the network, which is modelled on top of it, keep time. Some callbacks
are called synchronously inside other handlers, and those nested calls are
modelled as such (with an explicit stack). The application library, by contrast,
runs in truly concurrent threads, so there every shared access is a step.

## 1. Inventory

| Component | State | Operations | Interacts with | What makes it hard |
|---|---|---|---|---|
| SMP memory system (`libsmp`) | line states, `outsReq`, static `mutExclBuffer`, `pendReqsTable`, `pendInvTable` | read, write, snoop, invalidate, write-back, acknowledge | processor or caches above, bus, memory below | snoop answers in any order, nested callbacks, transient states, replacement races |
| MSHR (`libsuc/MSHR`) | entries, sub-entry lists, free/full counters, overflow queue | issue, addEntry, retire, canAcceptRequest, checkOverflow | caches, through callbacks | re-entrance, incremental counters, order within a line |
| DDR2 channel (`libmem/DDR2`) | arrival queue, scheduler slots, bank/rank/channel timing | arrive, enqueue, schedule, precharge, activate, read, write | bus above | cached flags, timing arithmetic, slot reuse, starvation |
| Operating system emulation (`OSSim`, `ProcessId`, `RunningProcs`) | process table, run queue, processor lists | spawn, exit, wait, suspend, resume, yield, sysconf, setPriority | fetch engines, front end | recursive preemption, three representations of "who runs where", pid reuse |
| Synchronisation (`libapp/sesc_locks.c`) | lock word, barrier count and sense, semaphore, flag | lock, unlock, barrier, psema, vsema, flag wait/set/clear | application threads | true concurrency, reuse of a barrier |
| Native threads (`libapp/sesc_thread.c`) | hash table of threads, counters, mutexes | spawn, wait, exit | POSIX threads | two-phase end of a child, racing table inserts |
| Caches (`libmem/Cache`, `libsuc/CacheCore`) | tags in LRU order, MSHR, write buffer, `pendInvTable` | access, callbacks of the MSHR, returnAccess, allocate, push, invalidate | processor or caches above, level below | four ways a write ends, replacements that wait for the caches above, retries |
| Buses, virtual memory (`libmem`) | queues, page table, TLBs | access, returnAccess, page fault | memory hierarchy | page faults |
| Processor (`libcore` FetchEngine, Pipeline, GProcessor, Cluster, DepWindow, Resource, LDSTBuffer, DInst) | buckets and clean marks, dependence lists, windows, load and store entries, ROB | fetch, decode, issue, execute, retire, wrong path | OSSim, caches | buckets that come back out of order, wrong-path instructions in flight, entries freed at different stages, fences |
| Network (`libnet`) | routing tables and their turns, ports of routers, messages | create tables, launch, forward, receive, notify | event queue, ports | tables computed in place, two lookups per hop, one message object for many callbacks |
| Event queue (`libsuc/TQueue`, `callback`) | circular array of lists, heap, clock | schedule, advanceClock | everything | wrap-around, moves from the heap, callbacks that are called inside their scheduling |
| Ports (`libsuc/Port`) | when units are free | nextSlot, occupySlots, calcNextSlot | caches, units, routers | five representations of one idea |
| Pools (`libsuc`) | free lists | in, out | everything | double free |
| Branch predictors, prefetchers, statistics, energy, thermal | tables | predict, update, report | pipeline | no correctness condition beyond bounds |
| Front ends (`libmint`, `libpint`, `libll`) | simulated memory, contexts | execute, system calls | OSSim | largely third-party instruction semantics |

`PROJECT.json` lists every component with its files, and the reason for each one that
is not modelled.

What makes the modelled components correct:

* **SMP**: at most one cache may write a line, and then no other may read it; dirty
  data is neither lost nor written back twice; every snoop is answered exactly
  once; a line leaves the caches above before it leaves this one; an access is
  acknowledged with the operation it came with, and eventually.
* **MSHR**: one request at a time owns a line; requests of a line are served in
  order; the counters are exact; nothing stays in the overflow queue for good;
  `canAcceptRequest` keeps its word.
* **Caches**: one miss per line is below, and belongs to the request that owns the MSHR
  entry; replacements that wait for the caches above do not touch each other's lines; the
  write buffer has exactly the writes under way.
* **Processor**: instructions leave in program order and each one leaves; buckets, window
  slots, load and store entries and pooled instructions are neither lost nor given out
  twice, on the right path and on the wrong one; dependences are those of the program; a load
  does not pass the store it depends on, nor a fence a store before it.
* **DDR2**: bursts do not overlap; a column command finds its own row; cached flags
  and the open-bank counters are exact; every reference completes.
* **OSSim**: process table, queue, fetch engines and available processors agree; no
  flow idles, and no better process waits, unless a call asked for it; a process waits only for children it has.
* **Event queue**: a callback is called once, in the clock it was scheduled for, before the clock goes on.
* **Ports**: the representation chosen for speed delays every use as the general one would.
* **Network**: messages travel by shortest paths, arrive, and are released once, when they have arrived everywhere.
* **libapp**: threads meet at a barrier, a lock excludes, every counted waiter of a
  flag gets its signal, `sesc_wait` joins.

## 2. Modules

| Module | Models | Proofs | Instance |
|---|---|---|---|
| `MESIState` | line states, their bit tests, `combineResponses` | | |
| `SMPSystem` (extends `MESIState`) | `SMPCache`, `MESIProtocol`, `SMPSystemBus`, `SMPMemRequest` | `SMPCoherenceProofs` | `MCSMPSystem`, `MCSMPLive` |
| `LineLock` | abstract: what a cache expects of an MSHR | | |
| `SingleMSHR` | `SingleMSHR`, `MSHRentry` | `CacheProofs` | `MCCache` |
| `CacheCore` | tag array: lookup, victim, fill | `CacheProofs` | `MCCache` |
| `Cache` (extends `SingleMSHR`, `CacheCore`) | `Cache`, `WBCache`, `WTCache` with their MSHR | `CacheProofs` | `MCCache` |
| `Pipeline` | `Pipeline`, `IBucket`, `PipeQueue` | `ProcessorProofs` | |
| `Processor` (uses `Pipeline`) | `FetchEngine`, `Processor`, `GProcessor`, `Cluster`, `DepWindow`, `Resource`, `LDSTBuffer`, `DInst`, and the requests between them and the caches | `ProcessorProofs` | `MCProcessor` |
| `DDR2` | `DDR2`, `DDR2Rank`, `DDR2Bank`, `MemRef` of one channel | `DDR2Proofs` | `MCDDR2`, `MCClocked` |
| `Agenda` | abstract: callbacks and the clocks they are due in | | |
| `TQueue` | the event queue, as operators | | |
| `Port` | ports, as operators | | |
| `PortUse` (extends `Port`) | the clients of one port | | `MCClocked` |
| `RoutingPolicy` | `RoutingPolicy` and its kinds, `RoutingTable` | | |
| `Network` (extends `TQueue`, `RoutingPolicy`, uses `Port`) | `Router`, `Message`, `InterConnection`, `EventScheduler` | | `MCClocked` |
| `OSSim` | `OSSim`, `ProcessId`, `RunningProcs` | `OSSimProofs` | `MCOSSim` |
| `Barrier` | abstract: a reusable barrier | | |
| `SescBarrier` | `sesc_barrier` | `ApplicationProofs` | `MCApplication` |
| `SescLocks` | locks, semaphores, flags | `SescLocksProofs` | `MCApplication` |
| `SescThread` | native spawn, wait, exit | `SescThreadProofs` | `MCApplication`, `MCSescThread` |

Definitions under a comment that begins with *Mutant* are wrong versions of the definition that follows them: each
is the plausible bug that a property is known to catch.

### SMPSystem

A request is a pair of a cache and a slot; `pc[r]` is the callback it waits for.
`line[c][a]` is the state of a line, `INVALID` when the cache does not hold it.
`outsReq[c][a]` and `mutExcl[a]` are the requests in a buffer's entry, the owner first.
`stack` holds the callbacks that are active: `concludeAccess` retires `outsReq` and
`mutExclBuffer`, and each retire calls the next waiter before it returns. While
the stack is not empty only its top runs. `snoop`, `acks`, `pendReqs` and `pendInv`
are the bus's and the caches' bookkeeping of outstanding answers. The history variable
`stale` says that the last write of a line has not been pushed below.

One action stands for one callback, or for one branch of it: the access and its lookup
(`doReadHit`, `doLookupMiss`, ...), `allocateLine` with its retry, the bus, the snoop and
the protocol's handlers, the answers, the invalidations of the caches above, the
acknowledgement, the two retirements and the write-backs. With `NUpper = 0`
the cache is the highest level, which is how the shipped configurations use it; with
`NUpper > 0` invalidations first go up and their answers are events.

Abstractions: the set a line maps to is one set of `Assoc` ways, and the victim is any unlocked
way (`CacheCore` picks by LRU). The two buffers never overflow here: overflow is
`SingleMSHR`'s subject, and `LineLock` is the link between the two. Addresses are lines.
Delays are left out.

### SingleMSHR and LineLock

`entry[a]` has the list of waiting requests and the free read and write
sub-entries. `retire` and `checkOverflow` are split at the callbacks they make, with the
frames on `stack`; a callback may retire its own request at once (a hit), add
requests, or leave its request for later. The loop of `checkOverflow` is one action
per turn, and its early return under `checkingOverflow` is there. `nWrites = 0` (sub-entries
shared between reads and writes) and `nWrites > 0` are both covered: it is chosen in
`Init`.

A request that is retired is destroyed, and its line and operation with it.

`LineLock` is a lock per line, granted in the order of arrival. `ImplementsLineLock`
maps the owner of a line to its holder, and the list of its entry followed by its
requests in the overflow queue to its waiters.

### Cache and CacheCore

`Cache` extends `SingleMSHR`: the buffer, its queues and its active calls are the ones above, and the
callbacks it makes are the cache's. A frame `callback` on the stack is `doReadQueued`,
`doWriteQueued` or `reexecuteDoWrite` above a `check` frame, and `activateOverflow` above a `pop`
frame; the buffer goes on when that handler has run. `stage[r]` is what the cache waits for, for
request `r`. A set is the sequence of its lines in the order of `content`, and every lookup moves the
line it finds to the front, as `findLineTag` does. `Conf` has the choices of the configuration: write-back or
write-through, highest level or not, inclusive or not, forwarding from the write buffer, associativity.

`allocateLine` has three outcomes: a line to use at once; a victim locked under its new tag
while the caches above drop the old line (`pendInvTable`), with `doInvalidate` per answer and
`doAllocateLine` at the end; or no unlocked line, and a retry. The answers of the caches above take
two cycles per level, and a miss below takes longer: a request that goes below while an answer is
missing does not return before it (stage `late`). Without this the second assertion of
`allocateLine` would not hold.

Abstractions: one word per line (`wbuff` is by address, the MSHR by line); ports and banks only
delay; write-backs leave the cache, and what they do below is the level below's.
An access that changes nothing (a read served from `wbuff`, a push an inclusive cache drops) is no step.

### Pipeline and Processor

`Pipeline` has the operators on the front end's buckets: `newItem`, `readyItem` with its
reordering of the instruction cache's answers, `cleanMark` and what `nextItem` swallows behind
a mark. `Processor` has the state of each processor (`fe`, `cpu`), the pool of dynamic
instructions (`dinst`), and the map of pending stores (`stores`), which all processors share. An
instruction's stage says which callback it waits for. Fetch takes any number of
instructions up to the width, any branch may be mispredicted, and found out by the BTAC or
when it is executed; with `SESC_MISPATH` wrong-path instructions are fetched meanwhile.
The cache answers and refuses as it likes. The dependences of an instruction are the entries of the lists of its sources, as
`addSrc1` and `addSrc2` make them; a load's memory dependence is on the last store the map names.

Abstractions: registers are a small set; issue and retire widths are 1; functional units differ only
in what they count; one cluster per processor; thread switching is `OSSim`'s.

### DDR2

The code stores the time of each last command and compares differences with timing
parameters. The model stores the differences, counted up to `Cap`, which no parameter
exceeds (assumed, and checked by TLC). A step of `clock` ages everything, moves
arrivals into slots, refreshes the pending flags and issues at most one command by
the policy. `lastRead` and `lastWrite` of the channel are not initialised by
the constructor: initially they hold any value up to `Skew`. The free list is a FIFO,
because `FASTQUEUE_LIST` is. `policy` is chosen in `Init`: `clock` of this commit
calls `scheduleFCFS`, and `scheduleFRFCFS` is the alternative beside it. `bus` is a
history variable: which bursts drive the data bus how many clocks from now.

### TQueue, Port, RoutingPolicy and Network

`TQueue` has the queue as a record, with the code's fields: an array of lists that is used in circles from
`minPos`, which stands for `minTime`, and the heap `tooFar` with its cached minimum. Heap order among nodes of one
time is left open, so that `adjustTooFar` and `nextJob` have sets of results. `Network` puts four callbacks per
message in it, those of `Message`. Handlers are operators on a record of the state, because a callback that is
scheduled for the current clock is called inside the handler that schedules it. `advanceClock` of the code is a
loop: each turn is a step, `callNext` or the step of the clock. `ImplementsAgenda` maps the array and the heap to the
times at which callbacks are due.

`RoutingPolicy` computes the tables as the code does, one router after the other in the same matrix, and
`Distance` is the reference: the least number of wires, by relaxation over all routers. The tables and the distances are computed in `Init`. A message
counts the wires it has passed (`hops`) and the routers that were notified of it (`got`).

`PortUse` gives a port and a `PortNPipe` of the same size the same calls and compares them; the code says of
`create` that "everything can be solved with PortNPipe", and of `occupySlots` that it is so many calls of `nextSlot`.

`MCClocked` has the network, a port and the DRAM channel side by side; they share no state.

### OSSim

Every call runs to its end within one step, except `makeRunnable`: it is the last thing a
call does (but for the destruction of an exiting process, which nothing it does can see) and may call itself for the process it preempted, so `pending` is its
argument and each level of the recursion is a step. The calls of a running process are the
`event...` functions the front end makes. `setPriority` is part of `OSSim`'s interface,
though nothing in this repository calls it; without it all priorities are 0 and nobody is preempted.
The model keeps `availableProcessors` as the multiset it is: `workingListRemove` inserts
a processor only if it is not in it at all, so on an SMT processor it holds fewer
entries than there are free flows. `displaced` records the ready processes that a call
switched out, passed over or reconfigured, which the code does not place again;
`adopted` records the processes whose pid was used before by the parent of a process still alive.
The assertions of the code on its callers (a process that waits is not suspended, and is not
yielded to) are taken as obligations of the callers.

### SescBarrier and Barrier, SescLocks, SescThread

Each load, store and fetch-op of a shared word is a step. Local computation belongs to the
step before it. `SescThread` has critical sections as steps, because each is guarded by one mutex
and touches nothing outside it. Pids collide in its hash table (pids of the instances
agree modulo the table's size). A failed `assert` sets `aborted`.

`MCApplication` puts the three side by side: an application uses one of them, the others rest.

## 3. Runs

| Run | Instance | Shows |
|---|---|---|
| `smp_top` | 2 caches, 2 accesses each, 2 lines, 1 way | `SingleWriter`, `DirtyIffStale`, `SendFindsLine`, `AckKeepsOperation`, `WriteBackOnce` |
| `smp_upper` | 3 caches below 2 caches each, 2 accesses at a time | `SnoopsAccounted`, `InvalidationReachesUpper` |
| `smp_live` | 2 caches, bursts of 3 accesses | `EveryAccessConcludes` |
| `smp_upper_send` | 2 caches below 1 cache each | **violation** of `SendFindsLine`, see section 6 |
| `cache` | 2 MSHR entries, 3 requests, 3 lines, 4 arrivals; six cache configurations and any client | `OneMissPerLine`, `CountersExact`, `ReplacementsApart`, `WBuffExact`, `AcceptedNeverOverflows`, `ImplementsLineLock`, `EveryRequestServed` |
| `processor` | 15 pairs of configuration and program, on 1 or 2 processors, 4 instruction objects | `InProgramOrder`, `CountersExact`, `DependencesExact`, `LoadWaitsForStore`, `FenceOrder`, `EveryInstRetires` |
| `ldst_shared` | 2 processors that store to one word | **violation** of `LoadWaitsForStore`, see section 6 |
| `ddr2` | 2 ranks, 1 bank each, 2 rows, 2 slots, both policies | `BusNoOverlap`, `PendingFlagsFresh`, `NumActiveExact`, `ColumnHitsOpenRow` |
| `clocked` | 7 networks of 2 to 9 routers with 2 messages; 9 sizes of a port; a DRAM channel of 1 bank, FCFS | `ImplementsAgenda`, `MinimalRoutes`, `PortsAgree`, `EveryReferenceCompletes` |
| `ossim` | 3 processes, a 2-flow SMT and a single-threaded processor, 3 configuring calls | `RunningAgrees`, `AvailableSound`, `QueueExact`, `WorkConserving`, `NoInversion`, `NChildsExact` |
| `application` | barrier: 4 threads, 3 episodes; locks: 3 threads, one flag, one pool; native: 3 threads, colliding pids, 2 spawns each | `ImplementsBarrier`, `SignalsBalance`, `OneEntry`, `WaitJoins`, `EveryoneGetsOn` |
| `threads_assert` | 3 threads | **violation** of `AwakeAssertion`, see section 6 |

### Bounds, and why they are enough to be interesting

* **SMP**. Two lines and one way make every miss a replacement of a line some request
  may be waiting for. Two accesses per cache (`Slots`) make a request wait in `outsReq`;
  two caches make it wait in `mutExclBuffer`. Three caches are needed for a request that
  collects two answers at different times, and `smp_upper` has three; there
  `MaxOutstanding = 2` bounds the accesses in progress in all caches together.
  `PushBound = 0`: no new access while a write-back is in flight, though accesses in progress
  go on beside it.
* **MSHR and cache**. Two entries and three lines fill the buffer; three requests with four arrivals
  let one be served and come back while others are in the overflow queue, and let the check
  of the overflow queue be re-entered from a nested callback. Two ways for three lines make the LRU
  order matter; with one way and two entries, a miss returns while the only way is locked for
  another, and has to retry. Two caches above make an invalidation wait for two answers. Hits are not
  bounded. Requests are interchangeable, so that the first idle one is taken.
* **Processor**. The programs are as short as the case each is for allows: a store whose value is late
  and a load behind it, a branch between instructions, fences among stores and fetch-ops, two
  processors that share words. Pools, queues and windows are of size 2 to 4, so each is full at some time. The reuse of
  instruction objects happens within a program of four instructions.
* **DDR2**. The timing values keep the proportions of the shipped configuration
  (`clean_w_confs/base.conf`: `tCCD = 4` and `BL = 8`, so `tCCD = BL/2`). Two ranks suffice for every rank-switch
  constraint and two rows for every conflict. `ArrivalBound` is the length of the arrival queue.
* **Event queue and network**. The array has 8 lists, the least the code allows. A ring with slow wires and local ports occupied for long
  has callbacks in the heap that are due in another order than they were put there; the others use the array in circles. Two messages, sent in any of the first three clocks, meet at ports of routers
  and devices and share the turns of a table. The topologies are the smallest with two ways to a router: a ring of 4, meshes of
  4 and 9, a cube of 8. `MinimalRoutes` compares tables and distances for all pairs of routers of these.
* **Ports**. One to three units, occupancies up to 3, and 6 clocks, with a port occupied up to 3 clocks ahead: every
  representation is idle, in use and behind at some time.
* **OSSim**. Three processes on three flows: waiting comes from pinning, preemption from
  pinning and priorities. Spawn, wait, yield and exit are unbounded; the calls that configure a
  process (sysconf, suspend, resume, setPriority, spawn with flags) are limited to
  `MaxSettings = 3` in a behaviour, enough to pin two processes to a processor and to
  change the priority between them. Priorities are the default and a better one. Preemption, its
  recursion, and both swaps of `setPriority` occur within these bounds. Four processes were explored to several million states without a
  violation but do not finish in reasonable time.
* **Barrier**. Three episodes cover both senses and the return to the first; four threads
  have several slow ones. The proof covers the rest.
* **Locks, threads**. Three threads have a waiter, a setter and a clearer at once; three
  native threads in a table of seven slots have collisions and a chain of parents.

Symmetry is used in runs without liveness only (caches, lines and slots; processes). Deadlock is
checked in the runs that can go on for ever (the SMP runs but `smp_live`, and `ddr2`); in the
others the number of calls is bounded, or the program ends.

### Fairness

* `smp_live`, `cache`: the simulator runs the event queue until it is empty, so while some
  callback can run, one does: one weak fairness condition on all callbacks together, with
  finitely many accesses. Nothing is assumed of which callback. In `cache` the level
  below and the caches above answer at some time, and any other client retires what it owns.
* `processor`: weak fairness of each callback and of each stage, since a processor with work is clocked every
  cycle and instruction and data cache answer; strong fairness of fetching at least one instruction, since a
  thread that runs yields instructions whenever fetch asks again and again.
* `clocked`: `DDR2::clock` is called in every cycle of the main loop (`RunningProcs::run`). Nothing is assumed of the
  network and the ports, of which only safety is claimed.
* `application`: each thread inside a call of the barrier, the locks and the flags gets to run; the spinning loops
  yield. Threads call the barrier again until the last one; nothing is assumed of a thread that calls no lock. While
  some native thread can run, one does: they block and do not spin.

## 4. Proofs

All are checked by TLAPS with Z3, Zenon and LS4; nothing is assumed but the
named `ASSUME`s of the modules, which TLC evaluates on every run.

* `SMPCoherenceProofs!TypeCorrect`: `Spec => []TypeOK` for every set of caches, slots and lines,
  every associativity and every number of caches above. `TypeOK` is inductive by itself; the
  proof rests on lemmas about what the helpers return (requests, write-backs, answers, the
  stack) and has one step per callback. Its content is that nested callbacks and retirements leave
  nothing but requests in the buffers and on the stack, and only protocol states in the lines.
* The rest of `SMPCoherenceProofs` (`ASSUME NUpper = 0`, any caches, requests, lines and ways): `Coherent` (`SingleWriter`), `NothingLost`
  (`DirtyIffStale`), `SendAssertionHolds` (`SendFindsLine`), `OperationKept`, `AnswersCounted` and the action property
  `WrittenBackOnce`. `SingleWriter` is far from inductive: when `returnAccess` makes a line writable, that nobody else holds it
  follows from the whole path of the request. The invariant says that a request being served is first in its `outsReq` entry
  and one that owns the line first in `mutExclBuffer`, and that those behind wait there once each (`OutsQueue`, `MutexQueue`);
  that a line is locked exactly while such a request is below its cache (`LockedByOwner`); that a miss still to be sent
  finds its line as it was looked up, or worse (`WaitersLine`); that what each cache did to answer a snoop still holds when the
  last answer arrives (`AnswersHold`); and what the request carries meanwhile (`Response`, `Operation`, `Outstanding`).
  The assumption is the shipped configuration; with caches above two of the properties are false (sections 5 and 6).
* The first part of `CacheProofs`, for any requests, lines, entries, subentries and any client: `NoAliasing` (`OneOwner`), `CountersAlwaysExact` and the action property `AcceptancePromiseKept`. The invariant adds that
  the requests in an entry's list are queued there, once each; how the free reads and writes of an entry relate to its
  subentries, split or shared; that at most one frame of the stack is in the loop of `checkOverflow`, exactly while
  `checkingOverflow` is set; and that the overflow queue holds overflowed requests. Without the one on the loop, nested
  retirements could pop the same overflowed request twice.
* The second part of `CacheProofs`, on top of the first, for every finite set of requests, any lines, ways, caches above and configurations:
  `AnswersReachOwners` (`OneOwner` and `MissesOwnLines`), `WriteBufferExact` (`WBuffExact`) and `ReplacementsStayApart`
  (`ReplacementsApart`). Assumed is that `NoTag` is not a line, and what the other `ASSUME`s say of the geometry. The invariant `CInv` is that of the
  buffer with five more parts. `Operations` says which operation may be at which level; `Calls` that of all the
  callbacks active on the stack only the innermost has a request still to handle, which owns its line, so a nested
  retire never calls the handler of a request twice; `Locking` that a line is locked exactly while one request
  replaces another in its way, and that what went below for a line finds the line absent; `Dropping` that a line being dropped above is
  absent, that no answer from below is for it, and that no two lines are dropped for one request; `Writes` counts. `Dropping`
  cannot do without the stage `late`: without it the answer for a line could come while the line is still being dropped, and
  the line would be back in the set. `OneMissAlways` combines `NoAliasing` and `AnswersReachOwners` for the specification that TLC runs,
  whose configurations say which of the two clients of the buffer is there: `MCSpec => []OneMissPerLine`.
* `ProcessorProofs`, for any processors, instruction objects, programs, wrong paths, sizes of the machine and configurations that
  satisfy the `ASSUME`s of `Processor`: `TypeCorrect`, `ProgramOrderAlways` (`InProgramOrder`), `BucketsAlways` (`BucketsExact`),
  `DependencesAlways` (`DependencesExact`), `FenceOrderAlways` (`FenceOrder`), `CountersAlways` (`CountersExact`) and
  `LoadWaitsAlways` (`LoadWaitsForStore`). They share one invariant,
  `IInv`, with one lemma per action for the step. Its base is `Placed`: an instruction is in exactly one of ROB, instruction queue,
  pipe buffer and reordering queue, the one its stage says, and in one place of it; `Before` is the order of these places, and
  each action either keeps it, removes instructions from it, or adds them at its end. That is what the reordering of buckets by
  `readyItem`, the swallowing of wrong paths by `nextItem` and the recycling at retirement have to respect. On it rest `Sequential`, that the real
  instructions are the next ones of the program in this order; `Marked`, that there is at most one clean mark and one branch that
  stops fetch, no mark behind the branch, so that a mark never swallows real instructions; `Buckets` and `Resources`, that every pool
  lacks exactly what the instructions in flight took of it, which are different sets of stages for each; `Fenced`, that unless a fence is pending all stores
  on their way have the current epoch, and while it is, some are on their way; `Wakeups`, that a source an instruction waits for is in the list of
  exactly one live instruction, and that waiting lists name live ones only; `Renaming` and `Buffered`, that the rename table and the
  map of stores name instructions that are still in the ROB. `DependencesExact` needs these two although it says less: an
  entry left behind by a recycled object would be the source of a wrong wake-up.
  `CountersAlways` has a hypothesis, `EntriesReturn`: no fence in a configuration with `recycleAt = "Retire"`, since a fence
  never gives its entry of the window back there (section 5). `LoadWaitsAlways` has one too, `WordsApart`: no two processors have
  stores to the same word in their programs or on wrong paths, since `LDSTBuffer` has one map for all, and without it the property is
  false (section 6). Its invariant is `IInv /\ Ordered`: the map names the youngest store to a word in the ROB of a processor
  (`Latest`), and a load is in the waiting list of the youngest store before it to its word until that one is executed (`Waits`).
  `WordsApart` is used where a store enters the map, which must not be in the place of another processor's store. The
  configurations of the run `processor` satisfy both hypotheses; the other five theorems do without.
* `DDR2Proofs`: `TypeCorrect`, `FlagsAlwaysFresh`, `OpenRowsCounted`, `ColumnsHitOpenRows` and `BusNeverShared`, for every number of
  ranks, banks, rows and slots, both policies and every timing. The inductive invariant of the first four is `IInv == TypeOK /\
  PendingFlagsFresh /\ NumActiveExact`. The flags need the types; the count needs the flags,
  since an activate is issued on a flag and would count a bank twice if the flag
  were stale; and the action property `ColumnHitsOpenRow` needs the flags, because the
  scheduler issues a column command when neither flag is set, without looking at
  the row. The timing plays no part in this argument. `BusNeverShared` is about nothing else: its invariant `BusInv` says that
  every burst still on the bus belongs to the channel's last read or last write or ends before that one's does, and that
  some rank's own time of its last access is the channel's. It uses `tCCD >= HalfBL` of `TimingAssumption`, without
  which two reads of one rank would overlap.
* `ApplicationProofs!TypeCorrect` and `BarrierImplemented`, of `SescBarrier`, for every finite set of
  threads and every number of episodes. The refinement needs the invariant `IInv ==
  TypeOK /\ Counted /\ \E k : \A t : InStep(t, k)`: the count is the number of threads that
  have arrived and not been released, and there is one number `k` of barriers
  opened such that every thread is outside with `k` behind it, still leaves the `k`-th, or is
  in the next already, with the local senses telling which. From it, a thread
  that sees the sense it waits for knows that all have entered.

* `SescLocksProofs`, under `Parameters` (a finite set of threads, a pool of natural size), which the instance in `MCApplication`
  satisfies: `TypeCorrect` and `NoWaiterForgotten` (`SignalsBalance`, that is `MutualExclusion` and `QueueBalance`). The invariant
  adds which operation a thread may be in at each place, that a count loaded inside the lock is still the one in memory when
  it is stored back, and a lower bound on the queue's semaphore.
* `SescThreadProofs`, under `Parameters` (finitely many threads; a pid that `sesc_spawn` makes up, at least `Offset + 1` above
  a real one, is no thread's, which the code takes for granted): `TypeCorrect`, whose content is the range of
  `nConcurrentThreads`, `OneEntryAlways`, `WaitJoinsAlways`, and `ExitLast`, that no thread is in its routine once the main one has called
  `sesc_exit`. `WaitJoins` alone is about counts that no step of `sesc_wait` looks at. What it does look at is `nWaiting` of its own entry, and the
  invariant says what that is, whatever the order in which children end and the parent waits: calls of `sesc_wait` returned, plus one
  that is blocked, minus children that have awakened the parent (`Waiting`). Behind that stand that each entry that matters is
  there once and under the right pid (`Entries`); that entries that carry arguments are not taken for a thread's (`Arguments`); what the current
  call of each thread works on (`CallStacks`); that a thread outlives its children's routines (`Family`); and that
  the counters are cardinalities of sets of threads (`Counts`). `Waiting` holds until the assertion of section 6 fails; then
  the program is over, and only what does not depend on it is claimed.
* `ApplicationProofs`: the application that TLC runs has these properties of its parts, `MCSpec =>` `[]SignalsBalance`, `[]OneEntry`, `[]WaitJoins` and
  `ImplementsBarrier`. Each part takes a step of its own or none. For this `MCApplication` instantiates `SescLocksProofs` and
  `SescThreadProofs`, so that the instance has the theorems, too.
* `OSSimProofs`, for any processes, processors, flows and priorities: `TypeCorrect`, `RecordsAgree` (`RunningAgrees`), `OffersHold`
  (`AvailableSound`), `QueueIsExact`, `NoIdleFlow` (`WorkConserving`), `NoPriorityInversion` and `ChildrenCounted` (`NChildsExact`), that is every
  property of the run `ossim`. A call is a chain of steps on a state record, so the invariant has two parts. `Good` holds between
  the steps: the flows hold exactly the processes that run on them, `availableProcessors` promises no more than is free, the
  queue holds exactly the runnable processes in the order of their priorities, and a pinned process names its processor.
  `Fair` holds between calls: where a waiting process may run, every flow is taken by a process *ahead of it in the queue*. The
  priorities alone would not be inductive, because `queueGet` and `queueDemote` take the first process that fits, and among
  equals only the position tells which one that is. `KinExact` counts the children and says that no process is its own parent;
  `PendingInvalid` that the argument of `makeRunnable` is in no queue.

Only model-checked:

* all liveness properties, since TLAPS has no support for fairness here: `EveryoneGetsOn`, `EveryAccessConcludes`, `EveryRequestServed`, `EveryInstRetires` and `EveryReferenceCompletes` stay with TLC;
* `ImplementsLineLock`: its mapping filters sequences with `SelectSeq`, a recursive function, and what that computes for every
  sequence needs an induction over data. `NoAliasing` is the part of it that does not;
* `SMPSystem` with caches above (`NUpper > 0`) and `InvalidationReachesUpper`;
* `ImplementsAgenda`, `MinimalRoutes` and `PortsAgree`, which rest on
  `RECURSIVE` operators or folds.

The type invariants that are proved are in no run. `BucketsExact` of `Processor` is checked as a part of `CountersExact`.

## 5. Known limits of the model

* `SMPSystem` has one coherent level. `SMPCache::invalidate`, called by an SMPCache below,
  is not modelled, nor are `SMPMemCtrl`, the slice and the NoC variants.
* While a dirty victim is being dropped from the caches above, a snoop finds the line locked and is
  answered as a miss; another cache may then fetch and write the line, and both hold it dirty.
  `DirtyIffStale` is therefore checked without caches above only. The shipped configurations have none.
* `Cache`: a middle level (invalidated from below while it has caches above), `SVCache` and `NICECache` are not
  modelled. That no write is lost on the way down does not hold and is not claimed: `doWriteQueued` finishes a write
  queued behind a read miss without making the line dirty (`WBCache`) or sending it down (`WTCache`, though
  `Cache.cpp:790` says it always does); `activateOverflow` makes a line of a `WTCache` dirty. The simulator
  keeps no data in its caches, so that the timing and the traffic are off, not the results of the program.
* `Processor`: thread switches, several clusters, widths above 1, replay and thread-level speculation are left out.
  `recycleAt = "Retire"` is checked without fences, which lose an entry of the window each (`FUMemory::retire` does not
  call the cluster), and in-order issue without events, behind which it stalls for ever; the first is listed as a hazard.
  Counters of wrong-path loads, stores and registers are only returned at the next misprediction.
* `NoDepsMSHR`, `FullMSHR` and `BankedMSHR` are not modelled.
* `DDR2`: refresh and power states exist in the source but `clock` does not call them; channels are independent.
* `DDR2`: references of one DRAM clock share a time stamp, and `scheduleFRFCFS` may starve a reference for good; neither is
  claimed otherwise.
* `TQueue`: `remove` and `reschedule` are called nowhere. Times differ by less than 2^32, to which the code
  narrows them, and `reset` is called once, on an empty queue.
* `Port`: `occupySlots` of a `PortFullyNPipe` is modelled as it is, but left out of `PortsAgree`, which it does not satisfy: it adds
  `nSlots / nUnits` rounded down, and keeps `freeUnits`. `lock4nCycles` is called nowhere.
* `Network`: broadcasts (`RCV_AND_PASS`) are checked with local ports that do not delay. With slow ones the message's only notify
  callback may be scheduled while it waits; nothing but a test that is compiled out sends broadcasts. The fully connected
  network numbers its ports from 0, while `Router` makes ports from 1 on. `wireLat = 0`, which `shortestPaths` takes for no wire, is left out.
  The sizes of messages are a number of flits: `PMessage` has no size in its table for the last message types (`DSM...`).
* `SescThread` leaves out `sesc_suspend` and `sesc_resume` (signals), and assumes applications
  that wait once for each spawn.
* `OSSim`: `eventYield` does not refuse a target that waits for a child, and two processes that yield to each other starve a third.
* `OSSim` leaves out `stop`, `unstop` and `setPPid` (thread-level speculation), and the contexts.
* `RunningProcs.h:47` says that `availableProcessors` has one entry per available flow. It has
  not, on an SMT processor; `AvailableSound` states what is true instead.
* `NChildsExact` excepts a process whose pid was reused while children of its former owner live:
  their exit decrements its count, and a wait may then never end.

## 6. What the violations show

* `smp_upper_send`: `MESIProtocol::write` asserts that it is not called on a line in a transient
  state. With caches above, it is: a write to a shared line waits in `mutExclBuffer`;
  meanwhile a miss on another line picks the shared line as its victim and puts it in
  `TRANS_INV` while the caches above drop it; then the write is called.
* `threads_assert`: a child decrements `nConcurrentThreads` before it calls `awakeWaiting`. A
  parent's `sesc_wait` in between returns early and leaves `nWaiting` raised; after another spawn
  and wait, the late `awakeWaiting` fails `assert(tf->nWaiting == 0)`.
* `ldst_shared`: `LDSTBuffer` has one map of pending stores for all processors, one entry per word. A store of
  another processor to the same word takes the entry over, and a load of the first processor no longer waits for its
  own older store.

## 7. Plan

Done: the modules above. In the order of importance, still to come:

1. **Virtual memory and buses**: `MemoryOS` and the TLB, `PriorityBus`.
2. **More of libsmp and libmem**: a second coherent level and `SMPCache::invalidate`; a middle-level `Cache`; the other
   MSHRs.
3. **Pools**: `pool`, `FastQueue`.
4. **Small algorithms**: return-address stack of `BPred`, `HeapManager`.

The largest directories stay out of the models: the instruction emulators (`libmint`, `libpint`) and the power and thermal models
(`libpower`, `libsescspot`) are third-party or numerical code without an order of events to get wrong.

Proofs to come: `OneOwner`-like facts of `SMPSystem` with caches above, on which `InvalidationReachesUpper` rests.
