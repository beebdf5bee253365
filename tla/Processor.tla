------------------------------ MODULE Processor ------------------------------
(***************************************************************************)
(* The out-of-order processors: fetch (FetchEngine), the front-end         *)
(* pipeline (Pipeline), rename and retirement (GProcessor, Processor), the *)
(* dependence window (DepWindow, Cluster), the functional units (Resource, *)
(* LDSTBuffer) and the memory requests of loads and stores (DMemRequest).  *)
(*                                                                         *)
(* The instructions a thread executes are fixed by its program; their      *)
(* timing is not: latencies, ports, cache refusals and the order of        *)
(* callbacks are free.  Issue and retire handle one instruction, as with   *)
(* issueWidth and retireWidth 1.                                           *)
(***************************************************************************)
EXTENDS Pipeline, SequencesExt

CONSTANTS
  Procs,          (* processors; a thread stays on its own                 *)
  Slots,          (* the objects of DInst::dInstPool                       *)
  Words,          (* words of memory                                       *)
  Regs,           (* architectural registers                               *)
  NoDependence,   (* the register that never is a source                   *)
  InvalidOutput,  (* the register of instructions without a result         *)
  NoWord,         (* the address of an instruction without one             *)
  FetchWidth, InstQueueSize, MaxROBSize, WinSize,
  MaxLoads, MaxStores, MaxBranches, MaxRegs,
  Confs,          (* configurations: the program of each processor and the *)
                  (* options inorder, recycleAt and SESC_MISPATH           *)
  FakeBuckets     (* buckets of instructions of a wrong path               *)

ASSUME RegsAssumption ==
  NoDependence # InvalidOutput /\ {NoDependence, InvalidOutput} \cap Regs = {}
ASSUME SlotsAssumption == Slots \subseteq Nat \ {0} /\ IsFiniteSet(Slots)
ASSUME SizeAssumption ==
  /\ {FetchWidth, MaxROBSize, WinSize, MaxLoads, MaxStores, MaxBranches,
      MaxRegs} \subseteq Nat \ {0}
  /\ InstQueueSize \in Nat /\ InstQueueSize >= FetchWidth

VARIABLES
  conf,    (* the configuration, which never changes                       *)
  fe,      (* fe[p]: FetchEngine and PipeQueue of processor p              *)
  cpu,     (* cpu[p]: ROB, RAT and the counters of the resources of p      *)
  dinst,   (* dinst[d]: the dynamic instruction in d, or Free              *)
  stores   (* LDSTBuffer::stores: the last store to a word, of all p       *)

vars == <<conf, fe, cpu, dinst, stores>>

Ops == {"alu", "branch", "load", "store", "fetchop", "memfence", "acquire",
        "event"}
(* An event has no result, which MIPSInstruction.cpp insists on.           *)
Instruction ==
  {i \in [op: Ops, word: Words \cup {NoWord}, src1: Regs \cup {NoDependence},
          src2: Regs \cup {NoDependence}, dest: Regs \cup {InvalidOutput}] :
     i.op = "event" => i.dest = InvalidOutput}

ASSUME ProgramsAssumption ==
  /\ FakeBuckets \subseteq Seq(Instruction)
  /\ \A c \in Confs :
       /\ c.prog \in [Procs -> Seq(Instruction)]
       /\ {c.inOrder, c.misPath} \subseteq BOOLEAN
       /\ c.recycleAt \in {"Issue", "Execute", "Retire"}

Free == [st |-> "free"]

(* The stages of an instruction: in a bucket; in the window with sources   *)
(* to wait for; selected (doAtSelect, doAtSimTime); at the port of its     *)
(* unit (issuedCB); in the cache (cacheDispatched, MemRead); with          *)
(* doAtExecuted scheduled; executed; retired with its MemWrite under way.  *)
Stages == {"fetched", "window", "selected", "port", "cache", "unit",
           "executed", "memory"}

createDInst(p, n, inst, fake, miss) ==
  [st |-> "fetched", proc |-> p, pos |-> n, inst |-> inst, fake |-> fake,
   fetch |-> miss, deps |-> {}, pend |-> {}, depsAtRetire |-> FALSE,
   forwarded |-> FALSE, epoch |-> 0]

Program(p) == conf.prog[p]
Op(d) == dinst[d].inst.op
Fake(d) == dinst[d].fake
Live == {d \in Slots : dinst[d] # Free}

Init ==
  /\ conf \in Confs
  /\ fe = [p \in Procs |->
             [pc |-> 1, missInstID |-> FALSE, btac |-> FALSE, pipe |-> NewPipeline,
              instQueue |-> <<>>, spaceInInstQueue |-> InstQueueSize]]
  /\ cpu = [p \in Procs |->
              [rob |-> <<>>, retired |-> 0, epoch |-> 0,
               rat |-> [r \in Regs \cup {NoDependence, InvalidOutput} |-> 0],
               windowSize |-> WinSize, freeLoads |-> MaxLoads, misLoads |-> 0,
               freeStores |-> MaxStores, misStores |-> 0,
               freeBranches |-> MaxBranches, regPool |-> MaxRegs,
               misRegPool |-> 0, pendingFence |-> FALSE, nOutsStores |-> 0]]
  /\ dinst = [d \in Slots |-> Free]
  /\ stores = [w \in Words \cup {NoWord} |-> 0]

-----------------------------------------------------------------------------
(* FetchEngine.  A bucket takes up to FetchWidth instructions; it ends     *)
(* early at the end of a cache block, at a taken branch too many, when the *)
(* thread is switched, and always after a mispredicted branch.             *)

(* n objects of the pool.                                                  *)
outOfPool(n) == CHOOSE s \in [1..n -> Slots \ Live] : IsInjective(s)

(* The bucket `slots' filled with the instructions `insts'.                *)
Fill(slots, insts) ==
  [d \in Slots |-> IF d \in Range(slots)
                   THEN insts[CHOOSE i \in DOMAIN slots : slots[i] = d]
                   ELSE dinst[d]]

(* The prediction of a branch at position k of the program: right, or      *)
(* wrong and found out by the BTAC, which unblocks fetch by itself, or     *)
(* wrong until the branch is executed.                                     *)
processBranch(p, k, miss) ==
  /\ miss # "no" => Program(p)[k].op = "branch"
  /\ miss = "btac" => ~conf.misPath

(* realFetchAligned: n instructions, the last of them a branch that is     *)
(* mispredicted when `miss' is not "no".                                   *)
realFetch(p, n, miss) ==
  /\ ~fe[p].missInstID /\ fe[p].pc <= Len(Program(p)) /\ hasNewItem(fe[p].pipe)
  /\ fe[p].pc + n - 1 <= Len(Program(p)) /\ n <= Cardinality(Slots \ Live)
  /\ IF n = 0 THEN miss = "no" ELSE processBranch(p, fe[p].pc + n - 1, miss)
  /\ LET slots == outOfPool(n)
         insts == [i \in 1..n |->
                     createDInst(p, fe[p].pc + i - 1, Program(p)[fe[p].pc + i - 1],
                                 FALSE, i = n /\ miss = "resolve")]
     IN  /\ dinst' = Fill(slots, insts)
         /\ fe' = [fe EXCEPT ![p].pc = @ + n, ![p].missInstID = miss # "no",
                             ![p].btac = miss = "btac",
                             ![p].pipe = newItem(@, slots)]
  /\ UNCHANGED <<conf, cpu, stores>>

(* fakeFetch: nothing is fetched, but for SESC_MISPATH, which fetches      *)
(* instructions of the wrong path.                                         *)
fakeFetch(p, insts) ==
  /\ fe[p].missInstID /\ fe[p].pc <= Len(Program(p)) /\ hasNewItem(fe[p].pipe)
  /\ ~conf.misPath => insts = <<>>
  /\ Len(insts) <= Cardinality(Slots \ Live)
  /\ LET slots == outOfPool(Len(insts))
     IN  /\ dinst' = Fill(slots, [i \in DOMAIN insts |->
                             createDInst(p, 0, insts[i], TRUE, FALSE)])
         /\ fe' = [fe EXCEPT ![p].pipe = newItem(@, slots)]
  /\ UNCHANGED <<conf, cpu, stores>>

Fetch(p) ==
  \/ \E n \in 0..FetchWidth, miss \in {"no", "resolve", "btac"} :
       realFetch(p, n, miss)
  \/ \E insts \in {<<>>} \cup FakeBuckets : fakeFetch(p, insts)

(* Mutant: fetch stays blocked.                                            *)
unBlockFetchLost(p) ==
  /\ fe[p].btac
  /\ fe' = [fe EXCEPT ![p].btac = FALSE]
  /\ UNCHANGED <<conf, cpu, dinst, stores>>

(* unBlockFetchCB.                                                         *)
unBlockFetch(p) ==
  /\ fe[p].btac
  /\ fe' = [fe EXCEPT ![p].missInstID = FALSE, ![p].btac = FALSE]
  /\ UNCHANGED <<conf, cpu, dinst, stores>>

(* IBucket::markFetched: the instruction cache has delivered bucket k.     *)
markFetched(p, k) ==
  /\ k \in DOMAIN fe[p].pipe.order
  /\ ~fe[p].pipe.order[k].ready
  /\ fe' = [fe EXCEPT ![p].pipe = readyItem(@, k)]
  /\ UNCHANGED <<conf, cpu, dinst, stores>>

(* The decode stage of advanceClock.  Swallowed instructions are killed.   *)
Decode(p) ==
  LET pl == fe[p].pipe
      fakes == {d \in Live : Fake(d)}
      item == topItem(pl, fakes)
      isMark == Head(pl.buffer) = cleanItem
  IN  /\ fe[p].spaceInInstQueue >= FetchWidth /\ pl.buffer # <<>>
      /\ IF isMark \/ item = <<>>
         THEN fe' = [fe EXCEPT ![p].pipe = nextItem(@, fakes)]
         ELSE fe' = [fe EXCEPT ![p].pipe = nextItem(@, fakes),
                               ![p].instQueue = Append(@, item),
                               ![p].spaceInInstQueue = @ - Len(item)]
      /\ dinst' = [d \in Slots |->
           IF ~isMark /\ d \in Range(Head(pl.buffer)) \ Range(item) THEN Free
                                                                    ELSE dinst[d]]
      /\ UNCHANGED <<conf, cpu, stores>>
-----------------------------------------------------------------------------
(* Rename (Processor::addInst, GProcessor::sharedAddInst, issue).          *)

One(b) == IF b THEN 1 ELSE 0

(* canIssue of the units.                                                  *)
canIssueLoad(c, i) == i.op = "load" => c.freeLoads > c.misLoads
canIssueStore(c, i) == i.op = "store" => c.freeStores > c.misStores
canIssueBranch(c, i) == i.op = "branch" => c.freeBranches > 0

(* sharedAddInst stalls for the ROB, the registers, the window or the unit.*)
sharedAddInst(c, i) ==
  /\ Len(c.rob) < MaxROBSize
  /\ i.dest # InvalidOutput => c.regPool > c.misRegPool
  /\ c.windowSize > 0
  /\ canIssueLoad(c, i) /\ canIssueStore(c, i) /\ canIssueBranch(c, i)

(* An in-order core also stalls for the instruction's registers.           *)
canIssue(c, i) ==
  /\ conf.inOrder => \A r \in {i.src1, i.src2, i.dest} : c.rat[r] = 0
  /\ sharedAddInst(c, i)

(* What the instruction takes.                                             *)
takeEntries(c, d, i, fake) ==
  [c EXCEPT
     !.rob = Append(@, d),
     !.rat[i.dest] = d,
     !.windowSize = @ - 1,
     !.freeLoads = @ - One(i.op = "load" /\ ~fake),
     !.misLoads = @ + One(i.op = "load" /\ fake),
     !.freeStores = @ - One(i.op = "store" /\ ~fake),
     !.misStores = @ + One(i.op = "store" /\ fake),
     !.freeBranches = @ - One(i.op = "branch"),
     !.regPool = @ - One(i.dest # InvalidOutput /\ ~fake),
     !.misRegPool = @ + One(i.dest # InvalidOutput /\ fake)]

isExecuted(d) == dinst[d].st \in {"executed", "memory"}

(* Mutant: a store of the same processor is forgotten.                     *)
getLoadEntryRemote(p, i) ==
  LET s == stores[i.word]
  IN  IF i.op = "load" /\ s # 0 /\ dinst[s].proc # p THEN s ELSE 0

(* LDSTBuffer::getLoadEntry: the store a load has to wait for.  One of     *)
(* another processor counts even when it is executed.                      *)
getLoadEntry(p, i) ==
  LET s == stores[i.word]
  IN  IF i.op = "load" /\ s # 0 /\ (dinst[s].proc = p => ~isExecuted(s))
      THEN s ELSE 0

getStoreEntry(d, i) ==
  IF i.op = "store" THEN [stores EXCEPT ![i.word] = d] ELSE stores

(* GProcessor::issue: the instruction at the front of the queue.           *)
Issue(p) ==
  /\ fe[p].instQueue # <<>>
  /\ LET b == Head(fe[p].instQueue)
         d == Head(b)
         i == dinst[d].inst
         s == getLoadEntry(p, i)
         remote == s # 0 /\ dinst[s].proc # p
         src1 == cpu[p].rat[i.src1]
         src2 == IF s # 0 THEN s ELSE cpu[p].rat[i.src2]
         deps == {n \in {1, 2} : <<src1, src2>>[n] # 0}
     IN  /\ canIssue(cpu[p], i)
         /\ cpu' = [cpu EXCEPT ![p] = takeEntries(@, d, i, Fake(d))]
         /\ dinst' = [x \in Slots |->
              IF x = d
              THEN [dinst[d] EXCEPT
                      !.st = IF deps = {} THEN "selected" ELSE "window",
                      !.deps = deps, !.depsAtRetire = remote,
                      !.forwarded = /\ i.op = "load" /\ stores[i.word] # 0
                                    /\ dinst[stores[i.word]].proc = p]
              ELSE IF x \in {src1, src2}
              THEN [dinst[x] EXCEPT
                      !.pend = @ \cup {[d |-> d, src |-> n] :
                                         n \in {m \in {1, 2} : <<src1, src2>>[m] = x}}]
              ELSE dinst[x]]
         /\ stores' = getStoreEntry(d, i)
         /\ fe' = [fe EXCEPT
              ![p].spaceInInstQueue = @ + 1,
              ![p].instQueue = IF Len(b) = 1 THEN Tail(@) ELSE <<Tail(b)>> \o Tail(@),
              ![p].pipe = IF Len(b) = 1 THEN doneItem(@) ELSE @]
  /\ UNCHANGED conf

-----------------------------------------------------------------------------
(* Execution.                                                              *)

(* Cluster: an entry of the window is given back at issue, at execution or *)
(* at retirement.                                                          *)
delEntry(c, at) == [c EXCEPT !.windowSize = @ + One(conf.recycleAt = at)]

Fed(d, x) == {e.src : e \in {f \in dinst[d].pend : f.d = x}}

(* DepWindow::executed: d is executed and wakes what waited for it.  A     *)
(* load that waits for a store of another processor is queued again.       *)
executed(d) ==
  LET stays(x) == Op(d) = "store" /\ dinst[x].depsAtRetire
      left(x) == dinst[x].deps \ Fed(d, x)
  IN  [x \in Slots |->
         IF x = d
         THEN [dinst[d] EXCEPT !.st = "executed", !.pend = {e \in @ : stays(e.d)}]
         ELSE IF \E e \in dinst[d].pend : e.d = x /\ ~stays(x)
         THEN [dinst[x] EXCEPT !.deps = left(x),
                               !.st = IF left(x) = {} THEN "selected" ELSE @]
         ELSE dinst[x]]

isFence(d) == Op(d) \in {"fetchop", "memfence", "acquire"}

(* DInst::doAtSimTime: simTime of the units.  An event executes at once,   *)
(* past doAtExecuted, a fence after a cycle, the others take a port.       *)
simTimeEvent(d) ==
  /\ dinst[d].st = "selected" /\ Op(d) = "event"
  /\ dinst' = executed(d)
  /\ cpu' = [cpu EXCEPT ![dinst[d].proc] = delEntry(delEntry(@, "Issue"), "Execute")]
  /\ UNCHANGED <<conf, fe, stores>>

simTimeFence(d) ==
  /\ dinst[d].st = "selected" /\ isFence(d)
  /\ dinst' = [dinst EXCEPT ![d].st = "unit"]
  /\ cpu' = [cpu EXCEPT ![dinst[d].proc] = delEntry(@, "Issue")]
  /\ UNCHANGED <<conf, fe, stores>>

simTimePort(d) ==
  /\ dinst[d].st = "selected" /\ Op(d) \in {"alu", "branch", "load", "store"}
  /\ dinst' = [dinst EXCEPT ![d].st = "port"]
  /\ UNCHANGED <<conf, fe, cpu, stores>>

(* Resource::issued.                                                       *)
issued(d) ==
  /\ dinst[d].st = "port"
  /\ dinst' = [dinst EXCEPT ![d].st =
                 IF Op(d) = "load" /\ ~dinst[d].forwarded THEN "cache" ELSE "unit"]
  /\ cpu' = [cpu EXCEPT ![dinst[d].proc] = delEntry(@, "Issue")]
  /\ UNCHANGED <<conf, fe, stores>>

(* FULoad::cacheDispatched, its retries, and DMemRequest::ack.             *)
loadAck(d) ==
  /\ dinst[d].st = "cache"
  /\ dinst' = [dinst EXCEPT ![d].st = "unit"]
  /\ UNCHANGED <<conf, fe, cpu, stores>>

(* misBranchRestore of Processor and of the units.                         *)
misBranchRestore(c) == [c EXCEPT !.misLoads = 0, !.misStores = 0, !.misRegPool = 0]

(* DInst::doAtExecuted and executed of the units.  A mispredicted branch   *)
(* unblocks fetch, and cleans the pipeline with SESC_MISPATH.              *)
doAtExecuted(d) ==
  LET p == dinst[d].proc
      restore == dinst[d].fetch /\ conf.misPath
  IN  /\ dinst[d].st = "unit"
      /\ dinst' = executed(d)
      /\ cpu' = [cpu EXCEPT ![p] =
           LET c == [delEntry(cpu[p], "Execute") EXCEPT
                       !.rat = [r \in DOMAIN @ |->
                                  IF r = dinst[d].inst.dest /\ @[r] = d THEN 0 ELSE @[r]],
                       !.freeBranches = @ + One(Op(d) = "branch")]
           IN  IF restore THEN misBranchRestore(c) ELSE c]
      /\ fe' = [fe EXCEPT
           ![p].missInstID = @ /\ ~dinst[d].fetch,
           ![p].pipe = IF restore THEN cleanMark(@) ELSE @]
      /\ UNCHANGED <<conf, stores>>

-----------------------------------------------------------------------------
(* Retirement.                                                             *)

(* Loads of other processors that waited for d go to their unit.           *)
awakeRemoteInstructions(d) ==
  LET left(x) == dinst[x].deps \ Fed(d, x)
  IN  [x \in Slots |->
         IF Fed(d, x) # {}
         THEN [dinst[x] EXCEPT !.deps = left(x), !.depsAtRetire = FALSE,
                               !.st = IF left(x) = {} THEN "port" ELSE @]
         ELSE dinst[x]]

destroy(d) == [awakeRemoteInstructions(d) EXCEPT ![d] = Free]

(* Mutant: a register of the wrong path is given back.                     *)
leaveWrongPath(c, d) ==
  [c EXCEPT !.rob = Tail(@),
            !.retired = @ + One(~Fake(d)),
            !.regPool = @ + One(dinst[d].inst.dest # InvalidOutput)]

(* GProcessor::retire takes the head of the ROB.                           *)
leave(c, d) ==
  [c EXCEPT !.rob = Tail(@),
            !.retired = @ + One(~Fake(d)),
            !.regPool = @ + One(~Fake(d) /\ dinst[d].inst.dest # InvalidOutput)]

atHead(p, d) ==
  cpu[p].rob # <<>> /\ Head(cpu[p].rob) = d /\ dinst[d].st = "executed"

(* Resource::retire and FULoad::retire.                                    *)
retirePlain(p, d) ==
  /\ atHead(p, d) /\ Op(d) \in {"alu", "branch", "event", "load"}
  /\ dinst' = destroy(d)
  /\ cpu' = [cpu EXCEPT ![p] =
               [leave(delEntry(cpu[p], "Retire"), d) EXCEPT
                  !.freeLoads = @ + One(Op(d) = "load" /\ ~Fake(d))]]
  /\ UNCHANGED <<conf, fe, stores>>

(* Mutant: the entry of the buffer stays.                                  *)
storeLocallyKept(d) == stores

(* LDSTBuffer::storeLocallyPerformed.                                      *)
storeLocallyPerformed(d) ==
  IF stores[dinst[d].inst.word] = d
  THEN [stores EXCEPT ![dinst[d].inst.word] = 0] ELSE stores

(* FUStore::retire: a store of the wrong path is dropped, another one is   *)
(* sent to the cache unless a fence is pending.                            *)
retireStore(p, d) ==
  /\ atHead(p, d) /\ Op(d) = "store"
  /\ stores' = storeLocallyPerformed(d)
  /\ \/ /\ Fake(d)
        /\ dinst' = destroy(d)
        /\ cpu' = [cpu EXCEPT ![p] = leave(delEntry(@, "Retire"), d)]
     \/ /\ ~Fake(d) /\ ~cpu[p].pendingFence
        /\ dinst' = [dinst EXCEPT ![d].st = "memory", ![d].epoch = cpu[p].epoch]
        /\ cpu' = [cpu EXCEPT ![p] =
                     [leave(delEntry(cpu[p], "Retire"), d) EXCEPT
                        !.freeStores = @ + 1, !.nOutsStores = @ + 1]]
  /\ UNCHANGED <<conf, fe>>

doFence(c) == [c EXCEPT !.pendingFence = @ \/ c.nOutsStores > 0]

(* FUMemory::retire, which gives no entry of the window back.              *)
retireFence(p, d) ==
  /\ atHead(p, d) /\ isFence(d)
  /\ \/ /\ Op(d) = "fetchop" /\ ~cpu[p].pendingFence
        /\ dinst' = [dinst EXCEPT ![d].st = "memory", ![d].epoch = cpu[p].epoch]
        /\ cpu' = [cpu EXCEPT ![p] = [leave(cpu[p], d) EXCEPT !.nOutsStores = @ + 1]]
     \/ /\ Op(d) = "memfence"
        /\ dinst' = destroy(d)
        /\ cpu' = [cpu EXCEPT ![p] = [doFence(leave(cpu[p], d)) EXCEPT !.epoch = @ + 1]]
     \/ /\ Op(d) = "acquire"
        /\ dinst' = destroy(d)
        /\ cpu' = [cpu EXCEPT ![p] = leave(@, d)]
  /\ UNCHANGED <<conf, fe, stores>>

Retire(p) == \E d \in Slots : retirePlain(p, d) \/ retireStore(p, d) \/ retireFence(p, d)

(* Mutant: the first of several answers ends the fence.                    *)
storeCompletedEarly(d) ==
  LET p == dinst[d].proc
  IN  /\ dinst[d].st = "memory"
      /\ dinst' = destroy(d)
      /\ cpu' = [cpu EXCEPT ![p].nOutsStores = @ - 1, ![p].pendingFence = FALSE]
      /\ UNCHANGED <<conf, fe, stores>>

(* DMemRequest::dinstAck of a write and FUStore::storeCompleted.           *)
storeCompleted(d) ==
  LET p == dinst[d].proc
  IN  /\ dinst[d].st = "memory"
      /\ dinst' = destroy(d)
      /\ cpu' = [cpu EXCEPT ![p].nOutsStores = @ - 1,
                            ![p].pendingFence = @ /\ cpu[p].nOutsStores # 1]
      /\ UNCHANGED <<conf, fe, stores>>

Callback(d) ==
  \/ simTimeEvent(d) \/ simTimeFence(d) \/ simTimePort(d) \/ issued(d)
  \/ loadAck(d) \/ doAtExecuted(d) \/ storeCompleted(d)

(* No processor has work left (Processor::hasWork).                        *)
hasWork(p) ==
  \/ fe[p].pc <= Len(Program(p)) \/ cpu[p].rob # <<>> \/ fe[p].instQueue # <<>>
  \/ fe[p].pipe.buffer # <<>> \/ fe[p].pipe.nIRequests < MaxIRequests

Finished == (\A p \in Procs : ~hasWork(p)) /\ Live = {} /\ UNCHANGED vars

Next ==
  \/ \E p \in Procs :
       \/ Fetch(p) \/ unBlockFetch(p) \/ Decode(p) \/ Issue(p) \/ Retire(p)
       \/ \E k \in DOMAIN fe[p].pipe.order : markFetched(p, k)
  \/ \E d \in Slots : Callback(d)
  \/ Finished

(* A thread that runs yields instructions, the instruction cache and the   *)
(* memory answer, and the processor is clocked while it has work.          *)
Fairness ==
  /\ \A p \in Procs :
       /\ SF_vars(\E n \in 1..FetchWidth, miss \in {"no", "resolve", "btac"} :
                    realFetch(p, n, miss))
       /\ WF_vars(unBlockFetch(p)) /\ WF_vars(Decode(p)) /\ WF_vars(Issue(p))
       /\ WF_vars(Retire(p))
       /\ WF_vars(markFetched(p, 1))
  /\ \A d \in Slots : WF_vars(Callback(d))

Spec == Init /\ [][Next]_vars /\ Fairness
-----------------------------------------------------------------------------
(* The instructions of p on their way, oldest first: the ROB and the       *)
(* buckets behind it.                                                      *)
Insts(order) == [k \in DOMAIN order |-> order[k].insts]
InFlight(p) ==
  <<cpu[p].rob>> \o fe[p].instQueue \o fe[p].pipe.buffer \o Insts(fe[p].pipe.order)

Items(bs) == UNION {Range(b) : b \in Range(bs)}

(* Whatever the order in which the instruction cache delivers buckets,     *)
(* branches resolve and wrong paths are swallowed: the instructions        *)
(* between fetch and retirement are the next ones of the program, in       *)
(* program order, none lost and none twice (Pipeline::readyItem, nextItem).*)
InProgramOrder ==
  \A p \in Procs :
    LET bs == InFlight(p)
        real == {d \in Items(bs) \ {0} : ~Fake(d)}
    IN  /\ {dinst[d].pos : d \in real} = cpu[p].retired + 1 .. fe[p].pc - 1
        /\ \A i, j \in DOMAIN bs : \A k \in DOMAIN bs[i], l \in DOMAIN bs[j] :
             /\ i < j \/ (i = j /\ k < l)
             /\ {bs[i][k], bs[j][l]} \subseteq real
             => dinst[bs[i][k]].pos < dinst[bs[j][l]].pos

Marks(bs) == Cardinality({k \in DOMAIN bs : bs[k] = cleanItem})

(* No bucket, no request to the instruction cache and no entry of the      *)
(* instruction queue is lost or given back twice, and the clean marks in   *)
(* the pipeline are the ones counted: at most one (Pipeline::newItem,      *)
(* readyItem, doneItem, cleanMark; Processor::advanceClock).               *)
BucketsExact ==
  \A p \in Procs :
    LET pl == fe[p].pipe
        held == pl.buffer \o Insts(pl.order)
    IN  /\ pl.bucketPool + Len(held) - Marks(held) + Len(fe[p].instQueue)
              = bucketPoolMaxSize
        /\ pl.nIRequests + Cardinality({k \in DOMAIN pl.order : ~pl.order[k].ready})
              = MaxIRequests
        /\ pl.nCleanMarks = Marks(held) /\ pl.nCleanMarks <= 1
        /\ pl.cleanBucketPool + pl.nCleanMarks = bucketPoolMaxSize
        /\ fe[p].spaceInInstQueue + Cardinality(Items(fe[p].instQueue)) = InstQueueSize

(* Stages in which an instruction holds an entry of the window.            *)
holdsEntry ==
  [Issue |-> {"window", "selected", "port"},
   Execute |-> {"window", "selected", "port", "cache", "unit"},
   Retire |-> {"window", "selected", "port", "cache", "unit", "executed"}]

(* Every counter of a resource is what the instructions in flight leave of *)
(* it: entries of the window, the load and store queues, branches,         *)
(* registers and stores the memory has not answered (canIssue, executed    *)
(* and retire of the units), and the buckets of the front end.             *)
CountersExact ==
  /\ BucketsExact
  /\ \A p \in Procs :
       LET c == cpu[p]
           rob == Range(c.rob)
       IN
       /\ c.windowSize = WinSize
            - Cardinality({d \in rob : dinst[d].st \in holdsEntry[conf.recycleAt]})
       /\ c.freeLoads = MaxLoads - Cardinality({d \in rob : Op(d) = "load" /\ ~Fake(d)})
       /\ c.freeStores = MaxStores - Cardinality({d \in rob : Op(d) = "store" /\ ~Fake(d)})
       /\ c.freeBranches = MaxBranches
            - Cardinality({d \in rob : Op(d) = "branch" /\ ~isExecuted(d)})
       /\ c.regPool = MaxRegs
            - Cardinality({d \in rob : dinst[d].inst.dest # InvalidOutput /\ ~Fake(d)})
       /\ c.nOutsStores = Cardinality({d \in Live : dinst[d].proc = p /\ dinst[d].st = "memory"})
       /\ c.pendingFence => c.nOutsStores > 0

(* Each source an instruction waits for will wake it exactly once, and     *)
(* nothing names an instruction that is gone: neither a list of waiting    *)
(* instructions, nor the rename table, nor the load/store buffer           *)
(* (DInst::addSrc1, getNextPending; recycling by DInst::destroy).          *)
DependencesExact ==
  /\ \A d \in Live :
       /\ \A n \in {1, 2} :
            Cardinality({x \in Live : [d |-> d, src |-> n] \in dinst[x].pend})
              = One(n \in dinst[d].deps)
       /\ \A e \in dinst[d].pend : e.d \in Live
       /\ dinst[d].st = "window" <=> dinst[d].deps # {}
  /\ \A p \in Procs, r \in Regs \cup {NoDependence} :
       cpu[p].rat[r] # 0 =>
         cpu[p].rat[r] \in Range(cpu[p].rob) /\ ~isExecuted(cpu[p].rat[r])
  /\ \A w \in DOMAIN stores : stores[w] # 0 =>
       \E p \in Procs : stores[w] \in Range(cpu[p].rob)

(* A load does not leave the window while the youngest older store of its  *)
(* processor to the same word is not executed (LDSTBuffer: "enforces       *)
(* dependences between load and store").                                   *)
LoadWaitsForStore ==
  \A p \in Procs : \A j \in DOMAIN cpu[p].rob :
    LET d == cpu[p].rob[j]
        older == {i \in 1..j - 1 : /\ Op(cpu[p].rob[i]) = "store"
                                   /\ dinst[cpu[p].rob[i]].inst.word = dinst[d].inst.word}
    IN  Op(d) = "load" /\ older # {} /\ ~isExecuted(cpu[p].rob[Max(older)])
          => dinst[d].st = "window"

(* The stores and fetch&ops of a processor that the memory has not         *)
(* answered were all sent between the same two fences: none overtakes a    *)
(* fence (FUStore::doFence, waitingOnFence, storeCompleted).               *)
FenceOrder ==
  \A d, e \in Live :
    dinst[d].st = "memory" /\ dinst[e].st = "memory" /\ dinst[d].proc = dinst[e].proc
      => dinst[d].epoch = dinst[e].epoch

(* Every instruction of every program is retired: fetch is unblocked, no   *)
(* entry is waited for in a circle, no wake-up is missed (GProcessor::     *)
(* retire checks for progress).                                            *)
EveryInstRetires == \A p \in Procs : <>(cpu[p].retired = Len(Program(p)))
=============================================================================
