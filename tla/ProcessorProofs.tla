-------------------------- MODULE ProcessorProofs --------------------------
(***************************************************************************)
(* The out-of-order processors keep instructions in program order, count   *)
(* every resource exactly, name no instruction that is gone, and let no    *)
(* store or load pass what it has to wait for: for any programs,           *)
(* processors, registers, words and sizes.  Two of the theorems have a     *)
(* hypothesis on the programs, EntriesReturn and WordsApart.               *)
(***************************************************************************)
EXTENDS Processor, FiniteSetTheorems, SequenceTheorems, TLAPS

-----------------------------------------------------------------------------
(***************************************************************************)
(* The invariant                                                           *)
(***************************************************************************)
Bucket == Seq(Slots) \cup {cleanItem}
Entry == [ready: BOOLEAN, insts: Bucket]
Orders == Seq(Entry)
Buffers == Seq(Bucket \ {<<>>})
PipelineRec ==
  [order: Orders, buffer: Buffers,
   bucketPool: Int, cleanBucketPool: Int, nIRequests: Int, nCleanMarks: Int]
Queues == Seq(Seq(Slots) \ {<<>>})
FrontEnd ==
  [pc: Nat \ {0}, missInstID: BOOLEAN, btac: BOOLEAN, pipe: PipelineRec,
   instQueue: Queues, spaceInInstQueue: Int]
AllRegs == Regs \cup {NoDependence, InvalidOutput}
Robs == Seq(Slots)
Rats == [AllRegs -> Slots \cup {0}]
Core ==
  [rob: Robs, retired: Nat, epoch: Nat, rat: Rats,
   windowSize: Int, freeLoads: Int, misLoads: Int, freeStores: Int,
   misStores: Int, freeBranches: Int, regPool: Int, misRegPool: Int,
   pendingFence: BOOLEAN, nOutsStores: Int]
Deps == SUBSET {1, 2}
Pends == SUBSET [d: Slots, src: {1, 2}]
DInst ==
  [st: Stages, proc: Procs, pos: Nat, inst: Instruction, fake: BOOLEAN,
   fetch: BOOLEAN, deps: Deps, pend: Pends,
   depsAtRetire: BOOLEAN, forwarded: BOOLEAN, epoch: Nat]

Typed ==
  /\ conf \in Confs
  /\ fe \in [Procs -> FrontEnd]
  /\ cpu \in [Procs -> Core]
  /\ dinst \in [Slots -> DInst \cup {Free}]
  /\ stores \in [Words \cup {NoWord} -> Slots \cup {0}]

(* The order of the instructions in a bucket and in a sequence of buckets. *)
Follows(s, d, e) == \E k, l \in DOMAIN s : k < l /\ s[k] = d /\ s[l] = e
Precedes(bs, d, e) ==
  \E i, j \in DOMAIN bs : \E k \in DOMAIN bs[i], l \in DOMAIN bs[j] :
    bs[i][k] = d /\ bs[j][l] = e /\ (i < j \/ (i = j /\ k < l))

(* The places of an instruction of p, oldest first, and the order between  *)
(* two: one of two is in an older place, or both are in the same.          *)
robOf(p) == Range(cpu[p].rob)
queueOf(p) == Items(fe[p].instQueue)
bufferOf(p) == Items(fe[p].pipe.buffer)
orderOf(p) == Items(Insts(fe[p].pipe.order))
inPipe(p) == bufferOf(p) \cup orderOf(p)
Before(p, d, e) ==
  \/ Follows(cpu[p].rob, d, e)
  \/ d \in robOf(p) /\ e \in queueOf(p) \cup bufferOf(p) \cup orderOf(p)
  \/ Precedes(fe[p].instQueue, d, e)
  \/ d \in queueOf(p) /\ e \in bufferOf(p) \cup orderOf(p)
  \/ Precedes(fe[p].pipe.buffer, d, e)
  \/ (d \in bufferOf(p) /\ e \in orderOf(p))
  \/ Precedes(Insts(fe[p].pipe.order), d, e)

inROB == {"window", "selected", "port", "cache", "unit", "executed"}
waiting == {"fetched", "window", "selected", "port", "cache", "unit"}
InStage(p, S) == {d \in Slots : dinst[d].st \in S /\ dinst[d].proc = p}
Real(p) == {d \in InStage(p, inROB \cup {"fetched"}) : ~dinst[d].fake}

(* Each instruction is in its place, once, and in the order of the program.*)
Placed ==
  \A p \in Procs :
    /\ robOf(p) = InStage(p, inROB)
    /\ (queueOf(p) \cup bufferOf(p) \cup orderOf(p)) \ {0} = InStage(p, {"fetched"})
    /\ \A d \in Slots : ~Before(p, d, d)
Sequential ==
  \A p \in Procs :
    /\ \A d, e \in Real(p) : Before(p, d, e) => dinst[d].pos < dinst[e].pos
    /\ {dinst[d].pos : d \in Real(p)} = cpu[p].retired + 1 .. fe[p].pc - 1
    /\ cpu[p].retired < fe[p].pc

(* Where instructions come from.                                           *)
OriginOf(d) ==
  /\ Fake(d) => conf.misPath /\ \E b \in FakeBuckets : dinst[d].inst \in Range(b)
  /\ ~Fake(d) => dinst[d].inst \in Range(Program(dinst[d].proc))
  /\ dinst[d].fetch => Op(d) = "branch" /\ ~Fake(d)
Origins == \A d \in Live : OriginOf(d)

(* There is at most one clean mark and one branch that blocks fetch, and   *)
(* no mark behind the branch.                                              *)
Blocking(p) == {d \in InStage(p, waiting) : dinst[d].fetch}
Marked ==
  \A p \in Procs :
    /\ ~Before(p, 0, 0)
    /\ fe[p].pipe.nCleanMarks = One(0 \in bufferOf(p) \cup orderOf(p))
    /\ \A d \in Blocking(p) :
         /\ fe[p].missInstID /\ ~fe[p].btac /\ ~Before(p, d, 0)
         /\ Blocking(p) = {d}

unready(order) == {k \in DOMAIN order : ~order[k].ready}
Buckets ==
  \A p \in Procs :
    LET pl == fe[p].pipe
    IN  /\ pl.bucketPool + Len(pl.buffer) + Len(pl.order) - pl.nCleanMarks
             + Len(fe[p].instQueue) = bucketPoolMaxSize
        /\ pl.nIRequests + Cardinality(unready(pl.order)) = MaxIRequests
        /\ pl.cleanBucketPool + pl.nCleanMarks = bucketPoolMaxSize
        /\ fe[p].spaceInInstQueue + Cardinality(queueOf(p)) = InstQueueSize

(* What takes an entry of each resource.                                   *)
windowed(p) == InStage(p, holdsEntry[conf.recycleAt])
loads(p) == {d \in InStage(p, inROB) : Op(d) = "load" /\ ~Fake(d)}
storesOf(p) == {d \in InStage(p, inROB) : Op(d) = "store" /\ ~Fake(d)}
branches(p) == {d \in InStage(p, inROB \ {"executed"}) : Op(d) = "branch"}
renamed(p) ==
  {d \in InStage(p, inROB) : dinst[d].inst.dest # InvalidOutput /\ ~Fake(d)}
outstanding(p) == InStage(p, {"memory"})
Resources ==
  \A p \in Procs :
    LET c == cpu[p]
    IN  /\ c.freeLoads = MaxLoads - Cardinality(loads(p))
        /\ c.freeStores = MaxStores - Cardinality(storesOf(p))
        /\ c.freeBranches = MaxBranches - Cardinality(branches(p))
        /\ c.regPool = MaxRegs - Cardinality(renamed(p))
Window ==
  \A p \in Procs : cpu[p].windowSize = WinSize - Cardinality(windowed(p))

(* The stores on their way were all sent after the last fence, but while   *)
(* a fence is pending, when none is sent.                                  *)
Fenced ==
  /\ FenceOrder
  /\ \A p \in Procs :
       LET c == cpu[p]
       IN  /\ c.nOutsStores = Cardinality(outstanding(p))
           /\ c.pendingFence => c.nOutsStores > 0
           /\ ~c.pendingFence => \A d \in outstanding(p) : dinst[d].epoch = c.epoch

(* Who waits for whom.                                                     *)
wakes(x, d, n) == [d |-> d, src |-> n] \in dinst[x].pend
Wakeups ==
  /\ \A d \in Live : \A n \in {1, 2} :
       /\ n \in dinst[d].deps <=> \E x \in Live : wakes(x, d, n)
       /\ \A x, y \in Live : wakes(x, d, n) /\ wakes(y, d, n) => x = y
  /\ \A x \in Live : \A e \in dinst[x].pend : e.d \in Live
  /\ \A d \in Live : dinst[d].st = "window" <=> dinst[d].deps # {}
  /\ \A d \in Live : dinst[d].st = "fetched" => dinst[d].pend = {}
RenamedAs(p, r, d) ==
  d # 0 => d \in InStage(p, inROB \ {"executed"}) /\ dinst[d].inst.dest = r
Renaming ==
  \A p \in Procs : \A r \in Regs \cup {NoDependence} : RenamedAs(p, r, cpu[p].rat[r])
BufferedAs(w, d) ==
  d # 0 => /\ d \in Live /\ dinst[d].st \in inROB
           /\ Op(d) = "store" /\ dinst[d].inst.word = w
Buffered == \A w \in DOMAIN stores : BufferedAs(w, stores[w])

IInv ==
  /\ Typed /\ Placed /\ Sequential /\ Origins /\ Marked /\ Buckets /\ Resources
  /\ Fenced /\ Wakeups /\ Renaming /\ Buffered
-----------------------------------------------------------------------------
(***************************************************************************)
(* Sequences of sequences                                                  *)
(***************************************************************************)
Nested == Seq(Seq(Nat))

LEMMA ItemsIn ==
  ASSUME NEW A, NEW d
  PROVE  d \in Items(A) <=> \E i \in DOMAIN A : \E k \in DOMAIN A[i] : A[i][k] = d
  <1>1. d \in Items(A) <=> \E b \in Range(A) : d \in Range(b)
    BY DEF Items
  <1>2. ASSUME NEW b PROVE d \in Range(b) <=> \E k \in DOMAIN b : b[k] = d
    BY DEF Range
  <1>3. (\E b \in Range(A) : d \in Range(b)) <=> \E i \in DOMAIN A : d \in Range(A[i])
    BY DEF Range
  <1> QED BY <1>1, <1>2, <1>3

(* Where the buckets of A and B are in A followed by B.                    *)
Joined(A, B, C) ==
  /\ \A i \in DOMAIN C : \/ i \in DOMAIN A /\ C[i] = A[i]
                         \/ \E k \in DOMAIN B : i = Len(A) + k /\ C[i] = B[k]
  /\ \A i \in DOMAIN A : i \in DOMAIN C /\ C[i] = A[i] /\ i \in Nat /\ i <= Len(A)
  /\ \A k \in DOMAIN B : Len(A) + k \in DOMAIN C /\ C[Len(A) + k] = B[k] /\ k \in Nat /\ k > 0

LEMMA ConcatNested ==
  ASSUME NEW A \in Nested, NEW B \in Nested
  PROVE  A \o B \in Nested /\ Joined(A, B, A \o B) /\ Len(A) \in Nat
  <1> DEFINE S == Seq(Nat)
  <1> HIDE DEF S
  <1>1. A \in Seq(S) /\ B \in Seq(S)
    BY DEF Nested, S
  <1>2. /\ A \o B \in Seq(S)
        /\ DOMAIN (A \o B) = 1 .. Len(A) + Len(B)
        /\ DOMAIN A = 1 .. Len(A) /\ DOMAIN B = 1 .. Len(B)
        /\ Len(A) \in Nat /\ Len(B) \in Nat
        /\ \A i \in 1 .. Len(A) : (A \o B)[i] = A[i]
        /\ \A i \in 1 .. Len(B) : (A \o B)[Len(A) + i] = B[i]
        /\ \A i \in 1 .. Len(A) + Len(B) : i > Len(A) => (A \o B)[i] = B[i - Len(A)]
    BY <1>1
  <1> DEFINE C == A \o B
  <1> HIDE DEF C
  <1>3. /\ DOMAIN C = 1 .. Len(A) + Len(B)
        /\ \A i \in 1 .. Len(A) : C[i] = A[i]
        /\ \A i \in 1 .. Len(B) : C[Len(A) + i] = B[i]
        /\ \A i \in 1 .. Len(A) + Len(B) : i > Len(A) => C[i] = B[i - Len(A)]
    BY <1>2 DEF C
  <1>4. ASSUME NEW i \in DOMAIN C
        PROVE  \/ i \in DOMAIN A /\ C[i] = A[i]
               \/ \E k \in DOMAIN B : i = Len(A) + k /\ C[i] = B[k]
    <2>1. CASE i <= Len(A)
      BY <1>2, <1>3, <2>1
    <2>2. CASE i > Len(A)
      <3>1. i - Len(A) \in DOMAIN B /\ i = Len(A) + (i - Len(A)) /\ C[i] = B[i - Len(A)]
        BY <1>2, <1>3, <2>2
      <3> QED BY <3>1
    <2> QED BY <1>2, <1>3, <2>1, <2>2
  <1>5. ASSUME NEW i \in DOMAIN A
        PROVE  i \in DOMAIN C /\ C[i] = A[i] /\ i \in Nat /\ i <= Len(A)
    BY <1>2, <1>3
  <1>6. ASSUME NEW k \in DOMAIN B
        PROVE  Len(A) + k \in DOMAIN C /\ C[Len(A) + k] = B[k] /\ k \in Nat /\ k > 0
    BY <1>2, <1>3
  <1>7. Joined(A, B, C)
    BY <1>4, <1>5, <1>6 DEF Joined
  <1> QED BY <1>2, <1>7 DEF C, Nested, S

LEMMA ItemsConcat ==
  ASSUME NEW A \in Nested, NEW B \in Nested
  PROVE  Items(A \o B) = Items(A) \cup Items(B)
  <1>1. PICK C : C = A \o B
    OBVIOUS
  <1>2. Joined(A, B, C)
    BY <1>1, ConcatNested
  <1>3. ASSUME NEW d
        PROVE  d \in Items(C) <=> d \in Items(A) \/ d \in Items(B)
    BY <1>2, ItemsIn DEF Joined
  <1> QED BY <1>1, <1>3

(* The order in A followed by B.                                           *)
LEMMA PrecedesConcat ==
  ASSUME NEW A \in Nested, NEW B \in Nested, NEW d, NEW e
  PROVE  Precedes(A \o B, d, e) <=>
           \/ Precedes(A, d, e) \/ Precedes(B, d, e)
           \/ (d \in Items(A) /\ e \in Items(B))
  <1>1. PICK C : C = A \o B
    OBVIOUS
  <1>2. Joined(A, B, C) /\ Len(A) \in Nat
    BY <1>1, ConcatNested
  <1>3. ASSUME Precedes(C, d, e)
        PROVE  \/ Precedes(A, d, e) \/ Precedes(B, d, e)
               \/ (d \in Items(A) /\ e \in Items(B))
    <2>1. PICK i \in DOMAIN C, j \in DOMAIN C :
            \E k \in DOMAIN C[i], l \in DOMAIN C[j] :
              C[i][k] = d /\ C[j][l] = e /\ (i < j \/ (i = j /\ k < l))
      BY <1>3 DEF Precedes
    <2>2. CASE i \in DOMAIN A /\ j \in DOMAIN A /\ C[i] = A[i] /\ C[j] = A[j]
      BY <2>1, <2>2 DEF Precedes
    <2>3. CASE i \in DOMAIN A /\ C[i] = A[i] /\ \E n \in DOMAIN B : C[j] = B[n]
      BY <2>1, <2>3, ItemsIn
    <2>4. ASSUME NEW m \in DOMAIN B, NEW n \in DOMAIN B, i = Len(A) + m, j = Len(A) + n,
                 C[i] = B[m], C[j] = B[n]
          PROVE  Precedes(B, d, e)
      <3>1. (i < j <=> m < n) /\ (i = j <=> m = n)
        BY <1>2, <2>4 DEF Joined
      <3> QED BY <2>1, <2>4, <3>1 DEF Precedes
    <2>5. ASSUME NEW m \in DOMAIN B, i = Len(A) + m, j \in DOMAIN A
          PROVE  FALSE
      <3>1. i > j /\ i \in Nat /\ j \in Nat
        BY <1>2, <2>5 DEF Joined
      <3> QED BY <2>1, <3>1
    <2> QED BY <1>2, <2>2, <2>3, <2>4, <2>5 DEF Joined
  <1>4. ASSUME Precedes(A, d, e) PROVE Precedes(C, d, e)
    BY <1>2, <1>4 DEF Precedes, Joined
  <1>5. ASSUME Precedes(B, d, e) PROVE Precedes(C, d, e)
    <2>1. PICK i \in DOMAIN B, j \in DOMAIN B :
            \E k \in DOMAIN B[i], l \in DOMAIN B[j] :
              B[i][k] = d /\ B[j][l] = e /\ (i < j \/ (i = j /\ k < l))
      BY <1>5 DEF Precedes
    <2>2. /\ Len(A) + i \in DOMAIN C /\ Len(A) + j \in DOMAIN C
          /\ C[Len(A) + i] = B[i] /\ C[Len(A) + j] = B[j] /\ i \in Nat /\ j \in Nat
      BY <1>2 DEF Joined
    <2>3. /\ i < j => Len(A) + i < Len(A) + j
          /\ i = j => Len(A) + i = Len(A) + j
      BY <1>2, <2>2
    <2> QED BY <2>1, <2>2, <2>3 DEF Precedes
  <1>6. ASSUME d \in Items(A), e \in Items(B) PROVE Precedes(C, d, e)
    <2>1. PICK i \in DOMAIN A : \E k \in DOMAIN A[i] : A[i][k] = d
      BY <1>6, ItemsIn
    <2>2. PICK j \in DOMAIN B : \E l \in DOMAIN B[j] : B[j][l] = e
      BY <1>6, ItemsIn
    <2>3. /\ i \in DOMAIN C /\ Len(A) + j \in DOMAIN C /\ i < Len(A) + j
          /\ C[i] = A[i] /\ C[Len(A) + j] = B[j]
      BY <1>2, <2>1, <2>2 DEF Joined
    <2> QED BY <2>1, <2>2, <2>3 DEF Precedes
  <1> QED BY <1>1, <1>3, <1>4, <1>5, <1>6

LEMMA OneBucket ==
  ASSUME NEW s \in Seq(Nat), NEW d, NEW e
  PROVE  /\ <<s>> \in Nested
         /\ Items(<<s>>) = Range(s)
         /\ Precedes(<<s>>, d, e) <=> Follows(s, d, e)
  <1>1. <<s>> \in Nested /\ DOMAIN <<s>> = {1} /\ <<s>>[1] = s
    BY DEF Nested
  <1>2. Items(<<s>>) = Range(s)
    BY <1>1 DEF Items, Range
  <1>3. Precedes(<<s>>, d, e) <=> Follows(s, d, e)
    <2>1. DOMAIN s \subseteq Nat
      OBVIOUS
    <2> HIDE DEF Nested
    <2> QED BY <1>1, <2>1 DEF Precedes, Follows
  <1> QED BY <1>1, <1>2, <1>3

LEMMA NoBucket ==
  ASSUME NEW d, NEW e
  PROVE  <<>> \in Nested /\ Items(<<>>) = {} /\ ~Precedes(<<>>, d, e)
  BY DEF Nested, Items, Range, Precedes

(* The same for sequences of instructions.                                 *)
LEMMA FollowsConcat ==
  ASSUME NEW s \in Seq(Nat), NEW t \in Seq(Nat), NEW d, NEW e
  PROVE  /\ Range(s \o t) = Range(s) \cup Range(t)
         /\ Follows(s \o t, d, e) <=>
              \/ Follows(s, d, e) \/ Follows(t, d, e)
              \/ (d \in Range(s) /\ e \in Range(t))
  <1>1. /\ DOMAIN (s \o t) = 1 .. Len(s) + Len(t)
        /\ DOMAIN s = 1 .. Len(s) /\ DOMAIN t = 1 .. Len(t)
        /\ Len(s) \in Nat /\ Len(t) \in Nat
        /\ \A i \in 1 .. Len(s) : (s \o t)[i] = s[i]
        /\ \A i \in 1 .. Len(t) : (s \o t)[Len(s) + i] = t[i]
        /\ \A i \in 1 .. Len(s) + Len(t) : i > Len(s) => (s \o t)[i] = t[i - Len(s)]
    OBVIOUS
  <1> DEFINE u == s \o t
  <1> HIDE DEF u
  <1>2. /\ DOMAIN u = 1 .. Len(s) + Len(t)
        /\ \A i \in DOMAIN s : i \in DOMAIN u /\ u[i] = s[i]
        /\ \A i \in DOMAIN t : Len(s) + i \in DOMAIN u /\ u[Len(s) + i] = t[i]
        /\ \A i \in DOMAIN u : \/ i \in DOMAIN s /\ u[i] = s[i]
                               \/ i > Len(s) /\ i - Len(s) \in DOMAIN t /\ u[i] = t[i - Len(s)]
    BY <1>1 DEF u
  <1>3. Range(u) = Range(s) \cup Range(t)
    <2>1. \A x \in Range(u) : x \in Range(s) \cup Range(t)
      BY <1>2 DEF Range
    <2>2. \A x \in Range(s) \cup Range(t) : x \in Range(u)
      BY <1>2 DEF Range
    <2> QED BY <2>1, <2>2
  <1>4. ASSUME Follows(u, d, e)
        PROVE  Follows(s, d, e) \/ Follows(t, d, e) \/ (d \in Range(s) /\ e \in Range(t))
    <2>1. PICK k \in DOMAIN u, l \in DOMAIN u : k < l /\ u[k] = d /\ u[l] = e
      BY <1>4 DEF Follows
    <2>2. CASE l \in DOMAIN s /\ u[l] = s[l]
      <3>1. k \in DOMAIN s /\ u[k] = s[k]
        BY <1>1, <1>2, <2>1, <2>2
      <3> QED BY <2>1, <2>2, <3>1 DEF Follows
    <2>3. CASE l > Len(s) /\ l - Len(s) \in DOMAIN t /\ u[l] = t[l - Len(s)]
      <3>1. CASE k \in DOMAIN s /\ u[k] = s[k]
        BY <2>1, <2>3, <3>1 DEF Range
      <3>2. CASE k > Len(s) /\ k - Len(s) \in DOMAIN t /\ u[k] = t[k - Len(s)]
        <4>1. k - Len(s) < l - Len(s)
          BY <1>1, <1>2, <2>1
        <4> QED BY <2>1, <2>3, <3>2, <4>1 DEF Follows
      <3> QED BY <1>2, <2>1, <3>1, <3>2
    <2> QED BY <1>2, <2>1, <2>2, <2>3
  <1>5. ASSUME Follows(s, d, e) PROVE Follows(u, d, e)
    BY <1>2, <1>5 DEF Follows
  <1>6. ASSUME Follows(t, d, e) PROVE Follows(u, d, e)
    <2>1. PICK k \in DOMAIN t, l \in DOMAIN t : k < l /\ t[k] = d /\ t[l] = e
      BY <1>6 DEF Follows
    <2>2. Len(s) + k < Len(s) + l
      BY <1>1, <2>1
    <2> QED BY <1>2, <2>1, <2>2 DEF Follows
  <1>7. ASSUME d \in Range(s), e \in Range(t) PROVE Follows(u, d, e)
    <2>1. PICK k \in DOMAIN s : s[k] = d
      BY <1>7 DEF Range
    <2>2. PICK l \in DOMAIN t : t[l] = e
      BY <1>7 DEF Range
    <2>3. k < Len(s) + l
      BY <1>1, <2>1, <2>2
    <2> QED BY <1>2, <2>1, <2>2, <2>3 DEF Follows
  <1> QED BY <1>3, <1>4, <1>5, <1>6, <1>7 DEF u

LEMMA OneItem ==
  ASSUME NEW x \in Nat, NEW d, NEW e
  PROVE  <<x>> \in Seq(Nat) /\ Range(<<x>>) = {x} /\ ~Follows(<<x>>, d, e)
  BY DEF Range, Follows

LEMMA NoItem ==
  ASSUME NEW d, NEW e
  PROVE  <<>> \in Seq(Nat) /\ Range(<<>>) = {} /\ ~Follows(<<>>, d, e)
  BY DEF Range, Follows

(* The first of a sequence and the others; one put behind the others.      *)
LEMMA HeadItem ==
  ASSUME NEW s \in Seq(Nat), s # <<>>, NEW d, NEW e
  PROVE  /\ Head(s) \in Nat /\ Tail(s) \in Seq(Nat)
         /\ Range(s) = {Head(s)} \cup Range(Tail(s))
         /\ Follows(s, d, e) <=>
              Follows(Tail(s), d, e) \/ (d = Head(s) /\ e \in Range(Tail(s)))
  <1>1. Head(s) \in Nat /\ Tail(s) \in Seq(Nat) /\ s = <<Head(s)>> \o Tail(s)
    BY HeadTailProperties
  <1>2. PICK x, y, t : x = Head(s) /\ y = <<x>> /\ t = Tail(s)
    OBVIOUS
  <1>3. y \in Seq(Nat) /\ Range(y) = {x} /\ ~Follows(y, d, e)
    BY <1>1, <1>2, OneItem
  <1>4. t \in Seq(Nat) /\ s = y \o t
    BY <1>1, <1>2
  <1>5. /\ Range(y \o t) = Range(y) \cup Range(t)
        /\ Follows(y \o t, d, e) <=>
             \/ Follows(y, d, e) \/ Follows(t, d, e) \/ (d \in Range(y) /\ e \in Range(t))
    BY <1>3, <1>4, FollowsConcat
  <1>6. /\ Range(s) = {x} \cup Range(t)
        /\ Follows(s, d, e) <=> Follows(t, d, e) \/ (d = x /\ e \in Range(t))
    BY <1>3, <1>4, <1>5
  <1> QED BY <1>1, <1>2, <1>6

LEMMA AppendItem ==
  ASSUME NEW s \in Seq(Nat), NEW x \in Nat, NEW d, NEW e
  PROVE  /\ Append(s, x) \in Seq(Nat)
         /\ Range(Append(s, x)) = Range(s) \cup {x}
         /\ Follows(Append(s, x), d, e) <=>
              Follows(s, d, e) \/ (d \in Range(s) /\ e = x)
  <1>1. Append(s, x) = s \o <<x>> /\ Append(s, x) \in Seq(Nat)
    BY AppendIsConcat
  <1>2. PICK y, u : y = <<x>> /\ u = Append(s, x)
    OBVIOUS
  <1>3. y \in Seq(Nat) /\ Range(y) = {x} /\ ~Follows(y, d, e)
    BY <1>2, OneItem
  <1>4. u = s \o y
    BY <1>1, <1>2
  <1>5. /\ Range(s \o y) = Range(s) \cup Range(y)
        /\ Follows(s \o y, d, e) <=>
             \/ Follows(s, d, e) \/ Follows(y, d, e) \/ (d \in Range(s) /\ e \in Range(y))
    BY <1>3, FollowsConcat
  <1>6. /\ Range(u) = Range(s) \cup {x}
        /\ Follows(u, d, e) <=> Follows(s, d, e) \/ (d \in Range(s) /\ e = x)
    BY <1>3, <1>4, <1>5
  <1> QED BY <1>1, <1>2, <1>6

LEMMA PrependBucket ==
  ASSUME NEW A \in Nested, NEW s \in Seq(Nat), NEW d, NEW e
  PROVE  /\ <<s>> \o A \in Nested
         /\ Items(<<s>> \o A) = Range(s) \cup Items(A)
         /\ Precedes(<<s>> \o A, d, e) <=>
              \/ Follows(s, d, e) \/ Precedes(A, d, e) \/ (d \in Range(s) /\ e \in Items(A))
  <1>1. PICK B : B = <<s>>
    OBVIOUS
  <1>2. /\ B \in Nested /\ Items(B) = Range(s)
        /\ Precedes(B, d, e) <=> Follows(s, d, e)
    BY <1>1, OneBucket
  <1>3. B \o A \in Nested
    BY <1>2, ConcatNested
  <1>4. Items(B \o A) = Items(B) \cup Items(A)
    BY <1>2, ItemsConcat
  <1>5. Precedes(B \o A, d, e) <=>
          \/ Precedes(B, d, e) \/ Precedes(A, d, e) \/ (d \in Items(B) /\ e \in Items(A))
    BY <1>2, PrecedesConcat
  <1> QED BY <1>1, <1>2, <1>3, <1>4, <1>5

LEMMA HeadBucket ==
  ASSUME NEW A \in Nested, A # <<>>, NEW d, NEW e
  PROVE  /\ Head(A) \in Seq(Nat) /\ Tail(A) \in Nested
         /\ Items(A) = Range(Head(A)) \cup Items(Tail(A))
         /\ Precedes(A, d, e) <=>
              \/ Follows(Head(A), d, e) \/ Precedes(Tail(A), d, e)
              \/ (d \in Range(Head(A)) /\ e \in Items(Tail(A)))
  <1>1. Head(A) \in Seq(Nat) /\ Tail(A) \in Nested /\ A = <<Head(A)>> \o Tail(A)
    <2> DEFINE S == Seq(Nat)
    <2> HIDE DEF S
    <2>1. A \in Seq(S)
      BY DEF Nested, S
    <2>2. Head(A) \in S /\ Tail(A) \in Seq(S) /\ A = <<Head(A)>> \o Tail(A)
      BY <2>1, HeadTailProperties
    <2> QED BY <2>2 DEF Nested, S
  <1>2. PICK x, T : x = Head(A) /\ T = Tail(A)
    OBVIOUS
  <1>3. /\ Items(<<x>> \o T) = Range(x) \cup Items(T)
        /\ Precedes(<<x>> \o T, d, e) <=>
              \/ Follows(x, d, e) \/ Precedes(T, d, e) \/ (d \in Range(x) /\ e \in Items(T))
    BY <1>1, <1>2, PrependBucket
  <1>4. /\ Items(A) = Range(x) \cup Items(T)
        /\ Precedes(A, d, e) <=>
              \/ Follows(x, d, e) \/ Precedes(T, d, e) \/ (d \in Range(x) /\ e \in Items(T))
    BY <1>1, <1>2, <1>3
  <1> QED BY <1>1, <1>2, <1>4

LEMMA AppendBucket ==
  ASSUME NEW A \in Nested, NEW s \in Seq(Nat), NEW d, NEW e
  PROVE  /\ Append(A, s) \in Nested
         /\ Items(Append(A, s)) = Items(A) \cup Range(s)
         /\ Precedes(Append(A, s), d, e) <=>
              \/ Precedes(A, d, e) \/ Follows(s, d, e) \/ (d \in Items(A) /\ e \in Range(s))
  <1>1. Append(A, s) = A \o <<s>> /\ Append(A, s) \in Nested
    <2> DEFINE S == Seq(Nat)
    <2> HIDE DEF S
    <2>1. A \in Seq(S) /\ s \in S
      BY DEF Nested, S
    <2>2. Append(A, s) \in Seq(S) /\ Append(A, s) = A \o <<s>>
      BY <2>1, AppendIsConcat
    <2> QED BY <2>2 DEF Nested, S
  <1>2. PICK B, C : B = <<s>> /\ C = Append(A, s)
    OBVIOUS
  <1>3. /\ B \in Nested /\ Items(B) = Range(s)
        /\ Precedes(B, d, e) <=> Follows(s, d, e)
    BY <1>2, OneBucket
  <1>4. Items(A \o B) = Items(A) \cup Items(B)
    BY <1>3, ItemsConcat
  <1>5. Precedes(A \o B, d, e) <=>
          \/ Precedes(A, d, e) \/ Precedes(B, d, e) \/ (d \in Items(A) /\ e \in Items(B))
    BY <1>3, PrecedesConcat
  <1>6. C = A \o B /\ C \in Nested
    BY <1>1, <1>2
  <1>7. /\ Items(C) = Items(A) \cup Range(s)
        /\ Precedes(C, d, e) <=>
              \/ Precedes(A, d, e) \/ Follows(s, d, e) \/ (d \in Items(A) /\ e \in Range(s))
    BY <1>3, <1>4, <1>5, <1>6
  <1> QED BY <1>1, <1>2, <1>7

(* A sequence cut in two.                                                  *)
Cut(A, X, Y) ==
  /\ X \in Nested /\ Y \in Nested
  /\ Items(A) = Items(X) \cup Items(Y)
  /\ \A d, e : Precedes(A, d, e) <=>
       Precedes(X, d, e) \/ Precedes(Y, d, e) \/ (d \in Items(X) /\ e \in Items(Y))
LEMMA CutBuckets ==
  ASSUME NEW A \in Nested, NEW n \in 0 .. Len(A)
  PROVE  /\ Cut(A, SubSeq(A, 1, n), SubSeq(A, n + 1, Len(A)))
         /\ Len(SubSeq(A, 1, n)) = n /\ Len(SubSeq(A, n + 1, Len(A))) = Len(A) - n
         /\ \A k \in 1 .. n : SubSeq(A, 1, n)[k] = A[k]
         /\ \A k \in 1 .. Len(A) - n : SubSeq(A, n + 1, Len(A))[k] = A[n + k]
  <1> DEFINE S == Seq(Nat)
  <1> HIDE DEF S
  <1>1. A \in Seq(S) /\ Len(A) \in Nat /\ n \in Nat /\ n <= Len(A)
    BY DEF Nested, S
  <1>2. PICK X, Y : X = SubSeq(A, 1, n) /\ Y = SubSeq(A, n + 1, Len(A))
    OBVIOUS
  <1>3. /\ X \in Seq(S) /\ Len(X) = n
        /\ \A k \in 1 .. n : X[k] = A[k]
    BY <1>1, <1>2
  <1>4. /\ Y \in Seq(S) /\ Len(Y) = Len(A) - n
        /\ \A k \in 1 .. Len(A) - n : Y[k] = A[n + k]
    BY <1>1, <1>2
  <1>5. A = X \o Y
    <2>1. X \o Y \in Seq(S) /\ Len(X \o Y) = Len(A)
      BY <1>1, <1>3, <1>4
    <2>2. ASSUME NEW i \in 1 .. Len(A) PROVE (X \o Y)[i] = A[i]
      <3>1. CASE i <= n
        BY <1>1, <1>3, <1>4, <3>1
      <3>2. CASE i > n
        <4>1. i - n \in 1 .. Len(A) - n /\ n + (i - n) = i
          BY <1>1, <3>2
        <4>2. (X \o Y)[i] = Y[i - n]
          BY <1>1, <1>3, <1>4, <3>2
        <4> QED BY <1>4, <4>1, <4>2
      <3>3. i <= n \/ i > n
        BY <1>1
      <3> QED BY <3>1, <3>2, <3>3
    <2> QED BY <1>1, <2>1, <2>2, SeqEqual
  <1>6. X \in Nested /\ Y \in Nested
    BY <1>3, <1>4 DEF Nested, S
  <1>7. Items(X \o Y) = Items(X) \cup Items(Y)
    BY <1>6, ItemsConcat
  <1>8. ASSUME NEW d, NEW e
        PROVE  Precedes(X \o Y, d, e) <=>
                 \/ Precedes(X, d, e) \/ Precedes(Y, d, e) \/ (d \in Items(X) /\ e \in Items(Y))
    BY <1>6, PrecedesConcat
  <1>9. Cut(A, X, Y)
    BY <1>5, <1>6, <1>7, <1>8 DEF Cut
  <1> QED BY <1>2, <1>3, <1>4, <1>9

(***************************************************************************)
(* Cardinalities                                                           *)
(***************************************************************************)
LEMMA SubsetsFinite ==
  ASSUME NEW S \in SUBSET Slots
  PROVE  IsFiniteSet(S) /\ Cardinality(S) \in Nat
  BY SlotsAssumption, FS_Subset, FS_CardinalityType

LEMMA OneMore ==
  ASSUME NEW S \in SUBSET Slots, NEW d \in Slots, d \notin S
  PROVE  Cardinality(S \cup {d}) = Cardinality(S) + 1
  BY SubsetsFinite, FS_AddElement

LEMMA OneLess ==
  ASSUME NEW S \in SUBSET Slots, NEW d \in S
  PROVE  Cardinality(S \ {d}) = Cardinality(S) - 1
  BY SubsetsFinite, FS_RemoveElement

(* d enters or leaves a set, or does not.                                  *)
LEMMA Counted ==
  ASSUME NEW S \in SUBSET Slots, NEW T \in SUBSET Slots, NEW d \in Slots,
         S \ {d} = T \ {d}
  PROVE  /\ d \in S /\ d \notin T => Cardinality(T) = Cardinality(S) - 1
         /\ d \notin S /\ d \in T => Cardinality(T) = Cardinality(S) + 1
         /\ (d \in S <=> d \in T) => T = S
         /\ Cardinality(S) \in Nat /\ Cardinality(T) \in Nat
  <1>1. CASE d \in S /\ d \notin T
    <2>1. T = S \ {d}
      BY <1>1
    <2> QED BY <1>1, <2>1, OneLess, SubsetsFinite
  <1>2. CASE d \notin S /\ d \in T
    <2>1. T = S \cup {d}
      BY <1>2
    <2> QED BY <1>2, <2>1, OneMore, SubsetsFinite
  <1>3. CASE d \in S <=> d \in T
    <2>1. T = S
      BY <1>3
    <2> QED BY <1>3, <2>1, SubsetsFinite
  <1> QED BY <1>1, <1>2, <1>3

(* As many places as a set of naturals has elements, in their order.       *)
rank(S, k) == Cardinality({j \in S : j <= k})
LEMMA Ranks ==
  ASSUME NEW S \in SUBSET Nat, IsFiniteSet(S)
  PROVE  /\ \A k \in S : rank(S, k) \in 1 .. Cardinality(S)
         /\ \A k, m \in S : k < m => rank(S, k) < rank(S, m)
         /\ \A i \in 1 .. Cardinality(S) : \E k \in S : rank(S, k) = i
  <1>1. ASSUME NEW k \in S
        PROVE  /\ rank(S, k) \in 1 .. Cardinality(S)
               /\ \A m \in S : k < m => rank(S, k) < rank(S, m)
    <2> DEFINE B(m) == {j \in S : j <= m}
    <2>1. \A m \in S : IsFiniteSet(B(m)) /\ Cardinality(B(m)) \in Nat /\ Cardinality(B(m)) <= Cardinality(S)
      BY FS_Subset, FS_CardinalityType
    <2>2. Cardinality(S) \in Nat
      BY FS_CardinalityType
    <2>3. B(k) # {}
      OBVIOUS
    <2>4. Cardinality(B(k)) # 0
      BY <2>1, <2>3, FS_EmptySet
    <2>5. ASSUME NEW m \in S, k < m
          PROVE  Cardinality(B(k)) < Cardinality(B(m))
      <3>1. B(k) \subseteq B(m) /\ m \in B(m) /\ m \notin B(k)
        <4>1. k \in Nat /\ m \in Nat /\ \A j \in S : j \in Nat
          OBVIOUS
        <4>2. ASSUME NEW j \in S, j <= k PROVE j <= m
          BY <2>5, <4>1, <4>2
        <4>3. ~(m <= k) /\ m <= m
          BY <2>5, <4>1
        <4> QED BY <4>2, <4>3
      <3>2. B(k) # B(m) /\ B(k) \in SUBSET B(m)
        BY <3>1
      <3> HIDE DEF B
      <3> QED BY <2>1, <3>2, FS_Subset
    <2> QED BY <2>1, <2>2, <2>4, <2>5 DEF rank
  <1>2. ASSUME NEW i \in 1 .. Cardinality(S)
        PROVE  \E k \in S : rank(S, k) = i
    <2> DEFINE n == Cardinality(S)
               f == [k \in S |-> rank(S, k)]
               T == {f[k] : k \in S}
    <2>1. n \in Nat
      BY FS_CardinalityType
    <2>2. f \in [S -> 1 .. n] /\ \A k, m \in S : k # m => f[k] # f[m]
      <3>1. ASSUME NEW k \in S, NEW m \in S, k # m
            PROVE  rank(S, k) # rank(S, m)
        <4>1. rank(S, k) \in Nat /\ rank(S, m) \in Nat
          BY <1>1, <2>1
        <4>2. CASE k < m
          BY <1>1, <4>1, <4>2
        <4>3. CASE m < k
          BY <1>1, <4>1, <4>3
        <4> QED BY <3>1, <4>2, <4>3
      <3> QED BY <1>1, <3>1
    <2>3. ExistsBijection(S, T)
      <3>1. f \in Injection(S, T)
        BY <2>2 DEF Injection, IsInjective
      <3>2. f \in Surjection(S, T)
        BY <2>2 DEF Surjection
      <3> QED BY <3>1, <3>2 DEF Bijection, ExistsBijection
    <2>4. IsFiniteSet(T) /\ Cardinality(T) = n
      BY <2>3, FS_Bijection
    <2>5. IsFiniteSet(1 .. n) /\ Cardinality(1 .. n) = n
      BY <2>1, FS_Interval
    <2>6. T \in SUBSET (1 .. n)
      BY <2>2
    <2>7. T = 1 .. n
      <3> HIDE DEF T, n
      <3> QED BY <2>1, <2>4, <2>5, <2>6, FS_Subset
    <2> QED BY <2>7
  <1> QED BY <1>1, <1>2

(***************************************************************************)
(* The pipeline                                                            *)
(***************************************************************************)
LEMMA LeastNatural ==
  ASSUME NEW S \in SUBSET Nat, S # {}
  PROVE  Min(S) \in S /\ \A y \in S : Min(S) <= y
  <1>1. PICK x \in S : \A y \in S : <<y, x>> \notin OpToRel(<, Nat)
    BY NatLessThanWellFounded, WFMin
  <1>2. ASSUME NEW y \in S, y < x PROVE <<y, x>> \in OpToRel(<, Nat)
    <2>1. <<y, x>> \in Nat \X Nat /\ <<y, x>>[1] = y /\ <<y, x>>[2] = x
      OBVIOUS
    <2> QED BY <1>2, <2>1 DEF OpToRel
  <1>3. \A y \in S : ~(y < x)
    BY <1>1, <1>2
  <1>4. \A y \in S : x <= y
    BY <1>3
  <1> QED BY <1>4 DEF Min

LEMMA GreatestNatural ==
  ASSUME NEW S \in SUBSET Nat, S # {}, NEW n \in Nat, \A y \in S : y <= n
  PROVE  Max(S) \in S /\ \A y \in S : Max(S) >= y
  <1> DEFINE T == {k \in Nat : n - k \in S}
  <1>1. \A y \in S : n - y \in T
    OBVIOUS
  <1>2. T \in SUBSET Nat /\ T # {}
    BY <1>1
  <1>3. Min(T) \in T /\ \A k \in T : Min(T) <= k
    BY <1>2, LeastNatural
  <1>4. n - Min(T) \in S /\ Min(T) \in Nat
    BY <1>3
  <1>5. \A y \in S : n - Min(T) >= y
    BY <1>1, <1>3, <1>4
  <1> QED BY <1>4, <1>5 DEF Max

(* The longest prefix of which every place is in P.                        *)
LEMMA Prefix ==
  ASSUME NEW n \in Nat, NEW P
  PROVE  LET m == Max({0} \cup {k \in 1 .. n : \A j \in 1 .. k : j \in P})
         IN  m \in 0 .. n /\ \A j \in 1 .. m : j \in P
  <1> DEFINE S == {0} \cup {k \in 1 .. n : \A j \in 1 .. k : j \in P}
  <1>1. S \in SUBSET Nat /\ S # {} /\ \A y \in S : y <= n
    OBVIOUS
  <1>2. Max(S) \in S
    <2> HIDE DEF S
    <2> QED BY <1>1, GreatestNatural
  <1> QED BY <1>2

(* A sequence of buckets without the empty ones.                           *)
filled(A) == {k \in DOMAIN A : A[k] # <<>>}
Compress(A) ==
  [i \in 1 .. Cardinality(filled(A)) |->
     A[CHOOSE k \in filled(A) : rank(filled(A), k) = i]]
LEMMA Compressed ==
  ASSUME NEW A \in Nested, NEW X, X = Compress(A)
  PROVE  /\ X \in Nested /\ Len(X) = Cardinality(filled(A)) /\ Len(X) \in Nat
         /\ \A i \in DOMAIN X : \E k \in filled(A) : X[i] = A[k]
         /\ Items(X) = Items(A)
         /\ \A d, e : Precedes(X, d, e) <=> Precedes(A, d, e)
  <1> DEFINE F == filled(A)
             c == Cardinality(F)
             nth(i) == CHOOSE k \in F : rank(F, k) = i
  <1> HIDE DEF Nested
  <1>1. A \in Seq(Seq(Nat)) /\ DOMAIN A = 1 .. Len(A) /\ Len(A) \in Nat
    BY DEF Nested
  <1>2. F \in SUBSET Nat /\ F \subseteq 1 .. Len(A)
    BY <1>1 DEF filled
  <1>3. IsFiniteSet(F) /\ c \in Nat
    <2>1. IsFiniteSet(1 .. Len(A))
      BY <1>1, FS_Interval
    <2> QED BY <1>2, <2>1, FS_Subset, FS_CardinalityType
  <1>4. /\ \A k \in F : rank(F, k) \in 1 .. c
        /\ \A k, m \in F : k < m => rank(F, k) < rank(F, m)
        /\ \A i \in 1 .. c : \E k \in F : rank(F, k) = i
    BY <1>2, <1>3, Ranks
  <1>5. ASSUME NEW i \in 1 .. c PROVE nth(i) \in F /\ rank(F, nth(i)) = i
    BY <1>4
  <1>6. ASSUME NEW k \in F PROVE nth(rank(F, k)) = k
    <2>1. PICK i : i = rank(F, k)
      OBVIOUS
    <2>2. i \in 1 .. c
      BY <1>4, <2>1
    <2>3. nth(i) \in F /\ rank(F, nth(i)) = i
      BY <1>5, <2>2
    <2>4. PICK m : m = nth(i)
      OBVIOUS
    <2>5. m \in Nat /\ k \in Nat /\ m \in F /\ rank(F, m) = rank(F, k)
      BY <1>2, <2>1, <2>3, <2>4
    <2>6. ~(m < k) /\ ~(k < m)
      BY <1>4, <2>2, <2>1, <2>5
    <2>7. m = k
      BY <2>5, <2>6
    <2> QED BY <2>1, <2>4, <2>7
  <1>7. ASSUME NEW i \in 1 .. c, NEW j \in 1 .. c
        PROVE  (i < j <=> nth(i) < nth(j)) /\ (i = j <=> nth(i) = nth(j))
    <2>1. PICK m, n : m = nth(i) /\ n = nth(j)
      OBVIOUS
    <2>2. m \in F /\ n \in F /\ rank(F, m) = i /\ rank(F, n) = j /\ m \in Nat /\ n \in Nat
      BY <1>2, <1>5, <2>1
    <2>3. (m < n => i < j) /\ (n < m => j < i) /\ (m = n => i = j)
      BY <1>4, <2>2
    <2>4. (i < j <=> m < n) /\ (i = j <=> m = n)
      BY <2>2, <2>3
    <2> QED BY <2>1, <2>4
  <1>8. DOMAIN X = 1 .. c /\ \A i \in 1 .. c : X[i] = A[nth(i)]
    BY DEF Compress
  <1>9. X \in Nested /\ Len(X) = c
    <2>1. \A k \in F : A[k] \in Seq(Nat)
      BY <1>1, <1>2
    <2> DEFINE S == Seq(Nat)
    <2> HIDE DEF S
    <2>2. \A i \in 1 .. c : X[i] \in S
      BY <1>5, <1>8, <2>1 DEF S
    <2>3. X = [i \in 1 .. c |-> X[i]]
      BY DEF Compress
    <2>4. X \in [1 .. c -> S]
      BY <2>2, <2>3
    <2>5. X \in Seq(S) /\ Len(X) = c
      <3> HIDE DEF F, c, nth
      <3> QED BY <1>3, <2>4
    <2> QED BY <2>5 DEF Nested, S
  <1>10. ASSUME NEW i \in DOMAIN A, NEW k \in DOMAIN A[i] PROVE i \in F
    BY <1>1 DEF filled
  <1> HIDE DEF nth, F, c
  <1>11. Items(X) = Items(A)
    <2>1. ASSUME NEW d \in Items(X) PROVE d \in Items(A)
      <3>1. PICK i \in DOMAIN X : \E k \in DOMAIN X[i] : X[i][k] = d
        BY ItemsIn
      <3>2. nth(i) \in DOMAIN A /\ X[i] = A[nth(i)]
        BY <1>1, <1>2, <1>5, <1>8
      <3> QED BY <3>1, <3>2, ItemsIn
    <2>2. ASSUME NEW d \in Items(A) PROVE d \in Items(X)
      <3>1. PICK i \in DOMAIN A : \E k \in DOMAIN A[i] : A[i][k] = d
        BY ItemsIn
      <3>2. i \in F
        BY <1>10, <3>1
      <3>3. rank(F, i) \in DOMAIN X /\ X[rank(F, i)] = A[i]
        BY <1>4, <1>6, <1>8, <3>2
      <3> QED BY <3>1, <3>3, ItemsIn
    <2> QED BY <2>1, <2>2
  <1>12. ASSUME NEW d, NEW e PROVE Precedes(X, d, e) <=> Precedes(A, d, e)
    <2>1. ASSUME Precedes(X, d, e) PROVE Precedes(A, d, e)
      <3>1. PICK i \in DOMAIN X, j \in DOMAIN X :
              \E k \in DOMAIN X[i], l \in DOMAIN X[j] :
                X[i][k] = d /\ X[j][l] = e /\ (i < j \/ (i = j /\ k < l))
        BY <2>1 DEF Precedes
      <3>2. /\ nth(i) \in DOMAIN A /\ nth(j) \in DOMAIN A
            /\ X[i] = A[nth(i)] /\ X[j] = A[nth(j)]
        BY <1>1, <1>2, <1>5, <1>8
      <3>3. (i < j <=> nth(i) < nth(j)) /\ (i = j <=> nth(i) = nth(j))
        BY <1>7, <1>8
      <3> QED BY <3>1, <3>2, <3>3 DEF Precedes
    <2>2. ASSUME Precedes(A, d, e) PROVE Precedes(X, d, e)
      <3>1. PICK i \in DOMAIN A, j \in DOMAIN A :
              \E k \in DOMAIN A[i], l \in DOMAIN A[j] :
                A[i][k] = d /\ A[j][l] = e /\ (i < j \/ (i = j /\ k < l))
        BY <2>2 DEF Precedes
      <3>2. i \in F /\ j \in F
        BY <1>10, <3>1
      <3>3. PICK m, n : m = rank(F, i) /\ n = rank(F, j)
        OBVIOUS
      <3>4. m \in 1 .. c /\ n \in 1 .. c /\ nth(m) = i /\ nth(n) = j
        BY <1>4, <1>6, <3>2, <3>3
      <3>5. m \in DOMAIN X /\ n \in DOMAIN X /\ X[m] = A[i] /\ X[n] = A[j]
        BY <1>8, <3>4
      <3>6. (m < n <=> i < j) /\ (m = n <=> i = j)
        BY <1>7, <3>4
      <3> QED BY <3>1, <3>5, <3>6 DEF Precedes
    <2> QED BY <2>1, <2>2
  <1>13. \A i \in DOMAIN X : \E k \in F : X[i] = A[k]
    BY <1>5, <1>8
  <1> QED BY <1>3, <1>9, <1>11, <1>12, <1>13 DEF F, c

(* The buckets in order, as a sequence of records and of instructions.     *)
LEMMA BucketsNested ==
  /\ \A b \in Bucket : b \in Seq(Nat)
  /\ \A b \in Seq(Slots) : b \in Bucket /\ b \in Seq(Nat)
  /\ \A A \in Seq(Bucket) : A \in Nested
  /\ \A A \in Seq(Seq(Slots)) : A \in Nested
  /\ 0 \notin Slots
  <1>1. ASSUME NEW b \in Seq(Slots) PROVE b \in Bucket /\ b \in Seq(Nat)
    <2>1. \A i \in 1 .. Len(b) : b[i] \in Nat
      <3>1. \A i \in 1 .. Len(b) : b[i] \in Slots
        OBVIOUS
      <3>2. \A x \in Slots : x \in Nat
        BY SlotsAssumption
      <3> QED BY <3>1, <3>2
    <2>2. b \in [1 .. Len(b) -> Nat] /\ Len(b) \in Nat
      BY <2>1
    <2> QED BY <2>2 DEF Bucket
  <1>2. <<0>> \in Seq(Nat)
    OBVIOUS
  <1>3. ASSUME NEW b \in Bucket PROVE b \in Seq(Nat)
    BY <1>1, <1>2 DEF Bucket, cleanItem
  <1>4. ASSUME NEW A \in Seq(Bucket) PROVE A \in Nested
    <2> DEFINE S == Seq(Nat)
    <2>1. \A i \in 1 .. Len(A) : A[i] \in S
      BY <1>3
    <2> HIDE DEF S
    <2>2. A \in [1 .. Len(A) -> S] /\ Len(A) \in Nat
      BY <2>1
    <2> QED BY <2>2 DEF Nested, S
  <1>5. ASSUME NEW A \in Seq(Seq(Slots)) PROVE A \in Nested
    <2> DEFINE S == Seq(Nat)
               T == Seq(Slots)
    <2>1. \A b \in T : b \in S
      BY <1>1
    <2> HIDE DEF S, T
    <2>2. A \in Seq(T)
      BY DEF T
    <2>3. A \in Seq(S)
      BY <2>1, <2>2
    <2> QED BY <2>3 DEF Nested, S
  <1>6. 0 \notin Slots
    BY SlotsAssumption
  <1> QED BY <1>1, <1>3, <1>4, <1>5, <1>6

LEMMA InstsOf ==
  ASSUME NEW order \in Seq(Entry)
  PROVE  /\ Insts(order) \in Nested /\ Insts(order) \in Seq(Bucket)
         /\ DOMAIN Insts(order) = DOMAIN order /\ Len(Insts(order)) = Len(order)
         /\ DOMAIN order = 1 .. Len(order) /\ Len(order) \in Nat
         /\ \A k \in DOMAIN order : Insts(order)[k] = order[k].insts
  <1>1. /\ DOMAIN order = 1 .. Len(order) /\ Len(order) \in Nat
        /\ \A k \in DOMAIN order : order[k].insts \in Bucket
    <2>1. DOMAIN order = 1 .. Len(order) /\ Len(order) \in Nat
      OBVIOUS
    <2>2. \A k \in DOMAIN order : order[k] \in Entry
      BY <2>1
    <2> QED BY <2>1, <2>2 DEF Entry
  <1>2. Insts(order) \in [1 .. Len(order) -> Bucket]
    BY <1>1 DEF Insts
  <1>3. Insts(order) \in Seq(Bucket) /\ Len(Insts(order)) = Len(order)
    BY <1>1, <1>2
  <1>4. \A k \in DOMAIN order : Insts(order)[k] = order[k].insts
    BY DEF Insts
  <1>5. Insts(order) \in Nested
    BY <1>3, BucketsNested
  <1> QED BY <1>1, <1>2, <1>3, <1>4, <1>5

(* What the pipeline holds, in which order, and what it has of the pools.  *)
PipeItems(pl) == Items(pl.buffer) \cup Items(Insts(pl.order))
PipeBefore(pl, d, e) ==
  \/ Precedes(pl.buffer, d, e)
  \/ (d \in Items(pl.buffer) /\ e \in Items(Insts(pl.order)))
  \/ Precedes(Insts(pl.order), d, e)
poolOf(pl) == pl.bucketPool + Len(pl.buffer) + Len(pl.order) - pl.nCleanMarks
requestsOf(pl) == pl.nIRequests + Cardinality(unready(pl.order))
cleanOf(pl) == pl.cleanBucketPool + pl.nCleanMarks
PoolsKept(pl, r) ==
  /\ r \in PipelineRec /\ poolOf(r) = poolOf(pl)
  /\ requestsOf(r) = requestsOf(pl) /\ cleanOf(r) = cleanOf(pl)

LEMMA PipelineTypes ==
  ASSUME NEW pl \in PipelineRec
  PROVE  /\ pl.order \in Seq(Entry) /\ pl.buffer \in Seq(Bucket \ {<<>>})
         /\ pl.buffer \in Nested /\ Insts(pl.order) \in Nested
         /\ pl.bucketPool \in Int /\ pl.cleanBucketPool \in Int
         /\ pl.nIRequests \in Int /\ pl.nCleanMarks \in Int
         /\ Len(pl.order) \in Nat /\ Len(pl.buffer) \in Nat
         /\ pl = [order |-> pl.order, buffer |-> pl.buffer, bucketPool |-> pl.bucketPool,
                  cleanBucketPool |-> pl.cleanBucketPool, nIRequests |-> pl.nIRequests,
                  nCleanMarks |-> pl.nCleanMarks]
  <1>1. /\ pl.order \in Seq(Entry) /\ pl.buffer \in Seq(Bucket \ {<<>>})
        /\ pl.bucketPool \in Int /\ pl.cleanBucketPool \in Int
        /\ pl.nIRequests \in Int /\ pl.nCleanMarks \in Int
        /\ pl = [order |-> pl.order, buffer |-> pl.buffer, bucketPool |-> pl.bucketPool,
                  cleanBucketPool |-> pl.cleanBucketPool, nIRequests |-> pl.nIRequests,
                  nCleanMarks |-> pl.nCleanMarks]
    BY DEF PipelineRec, Orders, Buffers
  <1>2. pl.buffer \in Seq(Bucket)
    BY <1>1
  <1>3. Len(pl.order) \in Nat /\ Len(pl.buffer) \in Nat
    BY <1>1
  <1> QED BY <1>1, <1>2, <1>3, BucketsNested, InstsOf

LEMMA UnreadyFinite ==
  ASSUME NEW order \in Seq(Entry)
  PROVE  IsFiniteSet(unready(order)) /\ Cardinality(unready(order)) \in Nat
  <1>1. Len(order) \in Nat /\ unready(order) \in SUBSET (1 .. Len(order))
    BY DEF unready
  <1>2. IsFiniteSet(1 .. Len(order))
    BY <1>1, FS_Interval
  <1> QED BY <1>1, <1>2, FS_Subset, FS_CardinalityType

Put(order, b) == Append(order, [ready |-> FALSE, insts |-> b])
LEMMA NewItem ==
  ASSUME NEW pl \in PipelineRec, NEW b \in Bucket, NEW order, order = Put(pl.order, b)
  PROVE  /\ order \in Seq(Entry) /\ Len(order) = Len(pl.order) + 1
         /\ Cardinality(unready(order)) = Cardinality(unready(pl.order)) + 1
         /\ order[Len(order)] = [ready |-> FALSE, insts |-> b]
         /\ Items(Insts(order)) = Items(Insts(pl.order)) \cup Range(b)
         /\ \A d, e : Precedes(Insts(order), d, e) <=>
              \/ Precedes(Insts(pl.order), d, e) \/ Follows(b, d, e)
              \/ (d \in Items(Insts(pl.order)) /\ e \in Range(b))
  <1> DEFINE x == [ready |-> FALSE, insts |-> b]
             n == Len(pl.order)
  <1>1. pl.order \in Seq(Entry) /\ n \in Nat /\ DOMAIN pl.order = 1 .. n
    BY PipelineTypes
  <1>2. x \in Entry
    BY DEF Entry
  <1>3. /\ order \in Seq(Entry) /\ Len(order) = n + 1 /\ DOMAIN order = 1 .. n + 1
        /\ order[n + 1] = x /\ \A k \in 1 .. n : order[k] = pl.order[k]
    BY <1>1, <1>2 DEF Put
  <1>4. unready(order) = unready(pl.order) \cup {n + 1} /\ n + 1 \notin unready(pl.order)
    BY <1>1, <1>3 DEF unready
  <1>5. Cardinality(unready(order)) = Cardinality(unready(pl.order)) + 1
    BY <1>1, <1>4, UnreadyFinite, FS_AddElement
  <1>6. Insts(order) = Append(Insts(pl.order), b)
    <2>1. PICK A, B : A = Insts(pl.order) /\ B = Insts(order)
      OBVIOUS
    <2>2. /\ A \in Seq(Bucket) /\ Len(A) = n /\ \A k \in 1 .. n : A[k] = pl.order[k].insts
          /\ B \in Seq(Bucket) /\ Len(B) = n + 1
          /\ \A k \in 1 .. n + 1 : B[k] = order[k].insts
      BY <1>1, <1>3, <2>1, InstsOf
    <2>3. \A k \in 1 .. n + 1 : B[k] = Append(A, b)[k]
      BY <1>1, <1>3, <2>2
    <2>4. Append(A, b) \in Seq(Bucket) /\ Len(Append(A, b)) = n + 1
      BY <2>2
    <2>5. B = Append(A, b)
      BY <2>2, <2>3, <2>4, SeqEqual
    <2> QED BY <2>1, <2>5
  <1>7. Insts(pl.order) \in Nested /\ b \in Seq(Nat)
    BY <1>1, InstsOf, BucketsNested
  <1>8. PICK A : A = Insts(pl.order)
    OBVIOUS
  <1>9. /\ Items(Append(A, b)) = Items(A) \cup Range(b)
        /\ \A d, e : Precedes(Append(A, b), d, e) <=>
             \/ Precedes(A, d, e) \/ Follows(b, d, e) \/ (d \in Items(A) /\ e \in Range(b))
    BY <1>7, <1>8, AppendBucket
  <1> QED BY <1>3, <1>5, <1>6, <1>8, <1>9

LEMMA NthRanked ==
  ASSUME NEW S \in SUBSET Nat, IsFiniteSet(S), NEW i \in 1 .. Cardinality(S)
  PROVE  (CHOOSE k \in S : rank(S, k) = i) \in S
  BY Ranks

(* The instruction cache delivers a bucket: whatever goes on, nothing is   *)
(* lost and the order stays.                                               *)
LEMMA ClearedItems ==
  ASSUME NEW pl \in PipelineRec
  PROVE  LET r == clearItems(pl)
         IN  /\ PoolsKept(pl, r) /\ r.nCleanMarks = pl.nCleanMarks
             /\ PipeItems(r) = PipeItems(pl)
             /\ \A d, e : PipeBefore(r, d, e) <=> PipeBefore(pl, d, e)
  <1> DEFINE L == Len(pl.order)
             P == {j \in 1 .. L : pl.order[j].ready}
             n == Max({0} \cup {k \in 1 .. L : \A j \in 1 .. k : j \in P})
             A == Insts(pl.order)
             X == SubSeq(A, 1, n)
             Y == SubSeq(A, n + 1, L)
             Z == Compress(X)
             c == Cardinality(filled(X))
             rest == SubSeq(pl.order, n + 1, L)
  <1>1. /\ pl.order \in Seq(Entry) /\ pl.buffer \in Seq(Bucket \ {<<>>})
        /\ pl.buffer \in Nested /\ A \in Nested /\ L \in Nat
        /\ pl.bucketPool \in Int /\ pl.nIRequests \in Int /\ pl.nCleanMarks \in Int
    BY PipelineTypes
  <1>2. A \in Seq(Bucket) /\ Len(A) = L /\ \A k \in 1 .. L : A[k] = pl.order[k].insts
    BY <1>1, InstsOf
  <1>3. n \in 0 .. L /\ \A j \in 1 .. n : j \in P
    <2> HIDE DEF P
    <2> QED BY <1>1, Prefix
  <1> HIDE DEF n, A
  <1>4. /\ Cut(A, X, Y) /\ Len(X) = n /\ Len(Y) = L - n
        /\ \A k \in 1 .. n : X[k] = A[k]
        /\ \A k \in 1 .. L - n : Y[k] = A[n + k]
    <2> HIDE DEF L
    <2>1. n \in 0 .. Len(A) /\ A \in Nested
      BY <1>1, <1>2, <1>3 DEF A
    <2> QED BY <1>2, <2>1, CutBuckets DEF A
  <1>5. /\ clearItems(pl).order = rest
        /\ clearItems(pl).buffer = pl.buffer \o Z
        /\ clearItems(pl).bucketPool = pl.bucketPool + (n - c)
        /\ clearItems(pl).cleanBucketPool = pl.cleanBucketPool
        /\ clearItems(pl).nIRequests = pl.nIRequests
        /\ clearItems(pl).nCleanMarks = pl.nCleanMarks
        /\ clearItems(pl) =
             [order |-> rest, buffer |-> pl.buffer \o Z, bucketPool |-> pl.bucketPool + (n - c),
              cleanBucketPool |-> pl.cleanBucketPool, nIRequests |-> pl.nIRequests,
              nCleanMarks |-> pl.nCleanMarks]
    <2> DEFINE full == {k \in 1 .. n : pl.order[k].insts # <<>>}
               nth(i) == CHOOSE k \in full : Cardinality({j \in full : j <= k}) = i
    <2>1. n = Max({0} \cup {k \in 1 .. L : \A j \in 1 .. k : pl.order[j].ready})
      <3>1. \A k \in 1 .. L : (\A j \in 1 .. k : j \in P) <=> \A j \in 1 .. k : pl.order[j].ready
        BY <1>1
      <3>2. {k \in 1 .. L : \A j \in 1 .. k : j \in P} = {k \in 1 .. L : \A j \in 1 .. k : pl.order[j].ready}
        BY <3>1
      <3> QED BY <3>2 DEF n
    <2>2. full = filled(X)
      <3>1. DOMAIN X = 1 .. n /\ \A k \in 1 .. n : X[k] = pl.order[k].insts
        BY <1>2, <1>3, <1>4
      <3> HIDE DEF n, X
      <3> QED BY <3>1 DEF filled
    <2>3. clearItems(pl) =
            [pl EXCEPT !.order = SubSeq(pl.order, n + 1, L),
                       !.buffer = pl.buffer \o
                          [i \in 1 .. Cardinality(full) |-> pl.order[nth(i)].insts],
                       !.bucketPool = pl.bucketPool + (n - Cardinality(full))]
      BY <2>1 DEF clearItems
    <2>4. \A i \in 1 .. c : nth(i) = CHOOSE k \in filled(X) : rank(filled(X), k) = i
      BY <2>2 DEF rank
    <2>5. [i \in 1 .. Cardinality(full) |-> pl.order[nth(i)].insts] = Z
      <3>1. filled(X) \in SUBSET Nat /\ IsFiniteSet(filled(X)) /\ filled(X) \subseteq 1 .. n
        <4>1. filled(X) \subseteq 1 .. n /\ IsFiniteSet(1 .. n) /\ n \in Nat
          BY <1>3, <2>2, FS_Interval
        <4> QED BY <4>1, FS_Subset
      <3>2. ASSUME NEW i \in 1 .. c PROVE nth(i) \in 1 .. n
        <4>1. (CHOOSE k \in filled(X) : rank(filled(X), k) = i) \in filled(X)
          BY <3>1, NthRanked
        <4> QED BY <2>4, <3>1, <4>1
      <3>3. \A k \in 1 .. n : X[k] = pl.order[k].insts
        BY <1>2, <1>3, <1>4
      <3>4. ASSUME NEW i \in 1 .. c
            PROVE  pl.order[nth(i)].insts = X[CHOOSE k \in filled(X) : rank(filled(X), k) = i]
        BY <2>4, <3>2, <3>3
      <3>5. c = Cardinality(full)
        BY <2>2
      <3> HIDE DEF full, nth, c, X
      <3>6. [i \in 1 .. c |-> pl.order[nth(i)].insts] =
            [i \in 1 .. c |-> X[CHOOSE k \in filled(X) : rank(filled(X), k) = i]]
        BY <3>4
      <3> QED BY <3>5, <3>6 DEF Compress, c
    <2>6. PICK O, B, N : /\ O = rest /\ B = pl.buffer \o Z
                         /\ N = pl.bucketPool + (n - c)
      OBVIOUS
    <2>7. clearItems(pl) = [pl EXCEPT !.order = O, !.buffer = B, !.bucketPool = N]
      BY <2>2, <2>3, <2>5, <2>6
    <2>8. clearItems(pl) =
            [order |-> O, buffer |-> B, bucketPool |-> N, cleanBucketPool |-> pl.cleanBucketPool,
             nIRequests |-> pl.nIRequests, nCleanMarks |-> pl.nCleanMarks]
      BY <2>7, PipelineTypes
    <2> HIDE DEF rest, Z, c
    <2> QED BY <2>6, <2>8
  <1>6. /\ Z \in Nested /\ Len(Z) = c /\ c \in Nat
        /\ \A i \in DOMAIN Z : \E k \in filled(X) : Z[i] = X[k]
        /\ Items(Z) = Items(X)
        /\ \A d, e : Precedes(Z, d, e) <=> Precedes(X, d, e)
    <2>1. X \in Nested
      BY <1>4 DEF Cut
    <2>2. PICK z : z = Compress(X)
      OBVIOUS
    <2> HIDE DEF X
    <2>3. /\ z \in Nested /\ Len(z) = c /\ Len(z) \in Nat
          /\ \A i \in DOMAIN z : \E k \in filled(X) : z[i] = X[k]
          /\ Items(z) = Items(X)
          /\ \A d, e : Precedes(z, d, e) <=> Precedes(X, d, e)
      BY <2>1, <2>2, Compressed
    <2> QED BY <2>2, <2>3
  <1>7. Z \in Seq(Bucket \ {<<>>})
    <2>1. \A k \in filled(X) : X[k] \in Bucket \ {<<>>}
      <3>1. \A k \in filled(X) : k \in 1 .. n /\ X[k] # <<>>
        BY <1>4 DEF filled, Cut, Nested
      <3>2. \A k \in 1 .. n : k \in 1 .. L /\ X[k] = A[k]
        BY <1>1, <1>3, <1>4
      <3>3. \A k \in 1 .. L : A[k] \in Bucket
        BY <1>2
      <3> QED BY <3>1, <3>2, <3>3
    <2>2. DOMAIN Z = 1 .. c
      BY <1>6 DEF Nested
    <2> HIDE DEF X, Z, c
    <2>3. \A i \in 1 .. c : Z[i] \in Bucket \ {<<>>}
      BY <1>6, <2>1, <2>2
    <2>4. Z \in [1 .. c -> Bucket \ {<<>>}]
      <3>1. Z \in Seq(Seq(Nat)) /\ Len(Z) = c
        BY <1>6 DEF Nested
      <3> QED BY <2>2, <2>3, <3>1
    <2> QED BY <1>6, <2>4
  <1>8. Insts(rest) = Y
    <2>1. /\ rest \in Seq(Entry) /\ Len(rest) = L - n
          /\ \A k \in 1 .. L - n : rest[k] = pl.order[n + k] /\ n + k \in 1 .. L
      BY <1>1, <1>3
    <2> HIDE DEF rest, Y, A
    <2>2. /\ Insts(rest) \in Nested /\ Len(Insts(rest)) = L - n
          /\ \A k \in 1 .. L - n : Insts(rest)[k] = pl.order[n + k].insts
      BY <2>1, InstsOf
    <2>3. \A k \in 1 .. L - n : Y[k] = pl.order[n + k].insts
      BY <1>2, <1>4, <2>1
    <2>4. Y \in Nested
      BY <1>4 DEF Cut
    <2> QED BY <1>4, <2>2, <2>3, <2>4, SeqEqual DEF Nested
  <1>9. Cardinality(unready(rest)) = Cardinality(unready(pl.order))
    <2>1. /\ rest \in Seq(Entry) /\ Len(rest) = L - n
          /\ \A k \in 1 .. L - n : rest[k] = pl.order[n + k]
      BY <1>1, <1>3
    <2>2. unready(rest) = {k \in 1 .. L - n : ~pl.order[n + k].ready}
      <3>1. DOMAIN rest = 1 .. L - n
        BY <1>1, <1>3, <2>1
      <3> HIDE DEF rest
      <3> QED BY <2>1, <3>1 DEF unready
    <2>3. \A k \in unready(pl.order) : k \in 1 .. L /\ ~pl.order[k].ready /\ k - n \in 1 .. L - n
      <3>1. ASSUME NEW k \in unready(pl.order) PROVE k \in 1 .. L /\ ~pl.order[k].ready
        BY <1>1 DEF unready
      <3>2. ASSUME NEW k \in unready(pl.order), k <= n PROVE FALSE
        BY <1>3, <3>1, <3>2
      <3> HIDE DEF n
      <3> QED BY <1>1, <1>3, <3>1, <3>2
    <2> DEFINE U == unready(rest)
               V == unready(pl.order)
               f == [k \in U |-> n + k]
    <2>4. \A k \in U : k \in Nat /\ n + k \in V
      <3>1. DOMAIN pl.order = 1 .. L
        BY <1>1
      <3> HIDE DEF n, L
      <3> QED BY <1>1, <1>3, <2>2, <3>1 DEF unready
    <2>5. \A k \in V : k - n \in U /\ n + (k - n) = k
      <3> HIDE DEF n, L
      <3>1. ASSUME NEW k \in V PROVE n + (k - n) = k /\ k - n \in 1 .. L - n
        BY <1>1, <1>3, <2>3
      <3> QED BY <2>2, <2>3, <3>1
    <2> HIDE DEF U, V, n
    <2>6. f \in Injection(U, V)
      <3>1. n \in Nat
        BY <1>1, <1>3
      <3> QED BY <2>4, <3>1 DEF Injection, IsInjective
    <2>7. f \in Surjection(U, V)
      <3>1. \A k \in V : \E m \in U : f[m] = k
        BY <2>5
      <3> QED BY <2>4, <3>1 DEF Surjection
    <2>8. ExistsBijection(U, V)
      BY <2>6, <2>7 DEF ExistsBijection, Bijection
    <2>9. IsFiniteSet(U)
      BY <2>1, UnreadyFinite DEF U
    <2> QED BY <2>8, <2>9, FS_Bijection DEF U, V
  <1>10. clearItems(pl) \in PipelineRec
    <2>1. rest \in Seq(Entry)
      BY <1>1, <1>3
    <2>2. pl.buffer \o Z \in Seq(Bucket \ {<<>>})
      BY <1>1, <1>7
    <2>3. pl.bucketPool + (n - c) \in Int
      <3> HIDE DEF n, c
      <3> QED BY <1>1, <1>3, <1>6
    <2> HIDE DEF rest, Z, n, c
    <2> QED BY <1>1, <1>5, <2>1, <2>2, <2>3, PipelineTypes DEF PipelineRec, Orders, Buffers
  <1> HIDE DEF n, c, rest, X, Y, Z, A, L
  <1>11. Items(pl.buffer \o Z) = Items(pl.buffer) \cup Items(Z)
    BY <1>1, <1>6, ItemsConcat
  <1>12. ASSUME NEW d, NEW e
         PROVE  Precedes(pl.buffer \o Z, d, e) <=>
                  \/ Precedes(pl.buffer, d, e) \/ Precedes(Z, d, e)
                  \/ (d \in Items(pl.buffer) /\ e \in Items(Z))
    BY <1>1, <1>6, PrecedesConcat
  <1>13. PipeItems(clearItems(pl)) = PipeItems(pl)
    BY <1>4, <1>5, <1>6, <1>8, <1>11 DEF PipeItems, Cut, A
  <1>14. ASSUME NEW d, NEW e
         PROVE  PipeBefore(clearItems(pl), d, e) <=> PipeBefore(pl, d, e)
    <2>1. PICK B, O : B = clearItems(pl).buffer /\ O = clearItems(pl).order
      OBVIOUS
    <2>2. /\ Items(B) = Items(pl.buffer) \cup Items(X)
          /\ Precedes(B, d, e) <=>
                  \/ Precedes(pl.buffer, d, e) \/ Precedes(X, d, e)
                  \/ (d \in Items(pl.buffer) /\ e \in Items(X))
      BY <1>5, <1>6, <1>11, <1>12, <2>1
    <2>3. /\ Insts(O) = Y /\ Items(A) = Items(X) \cup Items(Y)
          /\ Precedes(A, d, e) <=>
                Precedes(X, d, e) \/ Precedes(Y, d, e) \/ (d \in Items(X) /\ e \in Items(Y))
      BY <1>4, <1>5, <1>8, <2>1 DEF Cut
    <2>4. PipeBefore(clearItems(pl), d, e) <=>
            Precedes(B, d, e) \/ (d \in Items(B) /\ e \in Items(Y)) \/ Precedes(Y, d, e)
      BY <2>1, <2>3 DEF PipeBefore
    <2>5. PipeBefore(pl, d, e) <=>
            \/ Precedes(pl.buffer, d, e) \/ (d \in Items(pl.buffer) /\ e \in Items(A))
            \/ Precedes(A, d, e)
      BY DEF PipeBefore, A
    <2> QED BY <2>2, <2>3, <2>4, <2>5
  <1>15. poolOf(clearItems(pl)) = poolOf(pl)
    <2>1. Len(rest) = L - n
      BY <1>1, <1>3 DEF rest, L
    <2>2. Len(pl.buffer \o Z) = Len(pl.buffer) + c
      <3> DEFINE S == Bucket \ {<<>>}
      <3> HIDE DEF S
      <3>1. pl.buffer \in Seq(S) /\ Z \in Seq(S)
        BY <1>1, <1>7 DEF S
      <3>2. Len(pl.buffer \o Z) = Len(pl.buffer) + Len(Z)
        BY <3>1
      <3> QED BY <1>6, <3>2
    <2>3. Len(pl.buffer) \in Nat /\ n \in Nat
      BY <1>1, <1>3
    <2>4. PICK r : r = clearItems(pl)
      OBVIOUS
    <2>5. /\ Len(r.order) = L - n /\ Len(r.buffer) = Len(pl.buffer) + c
          /\ r.bucketPool = pl.bucketPool + (n - c) /\ r.nCleanMarks = pl.nCleanMarks
      BY <1>5, <2>1, <2>2, <2>4
    <2>6. poolOf(r) = poolOf(pl)
      BY <1>1, <1>6, <2>3, <2>5, SMTT(30) DEF poolOf, L
    <2> QED BY <2>4, <2>6
  <1> QED BY <1>5, <1>9, <1>10, <1>13, <1>14, <1>15 DEF PoolsKept, requestsOf, cleanOf

LEMMA ReadyItem ==
  ASSUME NEW pl \in PipelineRec, NEW k \in DOMAIN pl.order, ~pl.order[k].ready
  PROVE  LET r == readyItem(pl, k)
         IN  /\ PoolsKept(pl, r) /\ r.nCleanMarks = pl.nCleanMarks
             /\ PipeItems(r) = PipeItems(pl)
             /\ \A d, e : PipeBefore(r, d, e) <=> PipeBefore(pl, d, e)
  <1>1. pl.order \in Seq(Entry) /\ pl.nIRequests \in Int
    BY PipelineTypes
  <1>2. PICK O : O = [pl.order EXCEPT ![k].ready = TRUE]
    OBVIOUS
  <1>3. PICK m : m = [pl EXCEPT !.nIRequests = pl.nIRequests + 1, !.order = O]
    OBVIOUS
  <1>4. readyItem(pl, k) = clearItems(m)
    BY <1>2, <1>3 DEF readyItem
  <1>5. /\ O \in Seq(Entry) /\ Len(O) = Len(pl.order) /\ DOMAIN O = DOMAIN pl.order
        /\ \A j \in DOMAIN O : O[j].insts = pl.order[j].insts
        /\ \A j \in DOMAIN O : O[j].ready <=> j = k \/ pl.order[j].ready
    <2>1. /\ DOMAIN pl.order = 1 .. Len(pl.order) /\ Len(pl.order) \in Nat
          /\ \A j \in 1 .. Len(pl.order) : pl.order[j] \in Entry
      BY <1>1
    <2>2. O = [j \in 1 .. Len(pl.order) |->
                 IF j = k THEN [pl.order[k] EXCEPT !.ready = TRUE] ELSE pl.order[j]]
      BY <1>1, <1>2, <2>1
    <2>3. [pl.order[k] EXCEPT !.ready = TRUE] \in Entry
      BY <2>1 DEF Entry
    <2>4. O \in [1 .. Len(pl.order) -> Entry]
      BY <2>1, <2>2, <2>3
    <2>5. O \in Seq(Entry) /\ Len(O) = Len(pl.order)
      BY <2>1, <2>4
    <2>6. /\ [pl.order[k] EXCEPT !.ready = TRUE].insts = pl.order[k].insts
          /\ [pl.order[k] EXCEPT !.ready = TRUE].ready
      BY <2>1 DEF Entry
    <2> QED BY <2>1, <2>2, <2>5, <2>6
  <1>6. Insts(O) = Insts(pl.order)
    BY <1>5 DEF Insts
  <1>7. Cardinality(unready(O)) = Cardinality(unready(pl.order)) - 1
    <2>1. unready(O) = unready(pl.order) \ {k} /\ k \in unready(pl.order)
      BY <1>5 DEF unready
    <2> QED BY <1>1, <2>1, UnreadyFinite, FS_RemoveElement
  <1>8. /\ m \in PipelineRec /\ m.order = O /\ m.buffer = pl.buffer
        /\ m.bucketPool = pl.bucketPool /\ m.nCleanMarks = pl.nCleanMarks
        /\ m.cleanBucketPool = pl.cleanBucketPool /\ m.nIRequests = pl.nIRequests + 1
    <2>1. m = [order |-> O, buffer |-> pl.buffer, bucketPool |-> pl.bucketPool,
               cleanBucketPool |-> pl.cleanBucketPool, nIRequests |-> pl.nIRequests + 1,
               nCleanMarks |-> pl.nCleanMarks]
      BY <1>3 DEF PipelineRec
    <2>2. m \in PipelineRec
      <3>1. O \in Orders /\ pl.buffer \in Buffers
        BY <1>5, PipelineTypes DEF Orders, Buffers
      <3>2. PICK n1 \in Int, n2 \in Int, n3 \in Int, n4 \in Int :
              /\ n1 = pl.bucketPool /\ n2 = pl.cleanBucketPool
              /\ n3 = pl.nIRequests + 1 /\ n4 = pl.nCleanMarks
        BY PipelineTypes
      <3>3. m = [order |-> O, buffer |-> pl.buffer, bucketPool |-> n1, cleanBucketPool |-> n2,
                 nIRequests |-> n3, nCleanMarks |-> n4]
        BY <2>1, <3>2
      <3> QED BY <3>1, <3>3 DEF PipelineRec
    <2> QED BY <2>1, <2>2
  <1>9. /\ PoolsKept(pl, m) /\ PipeItems(m) = PipeItems(pl)
        /\ \A d, e : PipeBefore(m, d, e) <=> PipeBefore(pl, d, e)
    <2>1. requestsOf(m) = requestsOf(pl)
      BY <1>1, <1>7, <1>8, UnreadyFinite DEF requestsOf
    <2>2. poolOf(m) = poolOf(pl) /\ cleanOf(m) = cleanOf(pl)
      BY <1>5, <1>8 DEF poolOf, cleanOf
    <2> QED BY <1>6, <1>8, <2>1, <2>2 DEF PoolsKept, PipeItems, PipeBefore
  <1> QED BY <1>4, <1>8, <1>9, ClearedItems DEF PoolsKept

(* A bucket is put behind the others: fetch, and the clean mark.           *)
Added(pl, r, b) ==
  /\ PoolsKept(pl, r)
  /\ PipeItems(r) = PipeItems(pl) \cup Range(b)
  /\ \A d, e : PipeBefore(r, d, e) <=>
       PipeBefore(pl, d, e) \/ Follows(b, d, e) \/ (d \in PipeItems(pl) /\ e \in Range(b))

LEMMA AddedItem ==
  ASSUME NEW pl \in PipelineRec, NEW b \in Bucket, NEW r \in PipelineRec,
         r.order = Put(pl.order, b),
         r.buffer = pl.buffer, r.nIRequests = pl.nIRequests - 1,
         cleanOf(r) = cleanOf(pl), r.bucketPool - r.nCleanMarks = pl.bucketPool - pl.nCleanMarks - 1
  PROVE  Added(pl, r, b)
  <1>1. PICK O : O = Put(pl.order, b)
    OBVIOUS
  <1>2. /\ O \in Seq(Entry) /\ Len(O) = Len(pl.order) + 1
        /\ Cardinality(unready(O)) = Cardinality(unready(pl.order)) + 1
        /\ Items(Insts(O)) = Items(Insts(pl.order)) \cup Range(b)
        /\ \A d, e : Precedes(Insts(O), d, e) <=>
              \/ Precedes(Insts(pl.order), d, e) \/ Follows(b, d, e)
              \/ (d \in Items(Insts(pl.order)) /\ e \in Range(b))
    BY <1>1, NewItem
  <1> DEFINE ints(m) ==
        /\ m.bucketPool \in Int /\ m.nIRequests \in Int /\ m.nCleanMarks \in Int
        /\ Len(m.order) \in Nat /\ Len(m.buffer) \in Nat
        /\ Cardinality(unready(m.order)) \in Nat
  <1>0. ints(pl) /\ ints(r) /\ r.order = O
    <2>1. ASSUME NEW m \in PipelineRec PROVE ints(m)
      BY PipelineTypes, UnreadyFinite
    <2> QED BY <1>1, <2>1
  <1>3. poolOf(r) = poolOf(pl)
    <2>1. PICK n1 \in Int, n2 \in Int, m1 \in Int, m2 \in Int :
            /\ n1 = pl.bucketPool /\ n2 = pl.nCleanMarks
            /\ m1 = r.bucketPool /\ m2 = r.nCleanMarks
      BY <1>0
    <2>2. PICK l1 \in Nat, l2 \in Nat : l1 = Len(pl.order) /\ l2 = Len(pl.buffer)
      BY <1>0
    <2>3. Len(r.order) = l1 + 1 /\ Len(r.buffer) = l2 /\ m1 - m2 = n1 - n2 - 1
      BY <1>0, <1>2, <2>1, <2>2
    <2>4. m1 + l2 + (l1 + 1) - m2 = n1 + l2 + l1 - n2
      BY <2>3
    <2> QED BY <2>1, <2>2, <2>3, <2>4 DEF poolOf
  <1>4. requestsOf(r) = requestsOf(pl)
    <2>1. PICK n \in Int, c \in Nat : n = pl.nIRequests /\ c = Cardinality(unready(pl.order))
      BY <1>0
    <2>2. r.nIRequests = n - 1 /\ Cardinality(unready(r.order)) = c + 1
      BY <1>0, <1>2, <2>1
    <2> QED BY <2>1, <2>2 DEF requestsOf
  <1>5. PipeItems(r) = PipeItems(pl) \cup Range(b)
    BY <1>0, <1>2 DEF PipeItems
  <1>6. ASSUME NEW d, NEW e
        PROVE  PipeBefore(r, d, e) <=>
                 \/ PipeBefore(pl, d, e) \/ Follows(b, d, e)
                 \/ (d \in PipeItems(pl) /\ e \in Range(b))
    BY <1>0, <1>2 DEF PipeItems, PipeBefore
  <1> QED BY <1>3, <1>4, <1>5, <1>6 DEF Added, PoolsKept

LEMMA FetchedItem ==
  ASSUME NEW pl \in PipelineRec, NEW b \in Seq(Slots)
  PROVE  Added(pl, newItem(pl, b), b) /\ newItem(pl, b).nCleanMarks = pl.nCleanMarks
  <1>1. PICK r : r = newItem(pl, b)
    OBVIOUS
  <1>2. b \in Bucket
    BY DEF Bucket
  <1>3. PICK O : O = Put(pl.order, b)
    OBVIOUS
  <1>4. O \in Seq(Entry)
    BY <1>2, <1>3, NewItem
  <1>5. r = [pl EXCEPT !.nIRequests = pl.nIRequests - 1, !.bucketPool = pl.bucketPool - 1,
                       !.order = O]
    BY <1>1, <1>3 DEF newItem, Put
  <1>6. /\ r \in PipelineRec /\ r.order = O /\ r.buffer = pl.buffer
        /\ r.nIRequests = pl.nIRequests - 1 /\ r.bucketPool = pl.bucketPool - 1
        /\ r.nCleanMarks = pl.nCleanMarks /\ r.cleanBucketPool = pl.cleanBucketPool
    <2>1. r = [order |-> O, buffer |-> pl.buffer, bucketPool |-> pl.bucketPool - 1,
               cleanBucketPool |-> pl.cleanBucketPool, nIRequests |-> pl.nIRequests - 1,
               nCleanMarks |-> pl.nCleanMarks]
      BY <1>5 DEF PipelineRec
    <2>2. r \in PipelineRec
      <3>1. O \in Orders /\ pl.buffer \in Buffers
        BY <1>4, PipelineTypes DEF Orders, Buffers
      <3>2. PICK n1 \in Int, n2 \in Int, n3 \in Int, n4 \in Int :
              /\ n1 = pl.bucketPool - 1 /\ n2 = pl.cleanBucketPool
              /\ n3 = pl.nIRequests - 1 /\ n4 = pl.nCleanMarks
        BY PipelineTypes
      <3>3. r = [order |-> O, buffer |-> pl.buffer, bucketPool |-> n1, cleanBucketPool |-> n2,
                 nIRequests |-> n3, nCleanMarks |-> n4]
        BY <2>1, <3>2
      <3> QED BY <3>1, <3>3 DEF PipelineRec
    <2> QED BY <2>1, <2>2
  <1>7. cleanOf(r) = cleanOf(pl) /\ r.bucketPool - r.nCleanMarks = pl.bucketPool - pl.nCleanMarks - 1
    <2>1. PICK n1 \in Int, n3 \in Int : n1 = pl.bucketPool /\ n3 = pl.nCleanMarks
      BY PipelineTypes
    <2>2. r.bucketPool = n1 - 1 /\ r.nCleanMarks = n3 /\ (n1 - 1) - n3 = n1 - n3 - 1
      BY <1>6, <2>1
    <2> QED BY <1>6, <2>1, <2>2 DEF cleanOf
  <1>8. Added(pl, r, b)
    BY <1>2, <1>3, <1>6, <1>7, AddedItem
  <1> QED BY <1>1, <1>6, <1>8

LEMMA CleanMark ==
  ASSUME NEW pl \in PipelineRec
  PROVE  Added(pl, cleanMark(pl), cleanItem) /\ cleanMark(pl).nCleanMarks = pl.nCleanMarks + 1
  <1>1. cleanItem \in Bucket
    BY DEF Bucket
  <1>2. PICK O : O = Put(pl.order, cleanItem)
    OBVIOUS
  <1>3. /\ O \in Seq(Entry) /\ Len(O) = Len(pl.order) + 1
        /\ O[Len(O)] = [ready |-> FALSE, insts |-> cleanItem]
    BY <1>1, <1>2, NewItem
  <1>4. PICK r : r = [pl EXCEPT !.nCleanMarks = pl.nCleanMarks + 1,
                        !.cleanBucketPool = pl.cleanBucketPool - 1,
                        !.nIRequests = pl.nIRequests - 1, !.order = O]
    OBVIOUS
  <1>5. cleanMark(pl) = readyItem(r, Len(r.order))
    BY <1>2, <1>4 DEF cleanMark, Put
  <1>6. /\ r \in PipelineRec /\ r.order = O /\ r.buffer = pl.buffer
        /\ r.nIRequests = pl.nIRequests - 1 /\ r.bucketPool = pl.bucketPool
        /\ r.nCleanMarks = pl.nCleanMarks + 1 /\ r.cleanBucketPool = pl.cleanBucketPool - 1
    <2>1. r = [order |-> O, buffer |-> pl.buffer, bucketPool |-> pl.bucketPool,
               cleanBucketPool |-> pl.cleanBucketPool - 1, nIRequests |-> pl.nIRequests - 1,
               nCleanMarks |-> pl.nCleanMarks + 1]
      BY <1>4 DEF PipelineRec
    <2>2. r \in PipelineRec
      <3>1. O \in Orders /\ pl.buffer \in Buffers
        BY <1>3, PipelineTypes DEF Orders, Buffers
      <3>2. PICK n1 \in Int, n2 \in Int, n3 \in Int, n4 \in Int :
              /\ n1 = pl.bucketPool /\ n2 = pl.cleanBucketPool - 1
              /\ n3 = pl.nIRequests - 1 /\ n4 = pl.nCleanMarks + 1
        BY PipelineTypes
      <3>3. r = [order |-> O, buffer |-> pl.buffer, bucketPool |-> n1, cleanBucketPool |-> n2,
                 nIRequests |-> n3, nCleanMarks |-> n4]
        BY <2>1, <3>2
      <3> QED BY <3>1, <3>3 DEF PipelineRec
    <2> QED BY <2>1, <2>2
  <1>7. cleanOf(r) = cleanOf(pl) /\ r.bucketPool - r.nCleanMarks = pl.bucketPool - pl.nCleanMarks - 1
    <2>1. PICK n1 \in Int, n2 \in Int, n3 \in Int :
            n1 = pl.bucketPool /\ n2 = pl.cleanBucketPool /\ n3 = pl.nCleanMarks
      BY PipelineTypes
    <2>2. r.bucketPool = n1 /\ r.cleanBucketPool = n2 - 1 /\ r.nCleanMarks = n3 + 1
      BY <1>6, <2>1
    <2>3. (n2 - 1) + (n3 + 1) = n2 + n3 /\ n1 - (n3 + 1) = n1 - n3 - 1
      OBVIOUS
    <2> QED BY <2>1, <2>2, <2>3 DEF cleanOf
  <1>8. Added(pl, r, cleanItem)
    BY <1>1, <1>2, <1>6, <1>7, AddedItem
  <1>9. Len(O) \in DOMAIN r.order /\ ~r.order[Len(O)].ready
    BY <1>3, <1>6, PipelineTypes
  <1>10. PICK s : s = readyItem(r, Len(O))
    OBVIOUS
  <1>11. /\ PoolsKept(r, s) /\ s.nCleanMarks = r.nCleanMarks
         /\ PipeItems(s) = PipeItems(r)
         /\ \A d, e : PipeBefore(s, d, e) <=> PipeBefore(r, d, e)
    BY <1>6, <1>9, <1>10, ReadyItem
  <1>12. Added(pl, s, cleanItem)
    BY <1>8, <1>11 DEF Added, PoolsKept
  <1> QED BY <1>5, <1>6, <1>10, <1>11, <1>12

(* Swallowing takes instructions of the wrong path only, from the front.   *)
LEMMA Swallowed ==
  ASSUME NEW b \in Seq(Slots), NEW F
  PROVE  LET s == Swallow(b, F)
         IN  /\ s \in Seq(Slots) /\ Range(s) \subseteq Range(b)
             /\ Range(b) \ Range(s) \subseteq F
             /\ \A d, e : Follows(s, d, e) => Follows(b, d, e)
  <1> DEFINE P == {j \in 1 .. Len(b) : b[j] \in F}
             n == Max({0} \cup {k \in 1 .. Len(b) : \A j \in 1 .. k : j \in P})
             s == SubSeq(b, n + 1, Len(b))
  <1>1. b \in [1 .. Len(b) -> Slots] /\ Len(b) \in Nat /\ DOMAIN b = 1 .. Len(b)
    OBVIOUS
  <1>2. n \in 0 .. Len(b) /\ \A j \in 1 .. n : j \in P
    <2> HIDE DEF P
    <2> QED BY <1>1, Prefix
  <1>3. Swallow(b, F) = s
    <2>1. {k \in 1 .. Len(b) : \A j \in 1 .. k : j \in P} = {k \in 1 .. Len(b) : \A j \in 1 .. k : b[j] \in F}
      <3>1. \A k \in 1 .. Len(b) : (\A j \in 1 .. k : j \in P) <=> \A j \in 1 .. k : b[j] \in F
        BY <1>1
      <3> QED BY <3>1
    <2> QED BY <2>1 DEF Swallow
  <1> HIDE DEF n
  <1>4. /\ s \in Seq(Slots) /\ Len(s) = Len(b) - n /\ DOMAIN s = 1 .. Len(b) - n
        /\ \A k \in 1 .. Len(b) - n : s[k] = b[n + k] /\ n + k \in DOMAIN b /\ k \in Nat
    <2>1. n \in Nat /\ n <= Len(b) /\ n + 1 \in Nat
      BY <1>1, <1>2
    <2>2. /\ s \in Seq(Slots) /\ Len(s) = Len(b) - n /\ DOMAIN s = 1 .. Len(b) - n
          /\ \A k \in 1 .. Len(b) - n : s[k] = b[n + k]
      <3>1. \A i \in n + 1 .. Len(b) : b[i] \in Slots /\ i \in 1 .. Len(b)
        BY <1>1, <2>1
      <3> HIDE DEF s
      <3>2. PICK a : a = n + 1
        OBVIOUS
      <3>3. a \in 1 .. Len(b) + 1 /\ Len(b) - a + 1 = Len(b) - n
        BY <1>1, <2>1, <3>2
      <3>4. s = SubSeq(b, a, Len(b))
        BY <3>2 DEF s
      <3>5. /\ s \in Seq(Slots) /\ Len(s) = Len(b) - n
            /\ \A k \in 1 .. Len(b) - n : s[k] = b[a + k - 1]
        BY <1>1, <3>3, <3>4, SubSeqProperties
      <3>6. \A k \in 1 .. Len(b) - n : a + k - 1 = n + k
        BY <1>1, <2>1, <3>2
      <3> QED BY <3>5, <3>6
    <2>3. \A k \in 1 .. Len(b) - n : n + k \in DOMAIN b /\ k \in Nat
      BY <1>1, <2>1
    <2> QED BY <2>2, <2>3
  <1> HIDE DEF s
  <1>5. Range(s) \subseteq Range(b)
    BY <1>4 DEF Range
  <1>6. ASSUME NEW k \in DOMAIN b, b[k] \notin Range(s)
        PROVE  b[k] \in F
    <2>1. CASE k <= n
      BY <1>1, <1>2, <2>1
    <2>2. CASE k > n
      <3>1. k - n \in 1 .. Len(b) - n /\ n + (k - n) = k
        BY <1>1, <1>2, <2>2
      <3>2. s[k - n] = b[k]
        BY <1>4, <3>1
      <3> QED BY <1>4, <1>6, <3>1, <3>2 DEF Range
    <2>3. k <= n \/ k > n
      BY <1>1, <1>2
    <2> QED BY <2>1, <2>2, <2>3
  <1>7. Range(b) \ Range(s) \subseteq F
    BY <1>6 DEF Range
  <1>8. ASSUME NEW d, NEW e, Follows(s, d, e) PROVE Follows(b, d, e)
    <2>1. PICK k \in DOMAIN s, l \in DOMAIN s : k < l /\ s[k] = d /\ s[l] = e
      BY <1>8 DEF Follows
    <2>2. n + k < n + l /\ b[n + k] = d /\ b[n + l] = e /\ n + k \in DOMAIN b /\ n + l \in DOMAIN b
      <3>1. n \in Nat
        BY <1>1, <1>2
      <3>2. k \in Nat /\ l \in Nat
        BY <1>4
      <3> QED BY <1>4, <2>1, <3>1, <3>2
    <2> QED BY <2>2 DEF Follows
  <1> QED BY <1>3, <1>4, <1>5, <1>7, <1>8

(***************************************************************************)
(* The counters of a core                                                  *)
(***************************************************************************)
(* Only entries of the window and of the wrong path change hands.          *)
Retimed(c, e) ==
  /\ e \in Core /\ e.rob = c.rob /\ e.retired = c.retired /\ e.epoch = c.epoch
  /\ e.rat = c.rat /\ e.freeLoads = c.freeLoads /\ e.freeStores = c.freeStores
  /\ e.freeBranches = c.freeBranches /\ e.regPool = c.regPool
  /\ e.pendingFence = c.pendingFence /\ e.nOutsStores = c.nOutsStores

LEMMA OneInt == \A b : One(b) \in {0, 1} /\ (b = TRUE => One(b) = 1) /\ (b = FALSE => One(b) = 0)
  BY DEF One

LEMMA DelEntry ==
  ASSUME NEW c \in Core, NEW at
  PROVE  /\ Retimed(c, delEntry(c, at))
         /\ delEntry(c, at).windowSize = c.windowSize + One(conf.recycleAt = at)
  <1>1. One(conf.recycleAt = at) \in Int
    BY DEF One
  <1>2. PICK n : n = c.windowSize + One(conf.recycleAt = at)
    OBVIOUS
  <1>3. n \in Int
    BY <1>1, <1>2 DEF Core
  <1>4. delEntry(c, at) = [c EXCEPT !.windowSize = n]
    BY <1>2 DEF delEntry
  <1> QED BY <1>2, <1>3, <1>4 DEF Core, Retimed

LEMMA MisBranchRestore ==
  ASSUME NEW c \in Core
  PROVE  /\ Retimed(c, misBranchRestore(c))
         /\ misBranchRestore(c).windowSize = c.windowSize
  <1>1. PICK z \in Int : z = 0
    OBVIOUS
  <1>2. misBranchRestore(c) = [c EXCEPT !.misLoads = z, !.misStores = z, !.misRegPool = z]
    BY <1>1 DEF misBranchRestore
  <1>3. misBranchRestore(c) \in Core
    BY <1>2 DEF Core
  <1> QED BY <1>2, <1>3 DEF Core, Retimed

Leaves(c, d, e) ==
  /\ e \in Core /\ e.rob = Tail(c.rob) /\ e.retired = c.retired + One(~Fake(d))
  /\ e.regPool = c.regPool + One(~Fake(d) /\ dinst[d].inst.dest # InvalidOutput)
  /\ e.windowSize = c.windowSize
  /\ e.epoch = c.epoch /\ e.rat = c.rat /\ e.freeLoads = c.freeLoads
  /\ e.freeStores = c.freeStores /\ e.freeBranches = c.freeBranches
  /\ e.pendingFence = c.pendingFence /\ e.nOutsStores = c.nOutsStores

LEMMA Leave ==
  ASSUME NEW c \in Core, NEW d \in Slots, c.rob # <<>>, NEW e, e = leave(c, d)
  PROVE  Leaves(c, d, e)
  <1>1. PICK n, m, r : /\ n = c.retired + One(~Fake(d)) /\ r = Tail(c.rob)
                       /\ m = c.regPool + One(~Fake(d) /\ dinst[d].inst.dest # InvalidOutput)
    OBVIOUS
  <1>2. c.rob \in Robs /\ c.retired \in Nat /\ c.regPool \in Int
    BY DEF Core
  <1>3. r \in Robs
    BY <1>1, <1>2 DEF Robs
  <1>4. n \in Nat
    BY <1>1, <1>2 DEF One
  <1>5. m \in Int
    BY <1>1, <1>2 DEF One
  <1>6. leave(c, d) = [c EXCEPT !.rob = r, !.retired = n, !.regPool = m]
    BY <1>1 DEF leave
  <1> QED BY <1>1, <1>3, <1>4, <1>5, <1>6 DEF Core, Leaves

Takes(c, d, i, fake, e) ==
  /\ e \in Core /\ e.rob = Append(c.rob, d)
  /\ e.rat = [c.rat EXCEPT ![i.dest] = d]
  /\ e.windowSize = c.windowSize - 1
  /\ e.freeLoads = c.freeLoads - One(i.op = "load" /\ ~fake)
  /\ e.freeStores = c.freeStores - One(i.op = "store" /\ ~fake)
  /\ e.freeBranches = c.freeBranches - One(i.op = "branch")
  /\ e.regPool = c.regPool - One(i.dest # InvalidOutput /\ ~fake)
  /\ e.retired = c.retired /\ e.epoch = c.epoch
  /\ e.pendingFence = c.pendingFence /\ e.nOutsStores = c.nOutsStores

LEMMA TakeEntries ==
  ASSUME NEW c \in Core, NEW d \in Slots, NEW i \in Instruction, NEW fake \in BOOLEAN
  PROVE  Takes(c, d, i, fake, takeEntries(c, d, i, fake))
  <1>1. PICK r, t, w, n1, n2, n3, n4, n5, n6, n7 :
          /\ r = Append(c.rob, d) /\ t = [c.rat EXCEPT ![i.dest] = d] /\ w = c.windowSize - 1
          /\ n1 = c.freeLoads - One(i.op = "load" /\ ~fake)
          /\ n2 = c.misLoads + One(i.op = "load" /\ fake)
          /\ n3 = c.freeStores - One(i.op = "store" /\ ~fake)
          /\ n4 = c.misStores + One(i.op = "store" /\ fake)
          /\ n5 = c.freeBranches - One(i.op = "branch")
          /\ n6 = c.regPool - One(i.dest # InvalidOutput /\ ~fake)
          /\ n7 = c.misRegPool + One(i.dest # InvalidOutput /\ fake)
    BY ZenonT(60)
  <1>2. /\ c.rob \in Robs /\ c.rat \in Rats /\ c.windowSize \in Int /\ c.freeLoads \in Int
        /\ c.misLoads \in Int /\ c.freeStores \in Int /\ c.misStores \in Int
        /\ c.freeBranches \in Int /\ c.regPool \in Int /\ c.misRegPool \in Int
    BY DEF Core
  <1>3. r \in Robs
    BY <1>1, <1>2 DEF Robs
  <1>4. t \in Rats
    <2>1. i.dest \in AllRegs
      BY DEF Instruction, AllRegs
    <2> QED BY <1>1, <1>2, <2>1 DEF Rats
  <1>5. w \in Int
    BY <1>1, <1>2
  <1>6. ASSUME NEW n \in Int, NEW b PROVE n - One(b) \in Int /\ n + One(b) \in Int
    BY DEF One
  <1>7. /\ n1 \in Int /\ n2 \in Int /\ n3 \in Int /\ n4 \in Int /\ n5 \in Int
        /\ n6 \in Int /\ n7 \in Int
    BY <1>1, <1>2, <1>6
  <1>8. takeEntries(c, d, i, fake) =
          [c EXCEPT !.rob = r, !.rat = t, !.windowSize = w, !.freeLoads = n1,
             !.misLoads = n2, !.freeStores = n3, !.misStores = n4, !.freeBranches = n5,
             !.regPool = n6, !.misRegPool = n7]
    BY <1>1 DEF takeEntries, Core
  <1>9. takeEntries(c, d, i, fake) =
          [rob |-> r, retired |-> c.retired, epoch |-> c.epoch, rat |-> t,
           windowSize |-> w, freeLoads |-> n1, misLoads |-> n2, freeStores |-> n3,
           misStores |-> n4, freeBranches |-> n5, regPool |-> n6, misRegPool |-> n7,
           pendingFence |-> c.pendingFence, nOutsStores |-> c.nOutsStores]
    BY <1>8 DEF Core
  <1>10. takeEntries(c, d, i, fake) \in Core
    BY <1>3, <1>4, <1>5, <1>7, <1>9 DEF Core
  <1>11. PICK e : e = takeEntries(c, d, i, fake)
    OBVIOUS
  <1>12. Takes(c, d, i, fake, e)
    BY <1>1, <1>9, <1>10, <1>11 DEF Takes
  <1> QED BY <1>11, <1>12

(***************************************************************************)
(* What happens to the instructions                                        *)
(***************************************************************************)
DInsts == [Slots -> DInst \cup {Free}]
LEMMA Lives ==
  ASSUME dinst \in DInsts, NEW d \in Slots
  PROVE  /\ d \in Live <=> dinst[d] \in DInst
         /\ d \in Live <=> dinst[d].st # "free"
         /\ d \in Live <=> dinst[d].st \in Stages
         /\ d \notin Live <=> dinst[d] = Free
  <1>1. Free.st = "free" /\ "free" \notin Stages
    BY DEF Free, Stages
  <1>2. dinst[d] \in DInst => dinst[d].st \in Stages /\ dinst[d].st # "free"
    BY <1>1 DEF DInst
  <1>3. dinst[d] \in DInst \/ dinst[d] = Free
    BY DEF DInsts
  <1>4. d \in Live <=> dinst[d] # Free
    BY DEF Live
  <1> QED BY <1>1, <1>2, <1>3, <1>4

(* y is what x was, or has left the window.                                *)
Alike(x, y) ==
  /\ x \in DInst /\ y \in DInst
  /\ y.proc = x.proc /\ y.pos = x.pos /\ y.inst = x.inst /\ y.fake = x.fake
  /\ y.fetch = x.fetch /\ y.epoch = x.epoch
  /\ y.st = x.st \/ (x.st = "window" /\ y.st \in {"selected", "port"})
(* Instructions outside D at most leave the window.                        *)
Drift(D) ==
  \A x \in Slots \ D :
    (dinst[x] = Free /\ dinst'[x] = Free) \/ Alike(dinst[x], dinst'[x])
Closed(S) ==
  /\ S \subseteq Stages
  /\ "window" \in S <=> "selected" \in S
  /\ "window" \in S <=> "port" \in S

LEMMA ClosedStages ==
  /\ Closed(inROB) /\ Closed({"fetched"}) /\ Closed({"memory"}) /\ Closed(waiting)
  /\ Closed(inROB \ {"executed"}) /\ Closed(inROB \cup {"fetched"})
  /\ \A at \in {"Issue", "Execute", "Retire"} : Closed(holdsEntry[at])
  BY DEF Closed, inROB, waiting, holdsEntry, Stages

LEMMA Drifted ==
  ASSUME dinst \in DInsts, dinst' \in DInsts, NEW D, Drift(D), NEW x \in Slots \ D
  PROVE  /\ (x \in Live)' <=> x \in Live
         /\ x \in Live => Alike(dinst[x], dinst'[x])
         /\ \A p \in Procs, S \in SUBSET Stages :
              Closed(S) => (x \in InStage(p, S)' <=> x \in InStage(p, S))
  <1>1. (dinst[x] = Free /\ dinst'[x] = Free) \/ Alike(dinst[x], dinst'[x])
    BY DEF Drift
  <1>2. Free \notin DInst
    BY DEF Free, DInst, Stages
  <1>3. ((x \in Live)' <=> dinst'[x] # Free) /\ (x \in Live <=> dinst[x] # Free)
    BY DEF Live
  <1>4. ASSUME NEW p \in Procs, NEW S \in SUBSET Stages, Closed(S)
        PROVE  x \in InStage(p, S)' <=> x \in InStage(p, S)
    <2>1. x \in InStage(p, S)' <=> dinst'[x].st \in S /\ dinst'[x].proc = p
      BY DEF InStage
    <2>2. x \in InStage(p, S) <=> dinst[x].st \in S /\ dinst[x].proc = p
      BY DEF InStage
    <2>3. CASE dinst[x] = Free /\ dinst'[x] = Free
      <3>1. "free" \notin S
        BY DEF Stages
      <3> QED BY <2>1, <2>2, <2>3, <3>1 DEF Free
    <2>4. CASE Alike(dinst[x], dinst'[x])
      BY <1>4, <2>1, <2>2, <2>4 DEF Alike, Closed
    <2> QED BY <1>1, <2>3, <2>4
  <1>5. x \in Live => Alike(dinst[x], dinst'[x])
    BY <1>1, <1>3
  <1>6. Alike(dinst[x], dinst'[x]) => dinst[x] # Free /\ dinst'[x] # Free
    BY <1>2 DEF Alike
  <1> QED BY <1>1, <1>3, <1>4, <1>5, <1>6

(* The sets of instructions that count change only inside D.               *)
LEMMA DriftedSets ==
  ASSUME dinst \in DInsts, dinst' \in DInsts, conf' = conf, conf \in Confs, NEW D, Drift(D),
         NEW p \in Procs, NEW x \in Slots \ D
  PROVE  /\ x \in loads(p)' <=> x \in loads(p)
         /\ x \in storesOf(p)' <=> x \in storesOf(p)
         /\ x \in branches(p)' <=> x \in branches(p)
         /\ x \in renamed(p)' <=> x \in renamed(p)
         /\ x \in outstanding(p)' <=> x \in outstanding(p)
         /\ x \in windowed(p)' <=> x \in windowed(p)
         /\ x \in Real(p)' <=> x \in Real(p)
         /\ x \in Blocking(p)' <=> x \in Blocking(p)
  <1> DEFINE kept(S) == x \in InStage(p, S)' <=> x \in InStage(p, S)
  <1>1. ASSUME NEW S \in SUBSET Stages, Closed(S) PROVE kept(S)
    BY <1>1, Drifted
  <1>2. /\ kept(inROB) /\ kept({"memory"}) /\ kept(waiting)
        /\ kept(inROB \ {"executed"}) /\ kept(inROB \cup {"fetched"})
        /\ kept(holdsEntry[conf.recycleAt])
    <2>1. conf.recycleAt \in {"Issue", "Execute", "Retire"}
      BY ProgramsAssumption
    <2>2. /\ Closed(inROB) /\ Closed({"memory"}) /\ Closed(waiting)
          /\ Closed(inROB \ {"executed"}) /\ Closed(inROB \cup {"fetched"})
          /\ Closed(holdsEntry[conf.recycleAt])
      BY <2>1, ClosedStages
    <2>3. \A S : Closed(S) => S \in SUBSET Stages
      BY DEF Closed
    <2> HIDE DEF kept
    <2> QED BY <1>1, <2>2, <2>3
  <1>3. ASSUME NEW S, x \in InStage(p, S), S \subseteq Stages
        PROVE  /\ Op(x)' = Op(x) /\ Fake(x)' = Fake(x) /\ dinst'[x].inst = dinst[x].inst
               /\ dinst'[x].fetch = dinst[x].fetch /\ dinst'[x].fake = dinst[x].fake
    <2>1. x \in Live
      BY <1>3, Lives DEF InStage
    <2>2. Alike(dinst[x], dinst'[x])
      BY <2>1, Drifted
    <2> QED BY <2>2 DEF Alike, Op, Fake
  <1>4. inROB \subseteq Stages /\ waiting \subseteq Stages
    BY DEF inROB, waiting, Stages
  <1>5. x \in loads(p)' <=> x \in loads(p)
    BY <1>2, <1>3, <1>4 DEF loads
  <1>6. x \in storesOf(p)' <=> x \in storesOf(p)
    BY <1>2, <1>3, <1>4 DEF storesOf
  <1>7. x \in branches(p)' <=> x \in branches(p)
    BY <1>2, <1>3, <1>4 DEF branches
  <1>8. x \in renamed(p)' <=> x \in renamed(p)
    BY <1>2, <1>3, <1>4 DEF renamed
  <1>9. x \in outstanding(p)' <=> x \in outstanding(p)
    BY <1>2 DEF outstanding
  <1>10. x \in windowed(p)' <=> x \in windowed(p)
    BY <1>2 DEF windowed
  <1>11. x \in Real(p)' <=> x \in Real(p)
    BY <1>2, <1>3, <1>4 DEF Real, Stages
  <1>12. x \in Blocking(p)' <=> x \in Blocking(p)
    BY <1>2, <1>3, <1>4 DEF Blocking
  <1> QED BY <1>5, <1>6, <1>7, <1>8, <1>9, <1>10, <1>11, <1>12

(* What is left of an instruction's dependences when it is woken.          *)
WokenAs(r, m, s, y) ==
  /\ y \in DInst /\ y.deps = m /\ y.pend = r.pend /\ y.st = s
  /\ (r.st = "window" /\ s \in {"window", "selected", "port"}) => Alike(r, y)
LEMMA Woken ==
  ASSUME NEW r \in DInst, NEW m \in SUBSET r.deps, NEW s \in Stages
  PROVE  /\ WokenAs(r, m, s, [r EXCEPT !.deps = m, !.st = s])
         /\ WokenAs(r, m, s, [r EXCEPT !.deps = m, !.depsAtRetire = FALSE, !.st = s])
  <1>1. m \in Deps
    BY DEF DInst, Deps
  <1> QED BY <1>1 DEF DInst, Alike, WokenAs

(* An instruction that does not wait is not waited for by another's list.  *)
LEMMA NotWaiting ==
  ASSUME dinst \in DInsts, Wakeups, NEW d \in Live, dinst[d].st # "window"
  PROVE  dinst[d].deps = {} /\ \A x \in Live, n \in {1, 2} : ~wakes(x, d, n)
  <1>1. dinst[d].deps = {}
    BY DEF Wakeups
  <1> QED BY <1>1 DEF Wakeups

LEMMA PendTypes ==
  ASSUME dinst \in DInsts, NEW x \in Live
  PROVE  /\ x \in Slots /\ dinst[x] \in DInst /\ dinst[x].deps \in SUBSET {1, 2}
         /\ \A e \in dinst[x].pend : /\ e.d \in Slots /\ e.src \in {1, 2}
                                     /\ e = [d |-> e.d, src |-> e.src]
                                     /\ wakes(x, e.d, e.src)
  <1>1. x \in Slots /\ dinst[x] \in DInst
    BY Lives DEF Live
  <1>2. dinst[x].pend \in SUBSET [d: Slots, src: {1, 2}] /\ dinst[x].deps \in SUBSET {1, 2}
    BY <1>1 DEF DInst, Pends, Deps
  <1> QED BY <1>1, <1>2 DEF wakes

(* d wakes the instructions it may: those in hit.                          *)
LEMMA FedIs ==
  ASSUME dinst \in DInsts, NEW d \in Live, NEW x
  PROVE  /\ \A n : n \in Fed(d, x) <=> n \in {1, 2} /\ wakes(d, x, n)
         /\ (\E e \in dinst[d].pend : e.d = x) <=> Fed(d, x) # {}
  <1>1. ASSUME NEW n PROVE n \in Fed(d, x) <=> n \in {1, 2} /\ wakes(d, x, n)
    <2>1. n \in Fed(d, x) <=> \E e \in dinst[d].pend : e.d = x /\ e.src = n
      BY DEF Fed
    <2>2. (\E e \in dinst[d].pend : e.d = x /\ e.src = n) <=> n \in {1, 2} /\ wakes(d, x, n)
      BY PendTypes DEF wakes
    <2> QED BY <2>1, <2>2
  <1>2. (\E e \in dinst[d].pend : e.d = x) <=> Fed(d, x) # {}
    BY DEF Fed
  <1> QED BY <1>1, <1>2

(* When d is executed.                                                     *)
LEMMA ExecutedStep ==
  ASSUME dinst \in DInsts, Wakeups, NEW d \in Live, dinst[d].st \notin {"window", "fetched"},
         dinst' = executed(d)
  PROVE  /\ dinst' \in DInsts /\ Drift({d}) /\ Wakeups'
         /\ Alike([dinst[d] EXCEPT !.st = "executed"], dinst'[d])
  <1> DEFINE stays(x) == Op(d) = "store" /\ dinst[x].depsAtRetire
             left(x) == dinst[x].deps \ Fed(d, x)
             hit(x) == (\E e \in dinst[d].pend : e.d = x) /\ ~stays(x)
             s(x) == IF left(x) = {} THEN "selected" ELSE dinst[x].st
             Q == {e \in dinst[d].pend : stays(e.d)}
  <1>1. d \in Slots /\ dinst[d] \in DInst
    BY PendTypes
  <1>2. dinst'[d] = [dinst[d] EXCEPT !.st = "executed", !.pend = Q]
    BY <1>1 DEF executed
  <1>3. ASSUME NEW x \in Slots \ {d}, hit(x)
        PROVE  /\ x \in Live /\ dinst[x].st = "window"
               /\ dinst'[x] \in DInst /\ Alike(dinst[x], dinst'[x])
               /\ dinst'[x].deps = left(x) /\ dinst'[x].pend = dinst[x].pend
               /\ dinst'[x].st = s(x)
    <2>1. PICK e \in dinst[d].pend : e.d = x
      BY <1>3
    <2>2. x \in Live /\ wakes(d, x, e.src) /\ e.src \in {1, 2}
      BY <2>1, PendTypes DEF Wakeups
    <2>3. dinst[x].deps # {} /\ dinst[x].st = "window"
      BY <2>2 DEF Wakeups
    <2>4. dinst'[x] = [dinst[x] EXCEPT !.deps = left(x), !.st = s(x)]
      BY <1>3 DEF executed
    <2>5. dinst[x] \in DInst /\ left(x) \in SUBSET dinst[x].deps
      BY <2>2, PendTypes
    <2>6. s(x) \in {"window", "selected"} /\ s(x) \in Stages
      BY <2>3 DEF Stages
    <2>7. PICK m, u, o : m = left(x) /\ u = s(x) /\ o = dinst[x]
      OBVIOUS
    <2>8. PICK z : z = [o EXCEPT !.deps = m, !.st = u]
      OBVIOUS
    <2>9. o \in DInst /\ m \in SUBSET o.deps /\ u \in Stages
      BY <2>5, <2>6, <2>7
    <2>10. WokenAs(o, m, u, z)
      BY <2>8, <2>9, Woken
    <2>11. o.st = "window" /\ u \in {"window", "selected", "port"}
      BY <2>3, <2>6, <2>7
    <2>12. dinst'[x] = z
      BY <2>4, <2>7, <2>8
    <2> QED BY <2>2, <2>3, <2>7, <2>10, <2>11, <2>12 DEF WokenAs
  <1>4. ASSUME NEW x \in Slots \ {d}, ~hit(x) PROVE dinst'[x] = dinst[x]
    BY <1>4 DEF executed
  <1>5. Q \subseteq dinst[d].pend /\ Q \in Pends
    BY <1>1 DEF DInst, Pends
  <1>6. /\ dinst'[d] \in DInst /\ dinst'[d].st = "executed"
        /\ dinst'[d].deps = dinst[d].deps /\ dinst'[d].pend = Q
        /\ Alike([dinst[d] EXCEPT !.st = "executed"], dinst'[d])
    <2>1. "executed" \in Stages
      BY DEF Stages
    <2> HIDE DEF Q
    <2> QED BY <1>1, <1>2, <1>5, <2>1 DEF DInst, Alike
  <1>7. DOMAIN dinst' = Slots /\ dinst' = [x \in Slots |-> dinst'[x]]
    BY DEF executed
  <1> HIDE DEF hit
  <1>8. ASSUME NEW x \in Slots \ {d}
        PROVE  (dinst[x] = Free /\ dinst'[x] = Free) \/ Alike(dinst[x], dinst'[x])
    <2>1. CASE hit(x)
      BY <1>3, <2>1
    <2>2. CASE ~hit(x) /\ dinst[x] \in DInst
      BY <1>4, <2>2 DEF Alike
    <2>3. dinst[x] \in DInst \/ dinst[x] = Free
      BY DEF DInsts
    <2> QED BY <1>4, <2>1, <2>2, <2>3
  <1>9. Drift({d})
    BY <1>8 DEF Drift
  <1>10. dinst' \in DInsts
    <2>1. \A x \in Slots : dinst'[x] \in DInst \cup {Free}
      BY <1>6, <1>8 DEF Alike
    <2> QED BY <1>7, <2>1 DEF DInsts
  <1>11. ASSUME NEW x \in Slots PROVE (x \in Live)' <=> x \in Live
    <2>1. CASE x = d
      <3>1. dinst'[d] # Free
        BY <1>6 DEF Free
      <3> QED BY <2>1, <3>1 DEF Live
    <2> QED BY <1>9, <1>10, <2>1, Drifted
  <1>12. Live' = Live
    BY <1>11 DEF Live
  <1>13. ASSUME NEW x \in Live, NEW y \in Live, NEW n \in {1, 2}
         PROVE  /\ wakes(x, y, n)' => wakes(x, y, n)
                /\ x # d => (wakes(x, y, n)' <=> wakes(x, y, n))
                /\ x = d => (wakes(x, y, n)' <=> wakes(x, y, n) /\ stays(y))
    <2>1. x \in Slots /\ y \in Slots
      BY PendTypes
    <2>2. x # d => dinst'[x].pend = dinst[x].pend
      BY <1>3, <1>4, <2>1
    <2>3. [d |-> y, src |-> n].d = y
      OBVIOUS
    <2> QED BY <1>6, <2>1, <2>2, <2>3 DEF wakes
  <1>14. dinst[d].deps = {} /\ \A x \in Live, n \in {1, 2} : ~wakes(x, d, n)
    BY NotWaiting
  <1>15. ASSUME NEW y \in Live, NEW n \in {1, 2}
         PROVE  n \in dinst'[y].deps <=> \E x \in Live : wakes(x, y, n)'
    <2>0. y \in Slots /\ (n \in dinst[y].deps <=> \E x \in Live : wakes(x, y, n))
      BY PendTypes DEF Wakeups
    <2>1. CASE y = d
      BY <1>6, <1>13, <1>14, <2>1
    <2>2. CASE y # d /\ hit(y)
      <3>1. ~stays(y)
        BY <2>2 DEF hit
      <3>2. n \in dinst'[y].deps <=> n \in dinst[y].deps /\ ~wakes(d, y, n)
        BY <1>3, <2>0, <2>2, FedIs
      <3>3. \A x \in Live : wakes(x, y, n)' <=> x # d /\ wakes(x, y, n)
        BY <1>13, <3>1
      <3>4. \A x \in Live : wakes(x, y, n) /\ wakes(d, y, n) => x = d
        BY DEF Wakeups
      <3> QED BY <2>0, <3>2, <3>3, <3>4
    <2>3. CASE y # d /\ ~hit(y)
      <3>1. dinst'[y].deps = dinst[y].deps
        BY <1>4, <2>0, <2>3
      <3>2. wakes(d, y, n) => stays(y)
        <4>1. [d |-> y, src |-> n].d = y
          OBVIOUS
        <4> QED BY <2>3, <4>1 DEF hit, wakes
      <3>3. \A x \in Live : wakes(x, y, n)' <=> wakes(x, y, n)
        BY <1>13, <3>2
      <3> QED BY <2>0, <3>1, <3>3
    <2> QED BY <2>1, <2>2, <2>3
  <1>16. ASSUME NEW y \in Live, NEW n \in {1, 2}, NEW x \in Live, NEW z \in Live,
                wakes(x, y, n)', wakes(z, y, n)'
         PROVE  x = z
    BY <1>13, <1>16 DEF Wakeups
  <1>17. ASSUME NEW x \in Live, NEW e \in dinst'[x].pend PROVE e.d \in Live
    <2>1. e \in dinst[x].pend
      BY <1>3, <1>4, <1>5, <1>6, PendTypes
    <2> QED BY <2>1 DEF Wakeups
  <1>18. ASSUME NEW x \in Live
         PROVE  /\ dinst'[x].st = "window" <=> dinst'[x].deps # {}
                /\ dinst'[x].st = "fetched" => dinst'[x].pend = {}
    <2>0. /\ x \in Slots /\ (dinst[x].st = "window" <=> dinst[x].deps # {})
          /\ dinst[x].st = "fetched" => dinst[x].pend = {}
      BY PendTypes DEF Wakeups
    <2>1. CASE x = d
      BY <1>6, <1>14, <2>1
    <2>2. CASE x # d /\ hit(x)
      BY <1>3, <2>0, <2>2
    <2>3. CASE x # d /\ ~hit(x)
      BY <1>4, <2>0, <2>3
    <2> QED BY <2>1, <2>2, <2>3
  <1>19. Wakeups'
    <2> HIDE DEF stays, left, s, Q
    <2> QED BY <1>12, <1>15, <1>16, <1>17, <1>18 DEF Wakeups
  <1> QED BY <1>6, <1>9, <1>10, <1>19

(* When d is gone.                                                         *)
LEMMA DestroyedStep ==
  ASSUME dinst \in DInsts, Wakeups, NEW d \in Live, dinst[d].st \in {"executed", "memory"},
         dinst' = destroy(d)
  PROVE  dinst' \in DInsts /\ Drift({d}) /\ dinst'[d] = Free /\ Wakeups'
  <1> DEFINE left(x) == dinst[x].deps \ Fed(d, x)
             hit(x) == Fed(d, x) # {}
             s(x) == IF left(x) = {} THEN "port" ELSE dinst[x].st
  <1>1. d \in Slots /\ dinst[d] \in DInst
    BY PendTypes
  <1>2. /\ DOMAIN dinst' = Slots /\ dinst' = [x \in Slots |-> dinst'[x]]
        /\ dinst'[d] = Free
        /\ \A x \in Slots \ {d} : dinst'[x] = awakeRemoteInstructions(d)[x]
    BY <1>1 DEF destroy, awakeRemoteInstructions
  <1>3. ASSUME NEW x \in Slots \ {d}, hit(x)
        PROVE  /\ x \in Live /\ dinst[x].st = "window"
               /\ dinst'[x] \in DInst /\ Alike(dinst[x], dinst'[x])
               /\ dinst'[x].deps = left(x) /\ dinst'[x].pend = dinst[x].pend
               /\ dinst'[x].st = s(x)
    <2>1. PICK e \in dinst[d].pend : e.d = x
      BY <1>3, FedIs
    <2>2. x \in Live /\ wakes(d, x, e.src) /\ e.src \in {1, 2}
      BY <2>1, PendTypes DEF Wakeups
    <2>3. dinst[x].deps # {} /\ dinst[x].st = "window"
      BY <2>2 DEF Wakeups
    <2>4. dinst'[x] = [dinst[x] EXCEPT !.deps = left(x), !.depsAtRetire = FALSE, !.st = s(x)]
      BY <1>2, <1>3 DEF awakeRemoteInstructions
    <2>5. dinst[x] \in DInst /\ left(x) \in SUBSET dinst[x].deps
      BY <2>2, PendTypes
    <2>6. s(x) \in {"window", "port"} /\ s(x) \in Stages
      BY <2>3 DEF Stages
    <2> HIDE DEF left, s
    <2>7. PICK m, u, o : m = left(x) /\ u = s(x) /\ o = dinst[x]
      OBVIOUS
    <2>8. PICK z : z = [o EXCEPT !.deps = m, !.depsAtRetire = FALSE, !.st = u]
      OBVIOUS
    <2>9. o \in DInst /\ m \in SUBSET o.deps /\ u \in Stages
      BY <2>5, <2>6, <2>7
    <2>10. WokenAs(o, m, u, z)
      BY <2>8, <2>9, Woken
    <2>11. o.st = "window" /\ u \in {"window", "selected", "port"}
      BY <2>3, <2>6, <2>7
    <2>12. dinst'[x] = z
      BY <2>4, <2>7, <2>8
    <2> QED BY <2>2, <2>3, <2>7, <2>10, <2>11, <2>12 DEF WokenAs
  <1>4. ASSUME NEW x \in Slots \ {d}, ~hit(x) PROVE dinst'[x] = dinst[x]
    BY <1>2, <1>4 DEF awakeRemoteInstructions
  <1> HIDE DEF hit
  <1>5. ASSUME NEW x \in Slots \ {d}
        PROVE  (dinst[x] = Free /\ dinst'[x] = Free) \/ Alike(dinst[x], dinst'[x])
    <2>1. CASE hit(x)
      BY <1>3, <2>1
    <2>2. CASE ~hit(x) /\ dinst[x] \in DInst
      BY <1>4, <2>2 DEF Alike
    <2>3. dinst[x] \in DInst \/ dinst[x] = Free
      BY DEF DInsts
    <2> QED BY <1>4, <2>1, <2>2, <2>3
  <1>6. Drift({d})
    BY <1>5 DEF Drift
  <1>7. dinst' \in DInsts
    <2>1. \A x \in Slots : dinst'[x] \in DInst \cup {Free}
      BY <1>2, <1>5 DEF Alike
    <2> QED BY <1>2, <2>1 DEF DInsts
  <1>8. Live' = Live \ {d}
    <2>1. ASSUME NEW x \in Slots \ {d} PROVE (x \in Live)' <=> x \in Live
      BY <1>6, <1>7, Drifted
    <2>2. ~(d \in Live)'
      BY <1>2 DEF Live
    <2> QED BY <2>1, <2>2 DEF Live
  <1>9. dinst[d].deps = {} /\ \A x \in Live, n \in {1, 2} : ~wakes(x, d, n)
    BY NotWaiting
  <1>10. ASSUME NEW x \in Live \ {d}
         PROVE  x \in Slots \ {d} /\ dinst'[x].pend = dinst[x].pend
                /\ \A y, n : wakes(x, y, n)' <=> wakes(x, y, n)
    <2>1. x \in Slots \ {d}
      BY PendTypes
    <2>2. dinst'[x].pend = dinst[x].pend
      BY <1>3, <1>4, <2>1
    <2> QED BY <2>1, <2>2 DEF wakes
  <1>11. ASSUME NEW y \in Live \ {d}, NEW n \in {1, 2}
         PROVE  n \in dinst'[y].deps <=> \E x \in Live \ {d} : wakes(x, y, n)'
    <2>1. y \in Slots /\ (n \in dinst[y].deps <=> \E x \in Live : wakes(x, y, n))
      BY PendTypes DEF Wakeups
    <2>2. n \in dinst'[y].deps <=> n \in dinst[y].deps /\ ~wakes(d, y, n)
      <3>1. CASE hit(y)
        BY <1>3, <2>1, <3>1, FedIs
      <3>2. CASE ~hit(y)
        <4>1. ~wakes(d, y, n)
          BY <3>2, FedIs DEF hit
        <4> QED BY <1>4, <2>1, <3>2, <4>1
      <3> QED BY <3>1, <3>2
    <2>3. \A x \in Live : wakes(x, y, n) /\ wakes(d, y, n) => x = d
      BY DEF Wakeups
    <2> QED BY <1>10, <2>1, <2>2, <2>3
  <1>12. ASSUME NEW y \in Live \ {d}, NEW n \in {1, 2}, NEW x \in Live \ {d},
                NEW z \in Live \ {d}, wakes(x, y, n)', wakes(z, y, n)'
         PROVE  x = z
    <2>1. wakes(x, y, n) /\ wakes(z, y, n)
      BY <1>10, <1>12
    <2> QED BY <2>1 DEF Wakeups
  <1>13. ASSUME NEW x \in Live \ {d}, NEW e \in dinst'[x].pend PROVE e.d \in Live \ {d}
    <2>1. e \in dinst[x].pend
      BY <1>10
    <2>2. e.d \in Live /\ wakes(x, e.d, e.src) /\ e.src \in {1, 2}
      BY <2>1, PendTypes DEF Wakeups
    <2> QED BY <1>9, <2>2
  <1>14. ASSUME NEW x \in Live \ {d}
         PROVE  /\ dinst'[x].st = "window" <=> dinst'[x].deps # {}
                /\ dinst'[x].st = "fetched" => dinst'[x].pend = {}
    <2>0. /\ x \in Slots /\ (dinst[x].st = "window" <=> dinst[x].deps # {})
          /\ dinst[x].st = "fetched" => dinst[x].pend = {}
      BY PendTypes DEF Wakeups
    <2>1. CASE hit(x)
      BY <1>3, <2>0, <2>1
    <2>2. CASE ~hit(x)
      BY <1>4, <2>0, <2>2
    <2> QED BY <2>1, <2>2
  <1>15. Wakeups'
    <2> HIDE DEF left, s
    <2> QED BY <1>8, <1>11, <1>12, <1>13, <1>14 DEF Wakeups
  <1> QED BY <1>2, <1>6, <1>7, <1>15

(* When only d changes, and neither waits nor is in a bucket.              *)
LEMMA StagedStep ==
  ASSUME dinst \in DInsts, Wakeups, NEW d \in Live, NEW y \in DInst,
         dinst' = [dinst EXCEPT ![d] = y], y.deps = dinst[d].deps, y.pend = dinst[d].pend,
         dinst[d].st # "window", y.st \notin {"window", "fetched"}
  PROVE  dinst' \in DInsts /\ Drift({d}) /\ dinst'[d] = y /\ Wakeups'
  <1>1. d \in Slots /\ dinst[d] \in DInst
    BY PendTypes
  <1>2. dinst'[d] = y /\ \A x \in Slots \ {d} : dinst'[x] = dinst[x]
    BY <1>1 DEF DInsts
  <1>3. dinst' \in DInsts
    BY <1>1 DEF DInsts
  <1>4. Drift({d})
    <2>1. \A x \in Slots : dinst[x] = Free \/ dinst[x] \in DInst
      BY DEF DInsts
    <2> QED BY <1>2, <2>1 DEF Drift, Alike
  <1>5. Live' = Live
    <2>1. Free \notin DInst
      BY DEF Free, DInst, Stages
    <2> QED BY <1>1, <1>2, <2>1 DEF Live
  <1>6. \A x \in Live : x \in Slots /\ dinst'[x].pend = dinst[x].pend /\ dinst'[x].deps = dinst[x].deps
    BY <1>2, PendTypes
  <1>7. \A x \in Live : dinst'[x].st = "window" <=> dinst'[x].deps # {}
    BY <1>1, <1>2, <1>6 DEF Wakeups
  <1>8. \A x \in Live : dinst'[x].st = "fetched" => dinst'[x].pend = {}
    BY <1>1, <1>2, <1>6 DEF Wakeups
  <1>9. \A x \in Live : \A z, n : wakes(x, z, n)' <=> wakes(x, z, n)
    BY <1>6 DEF wakes
  <1>10. Wakeups'
    <2>1. \A x \in Live, n \in {1, 2} :
            /\ n \in dinst'[x].deps <=> \E z \in Live : wakes(z, x, n)'
            /\ \A z, v \in Live : wakes(z, x, n)' /\ wakes(v, x, n)' => z = v
      BY <1>6, <1>9 DEF Wakeups
    <2>2. \A x \in Live : \A e \in dinst'[x].pend : e.d \in Live
      BY <1>6 DEF Wakeups
    <2> QED BY <1>5, <1>7, <1>8, <2>1, <2>2 DEF Wakeups
  <1> QED BY <1>2, <1>3, <1>4, <1>10

(* When the instructions of a bucket are fetched.                          *)
LEMMA OutOfPool ==
  ASSUME NEW n \in Nat, n <= Cardinality(Slots \ Live)
  PROVE  outOfPool(n) \in [1 .. n -> Slots \ Live] /\ IsInjective(outOfPool(n))
  <1> DEFINE F == Slots \ Live
             c == Cardinality(F)
  <1>1. IsFiniteSet(F)
    BY SubsetsFinite
  <1>2. c \in Nat /\ ExistsBijection(1 .. c, F)
    BY <1>1, FS_CardinalityType
  <1>3. PICK f : f \in Bijection(1 .. c, F)
    BY <1>2 DEF ExistsBijection
  <1>4. f \in [1 .. c -> F] /\ IsInjective(f)
    BY <1>3 DEF Bijection, Injection
  <1> DEFINE g == [i \in 1 .. n |-> f[i]]
  <1> HIDE DEF c, F
  <1>5. n <= c
    BY DEF c, F
  <1>6. \A i \in 1 .. n : i \in 1 .. c
    BY <1>2, <1>5
  <1>7. g \in [1 .. n -> F]
    BY <1>4, <1>6
  <1>8. IsInjective(g)
    BY <1>4, <1>6 DEF IsInjective
  <1> HIDE DEF g
  <1>9. \E s \in [1 .. n -> F] : IsInjective(s)
    BY <1>7, <1>8
  <1> QED BY <1>9 DEF outOfPool, F

Fresh(y) == y \in DInst /\ y.st = "fetched" /\ y.deps = {} /\ y.pend = {}
LEMMA FilledStep ==
  ASSUME dinst \in DInsts, Wakeups, NEW n \in Nat, NEW slots \in [1 .. n -> Slots \ Live],
         IsInjective(slots), NEW insts, \A i \in 1 .. n : Fresh(insts[i]),
         dinst' = Fill(slots, insts)
  PROVE  /\ dinst' \in DInsts /\ Drift(Range(slots)) /\ Wakeups'
         /\ \A i \in 1 .. n : dinst'[slots[i]] = insts[i]
         /\ Range(slots) \subseteq Slots \ Live
  <1>1. DOMAIN slots = 1 .. n /\ Range(slots) = {slots[i] : i \in 1 .. n}
    BY DEF Range
  <1>2. Range(slots) \subseteq Slots \ Live
    BY <1>1
  <1>3. ASSUME NEW i \in 1 .. n PROVE dinst'[slots[i]] = insts[i]
    <2>1. slots[i] \in Slots /\ slots[i] \in Range(slots)
      BY <1>1
    <2>2. (CHOOSE j \in DOMAIN slots : slots[j] = slots[i]) = i
      BY <1>1 DEF IsInjective
    <2> QED BY <2>1, <2>2 DEF Fill
  <1>4. ASSUME NEW x \in Slots \ Range(slots) PROVE dinst'[x] = dinst[x]
    BY DEF Fill
  <1>5. ASSUME NEW x \in Range(slots) PROVE Fresh(dinst'[x])
    BY <1>1, <1>3
  <1>6. DOMAIN dinst' = Slots /\ dinst' = [x \in Slots |-> dinst'[x]]
    BY DEF Fill
  <1> HIDE DEF Fill
  <1>7. dinst' \in DInsts
    <2>1. \A x \in Slots : dinst'[x] \in DInst \cup {Free}
      BY <1>4, <1>5 DEF Fresh, DInsts
    <2> QED BY <1>6, <2>1 DEF DInsts
  <1>8. Drift(Range(slots))
    <2>1. \A x \in Slots : dinst[x] = Free \/ dinst[x] \in DInst
      BY DEF DInsts
    <2> QED BY <1>4, <2>1 DEF Drift, Alike
  <1>9. Live' = Live \cup Range(slots)
    <2>1. Free \notin DInst
      BY DEF Free, DInst, Stages
    <2>2. \A x \in Range(slots) : x \in Slots /\ dinst'[x] # Free
      BY <1>2, <1>5, <2>1 DEF Fresh
    <2>3. \A x \in Slots \ Range(slots) : dinst'[x] # Free <=> dinst[x] # Free
      BY <1>4
    <2> QED BY <1>2, <2>2, <2>3 DEF Live
  <1>10. \A x \in Live : x \in Slots \ Range(slots) /\ dinst'[x] = dinst[x]
    BY <1>2, <1>4, PendTypes
  <1>11. \A x \in Live : \A y, n2 : wakes(x, y, n2)' <=> wakes(x, y, n2)
    BY <1>10 DEF wakes
  <1>12. \A x \in Range(slots) : /\ dinst'[x].pend = {} /\ dinst'[x].deps = {}
                                 /\ dinst'[x].st = "fetched"
                                 /\ \A y, n2 : ~wakes(x, y, n2)'
    BY <1>5 DEF Fresh, wakes
  <1>13. \A x \in Live, y \in Range(slots), n2 \in {1, 2} : ~wakes(x, y, n2)
    <2>1. ASSUME NEW x \in Live, NEW y \in Range(slots), NEW n2 \in {1, 2}, wakes(x, y, n2)
          PROVE  FALSE
      <3>1. [d |-> y, src |-> n2].d \in Live
        BY <2>1 DEF Wakeups, wakes
      <3> QED BY <1>2, <3>1
    <2> QED BY <2>1
  <1>14. \A y \in Live', n2 \in {1, 2} :
            n2 \in dinst'[y].deps <=> \E x \in Live' : wakes(x, y, n2)'
    <2>1. ASSUME NEW y \in Live, NEW n2 \in {1, 2}
          PROVE  n2 \in dinst'[y].deps <=> \E x \in Live' : wakes(x, y, n2)'
      BY <1>9, <1>10, <1>11, <1>12 DEF Wakeups
    <2>2. ASSUME NEW y \in Range(slots), NEW n2 \in {1, 2}
          PROVE  ~(n2 \in dinst'[y].deps) /\ ~\E x \in Live' : wakes(x, y, n2)'
      BY <1>9, <1>11, <1>12, <1>13
    <2> QED BY <1>9, <2>1, <2>2
  <1>15. \A y \in Live', n2 \in {1, 2} :
           \A x, z \in Live' : wakes(x, y, n2)' /\ wakes(z, y, n2)' => x = z
    <2>1. ASSUME NEW y \in Live', NEW n2 \in {1, 2}, NEW x \in Live', NEW z \in Live',
                 wakes(x, y, n2)', wakes(z, y, n2)'
          PROVE  x = z
      <3>1. x \in Live /\ z \in Live
        BY <1>9, <1>12, <2>1
      <3>2. wakes(x, y, n2) /\ wakes(z, y, n2)
        BY <1>11, <2>1, <3>1
      <3>3. y \in Live
        BY <1>9, <1>13, <3>1, <3>2
      <3> QED BY <3>1, <3>2, <3>3 DEF Wakeups
    <2> QED BY <2>1
  <1>16. \A x \in Live' : \A e \in dinst'[x].pend : e.d \in Live'
    BY <1>9, <1>10, <1>12 DEF Wakeups
  <1>17. \A x \in Live' : /\ dinst'[x].st = "window" <=> dinst'[x].deps # {}
                          /\ dinst'[x].st = "fetched" => dinst'[x].pend = {}
    BY <1>9, <1>10, <1>12 DEF Wakeups
  <1>18. Wakeups'
    BY <1>14, <1>15, <1>16, <1>17 DEF Wakeups
  <1> QED BY <1>2, <1>3, <1>7, <1>8, <1>18

(* When instructions of a bucket are killed.                               *)
Killed(K) == [d \in Slots |-> IF d \in K THEN Free ELSE dinst[d]]
LEMMA KilledStep ==
  ASSUME dinst \in DInsts, Wakeups, NEW K \in SUBSET Live, \A d \in K : dinst[d].st = "fetched",
         dinst' = Killed(K)
  PROVE  /\ dinst' \in DInsts /\ Drift(K) /\ Wakeups'
         /\ \A d \in K : dinst'[d] = Free
  <1>1. \A d \in K : d \in Slots /\ dinst'[d] = Free
    BY PendTypes DEF Killed
  <1>2. \A x \in Slots \ K : dinst'[x] = dinst[x]
    BY DEF Killed
  <1>3. dinst' \in DInsts
    BY DEF DInsts, Killed
  <1>4. Drift(K)
    <2>1. \A x \in Slots : dinst[x] = Free \/ dinst[x] \in DInst
      BY DEF DInsts
    <2> QED BY <1>2, <2>1 DEF Drift, Alike
  <1>5. Live' = Live \ K
    BY <1>1, <1>2 DEF Live
  <1>6. \A x \in Live \ K : x \in Slots /\ dinst'[x] = dinst[x]
    BY <1>2, PendTypes
  <1>7. \A x \in Live \ K : \A y, n : wakes(x, y, n)' <=> wakes(x, y, n)
    BY <1>6 DEF wakes
  <1>8. \A x \in K : \A y, n : ~wakes(x, y, n)
    BY DEF Wakeups, wakes
  <1>9. \A y \in K : \A x \in Live, n \in {1, 2} : ~wakes(x, y, n)
    BY NotWaiting
  <1>10. \A y \in Live', n \in {1, 2} :
            n \in dinst'[y].deps <=> \E x \in Live' : wakes(x, y, n)'
    <2>1. ASSUME NEW y \in Live \ K, NEW n \in {1, 2}
          PROVE  n \in dinst[y].deps <=> \E x \in Live \ K : wakes(x, y, n)
      BY <1>8 DEF Wakeups
    <2> QED BY <1>5, <1>6, <1>7, <2>1
  <1>11. \A y \in Live', n \in {1, 2} :
           \A x, z \in Live' : wakes(x, y, n)' /\ wakes(z, y, n)' => x = z
    BY <1>5, <1>7 DEF Wakeups
  <1>12. \A x \in Live' : \A e \in dinst'[x].pend : e.d \in Live'
    <2>1. ASSUME NEW x \in Live \ K, NEW e \in dinst[x].pend
          PROVE  e.d \in Live \ K
      <3>1. e.d \in Live /\ wakes(x, e.d, e.src) /\ e.src \in {1, 2}
        BY <2>1, PendTypes DEF Wakeups
      <3> QED BY <1>9, <3>1
    <2> QED BY <1>5, <1>6, <2>1
  <1>13. \A x \in Live' : /\ dinst'[x].st = "window" <=> dinst'[x].deps # {}
                          /\ dinst'[x].st = "fetched" => dinst'[x].pend = {}
    BY <1>5, <1>6 DEF Wakeups
  <1>14. Wakeups'
    BY <1>10, <1>11, <1>12, <1>13 DEF Wakeups
  <1> QED BY <1>1, <1>3, <1>4, <1>14

(* When d is renamed and waits for its sources.                            *)
sources(a, x) == {m \in {1, 2} : a[m] = x}
Sourced(d, a, y) ==
  [x \in Slots |->
     IF x = d THEN y
     ELSE IF x \in {a[1], a[2]}
     THEN [dinst[x] EXCEPT
             !.pend = @ \cup {[d |-> d, src |-> n] : n \in sources(a, x)}]
     ELSE dinst[x]]
LEMMA IssuedStep ==
  ASSUME dinst \in DInsts, Wakeups, NEW d \in Live, dinst[d].st = "fetched",
         NEW a \in [{1, 2} -> Slots \cup {0}],
         \A n \in {1, 2} : a[n] # 0 => a[n] \in Live /\ dinst[a[n]].st # "fetched",
         NEW y \in DInst, y.deps = {n \in {1, 2} : a[n] # 0}, y.pend = {},
         y.st = IF y.deps = {} THEN "selected" ELSE "window",
         dinst' = Sourced(d, a, y)
  PROVE  dinst' \in DInsts /\ Drift({d}) /\ dinst'[d] = y /\ Wakeups'
  <1> DEFINE mine(x) == {[d |-> d, src |-> n] : n \in sources(a, x)}
  <1>0. d \in Slots /\ dinst[d] \in DInst /\ 0 \notin Slots
    BY PendTypes, SlotsAssumption
  <1>1. dinst'[d] = y
    BY <1>0 DEF Sourced
  <1>2. ASSUME NEW x \in Slots \ {d}, x \in {a[1], a[2]}
        PROVE  /\ x \in Live /\ dinst[x].st # "fetched" /\ dinst'[x] \in DInst
               /\ Alike(dinst[x], dinst'[x]) /\ dinst'[x].deps = dinst[x].deps
               /\ dinst'[x].st = dinst[x].st
               /\ dinst'[x].pend = dinst[x].pend \cup mine(x)
    <2>1. x \in Live /\ dinst[x].st # "fetched"
      BY <1>0, <1>2
    <2>2. PICK o, Q : o = dinst[x] /\ Q = dinst[x].pend \cup mine(x)
      OBVIOUS
    <2>3. o \in DInst
      BY <2>1, <2>2, PendTypes
    <2>4. Q \in Pends
      <3>1. o.pend \in SUBSET [d: Slots, src: {1, 2}]
        BY <2>3 DEF DInst, Pends
      <3>2. mine(x) \in SUBSET [d: Slots, src: {1, 2}]
        BY <1>0 DEF sources
      <3> QED BY <2>2, <3>1, <3>2 DEF Pends
    <2>5. dinst'[x] = [o EXCEPT !.pend = Q]
      BY <1>2, <2>2 DEF Sourced
    <2>6. [o EXCEPT !.pend = Q] \in DInst /\ Alike(o, [o EXCEPT !.pend = Q])
      BY <2>3, <2>4 DEF DInst, Alike
    <2>7. /\ [o EXCEPT !.pend = Q].deps = o.deps /\ [o EXCEPT !.pend = Q].st = o.st
          /\ [o EXCEPT !.pend = Q].pend = Q
      BY <2>3 DEF DInst
    <2> QED BY <2>1, <2>2, <2>5, <2>6, <2>7
  <1>3. ASSUME NEW x \in Slots \ {d}, x \notin {a[1], a[2]} PROVE dinst'[x] = dinst[x]
    BY <1>3 DEF Sourced
  <1>4. DOMAIN dinst' = Slots /\ dinst' = [x \in Slots |-> dinst'[x]]
    BY DEF Sourced
  <1>5. ASSUME NEW x \in Slots \ {d}
        PROVE  (dinst[x] = Free /\ dinst'[x] = Free) \/ Alike(dinst[x], dinst'[x])
    <2>1. CASE x \in {a[1], a[2]}
      BY <1>2, <2>1
    <2>2. CASE x \notin {a[1], a[2]} /\ dinst[x] \in DInst
      BY <1>3, <2>2 DEF Alike
    <2>3. dinst[x] \in DInst \/ dinst[x] = Free
      BY DEF DInsts
    <2> QED BY <1>3, <2>1, <2>2, <2>3
  <1>6. Drift({d})
    BY <1>5 DEF Drift
  <1>7. dinst' \in DInsts
    <2>1. \A x \in Slots : dinst'[x] \in DInst \cup {Free}
      BY <1>1, <1>5 DEF Alike
    <2> QED BY <1>4, <2>1 DEF DInsts
  <1>8. Live' = Live
    <2>1. dinst'[d] # Free
      BY <1>1 DEF Free, DInst, Stages
    <2>2. \A x \in Slots \ {d} : (x \in Live)' <=> x \in Live
      BY <1>6, <1>7, Drifted
    <2> QED BY <1>0, <2>1, <2>2 DEF Live
  <1>9. dinst[d].deps = {} /\ \A x \in Live, n \in {1, 2} : ~wakes(x, d, n)
    BY NotWaiting
  <1>10. dinst[d].pend = {}
    BY DEF Wakeups
  <1>11. ASSUME NEW x \in Live, NEW z \in Live, NEW n \in {1, 2}
         PROVE  wakes(x, z, n)' <=> wakes(x, z, n) \/ (z = d /\ a[n] = x)
    <2>0. x \in Slots
      BY PendTypes
    <2>1. CASE x = d
      <3>1. ~wakes(x, z, n) /\ ~wakes(x, z, n)'
        BY <1>1, <1>10, <2>1 DEF wakes
      <3>2. a[n] # d
        <4>1. a[n] = d => a[n] # 0 /\ dinst[a[n]].st = "fetched"
          BY <1>0
        <4> QED BY <4>1
      <3> QED BY <2>1, <3>1, <3>2
    <2>2. CASE x # d /\ x \in {a[1], a[2]}
      <3>1. wakes(x, z, n)' <=> wakes(x, z, n) \/ [d |-> z, src |-> n] \in mine(x)
        BY <1>2, <2>0, <2>2 DEF wakes
      <3>2. [d |-> z, src |-> n] \in mine(x) <=> \E m \in sources(a, x) : [d |-> z, src |-> n] = [d |-> d, src |-> m]
        OBVIOUS
      <3>3. \A m : [d |-> z, src |-> n] = [d |-> d, src |-> m] <=> z = d /\ n = m
        <4>1. \A m : [d |-> z, src |-> n].d = z /\ [d |-> z, src |-> n].src = n
                     /\ [d |-> d, src |-> m].d = d /\ [d |-> d, src |-> m].src = m
          OBVIOUS
        <4> QED BY <4>1
      <3> QED BY <3>1, <3>2, <3>3 DEF sources
    <2>3. CASE x # d /\ x \notin {a[1], a[2]}
      BY <1>3, <2>0, <2>3 DEF wakes
    <2> QED BY <2>1, <2>2, <2>3
  <1>12. ASSUME NEW x \in Live \ {d}
         PROVE  dinst'[x].deps = dinst[x].deps /\ dinst'[x].st = dinst[x].st
    BY <1>2, <1>3, PendTypes
  <1> HIDE DEF mine
  <1>13. ASSUME NEW z \in Live, NEW n \in {1, 2}
         PROVE  /\ n \in dinst'[z].deps <=> \E x \in Live : wakes(x, z, n)'
                /\ \A x, v \in Live : wakes(x, z, n)' /\ wakes(v, z, n)' => x = v
    <2>1. CASE z = d
      <3>1. n \in dinst'[z].deps <=> a[n] # 0
        BY <1>1, <2>1
      <3>2. \A x \in Live : wakes(x, z, n)' <=> a[n] = x
        BY <1>9, <1>11, <2>1
      <3>3. \A x \in Live : x # 0
        BY <1>0, PendTypes
      <3> QED BY <3>1, <3>2, <3>3
    <2>2. CASE z # d
      <3>1. \A x \in Live : wakes(x, z, n)' <=> wakes(x, z, n)
        BY <1>11, <2>2
      <3> QED BY <1>12, <2>2, <3>1 DEF Wakeups
    <2> QED BY <2>1, <2>2
  <1>14. ASSUME NEW x \in Live, NEW e \in dinst'[x].pend PROVE e.d \in Live
    <2>0. x \in Slots
      BY PendTypes
    <2>1. CASE x = d
      BY <1>1, <2>1
    <2>2. CASE x # d /\ x \in {a[1], a[2]}
      <3>1. e \in dinst[x].pend \/ e.d = d
        BY <1>2, <2>0, <2>2 DEF mine
      <3> QED BY <3>1 DEF Wakeups
    <2>3. CASE x # d /\ x \notin {a[1], a[2]}
      BY <1>3, <2>0, <2>3 DEF Wakeups
    <2> QED BY <2>1, <2>2, <2>3
  <1>15. ASSUME NEW x \in Live
         PROVE  /\ dinst'[x].st = "window" <=> dinst'[x].deps # {}
                /\ dinst'[x].st = "fetched" => dinst'[x].pend = {}
    <2>0. x \in Slots
      BY PendTypes
    <2>1. CASE x = d
      BY <1>1, <2>1
    <2>2. CASE x # d /\ x \in {a[1], a[2]}
      BY <1>2, <2>0, <2>2 DEF Wakeups
    <2>3. CASE x # d /\ x \notin {a[1], a[2]}
      BY <1>3, <2>0, <2>3 DEF Wakeups
    <2> QED BY <2>1, <2>2, <2>3
  <1>16. Wakeups'
    BY <1>8, <1>13, <1>14, <1>15 DEF Wakeups
  <1> QED BY <1>1, <1>6, <1>7, <1>16
-----------------------------------------------------------------------------
(***************************************************************************)
(* The parts of the invariant                                              *)
(***************************************************************************)
(* y is the instruction x was.                                             *)
SameInst(x, y) ==
  /\ x \in DInst /\ y \in DInst
  /\ y.proc = x.proc /\ y.pos = x.pos /\ y.inst = x.inst /\ y.fake = x.fake
  /\ y.fetch = x.fetch
(* A step of the instructions, in which those of D may change their stage. *)
Moves(D) ==
  /\ dinst \in DInsts /\ dinst' \in DInsts /\ conf' = conf /\ conf \in Confs
  /\ D \subseteq Slots /\ Drift(D)

LEMMA CountMoved ==
  ASSUME NEW S \in SUBSET Slots, NEW T \in SUBSET Slots, NEW d \in Slots,
         S \ {d} = T \ {d}
  PROVE  /\ Cardinality(T) = Cardinality(S) - One(d \in S) + One(d \in T)
         /\ Cardinality(S) \in Nat /\ Cardinality(T) \in Nat
  <1>1. PICK s, t : s = Cardinality(S) /\ t = Cardinality(T)
    OBVIOUS
  <1>2. /\ d \in S /\ d \notin T => t = s - 1
        /\ d \notin S /\ d \in T => t = s + 1
        /\ (d \in S <=> d \in T) => t = s
        /\ s \in Nat /\ t \in Nat
    BY <1>1, Counted
  <1>3. /\ One(d \in S) = IF d \in S THEN 1 ELSE 0
        /\ One(d \in T) = IF d \in T THEN 1 ELSE 0
    BY DEF One
  <1>4. t = s - One(d \in S) + One(d \in T)
    BY <1>2, <1>3
  <1> QED BY <1>1, <1>2, <1>4

(* What d takes of a resource when it moves.                               *)
Taken(S, T, d, before, after) == after = before + One(d \in S) - One(d \in T)
LEMMA TakenCounts ==
  ASSUME NEW S \in SUBSET Slots, NEW T \in SUBSET Slots, NEW d \in Slots,
         S \ {d} = T \ {d}, NEW max \in Int, NEW before, NEW after,
         before = max - Cardinality(S), Taken(S, T, d, before, after)
  PROVE  after = max - Cardinality(T)
  <1>1. PICK s, t : s = Cardinality(S) /\ t = Cardinality(T)
    OBVIOUS
  <1>2. t = s - One(d \in S) + One(d \in T) /\ s \in Nat /\ t \in Nat
    BY <1>1, CountMoved
  <1>3. One(d \in S) \in Int /\ One(d \in T) \in Int
    BY OneInt
  <1> QED BY <1>1, <1>2, <1>3 DEF Taken

ResourcesTaken(q, d) ==
  /\ Taken(loads(q), loads(q)', d, cpu[q].freeLoads, cpu'[q].freeLoads)
  /\ Taken(storesOf(q), storesOf(q)', d, cpu[q].freeStores, cpu'[q].freeStores)
  /\ Taken(branches(q), branches(q)', d, cpu[q].freeBranches, cpu'[q].freeBranches)
  /\ Taken(renamed(q), renamed(q)', d, cpu[q].regPool, cpu'[q].regPool)
LEMMA ResourcesMoved ==
  ASSUME NEW d \in Slots, Moves({d}), Resources, \A q \in Procs : ResourcesTaken(q, d)
  PROVE  Resources'
  <1> SUFFICES ASSUME NEW q \in Procs
               PROVE  /\ cpu'[q].freeLoads = MaxLoads - Cardinality(loads(q)')
                      /\ cpu'[q].freeStores = MaxStores - Cardinality(storesOf(q)')
                      /\ cpu'[q].freeBranches = MaxBranches - Cardinality(branches(q)')
                      /\ cpu'[q].regPool = MaxRegs - Cardinality(renamed(q)')
    BY DEF Resources
  <1>1. {MaxLoads, MaxStores, MaxBranches, MaxRegs} \subseteq Int
    BY SizeAssumption
  <1>2. /\ loads(q) \ {d} = loads(q)' \ {d} /\ storesOf(q) \ {d} = storesOf(q)' \ {d}
        /\ branches(q) \ {d} = branches(q)' \ {d} /\ renamed(q) \ {d} = renamed(q)' \ {d}
        /\ {loads(q), loads(q)', storesOf(q), storesOf(q)', branches(q), branches(q)',
            renamed(q), renamed(q)'} \subseteq SUBSET Slots
    <2>1. {loads(q), loads(q)', storesOf(q), storesOf(q)', branches(q), branches(q)',
            renamed(q), renamed(q)'} \subseteq SUBSET Slots
      BY DEF loads, storesOf, branches, renamed, InStage
    <2>2. \A x \in Slots \ {d} :
            /\ x \in loads(q)' <=> x \in loads(q)
            /\ x \in storesOf(q)' <=> x \in storesOf(q)
            /\ x \in branches(q)' <=> x \in branches(q)
            /\ x \in renamed(q)' <=> x \in renamed(q)
      BY DriftedSets DEF Moves
    <2> QED BY <2>1, <2>2
  <1>3. /\ cpu[q].freeLoads = MaxLoads - Cardinality(loads(q))
        /\ cpu[q].freeStores = MaxStores - Cardinality(storesOf(q))
        /\ cpu[q].freeBranches = MaxBranches - Cardinality(branches(q))
        /\ cpu[q].regPool = MaxRegs - Cardinality(renamed(q))
    BY DEF Resources
  <1>4. ResourcesTaken(q, d)
    OBVIOUS
  <1>5. cpu'[q].freeLoads = MaxLoads - Cardinality(loads(q)')
    BY <1>1, <1>2, <1>3, <1>4, TakenCounts DEF ResourcesTaken
  <1>6. cpu'[q].freeStores = MaxStores - Cardinality(storesOf(q)')
    BY <1>1, <1>2, <1>3, <1>4, TakenCounts DEF ResourcesTaken
  <1>7. cpu'[q].freeBranches = MaxBranches - Cardinality(branches(q)')
    BY <1>1, <1>2, <1>3, <1>4, TakenCounts DEF ResourcesTaken
  <1>8. cpu'[q].regPool = MaxRegs - Cardinality(renamed(q)')
    BY <1>1, <1>2, <1>3, <1>4, TakenCounts DEF ResourcesTaken
  <1> QED BY <1>5, <1>6, <1>7, <1>8

LEMMA WindowMoved ==
  ASSUME NEW d \in Slots, Moves({d}), Window,
         \A q \in Procs :
           Taken(windowed(q), windowed(q)', d, cpu[q].windowSize, cpu'[q].windowSize)
  PROVE  Window'
  <1> SUFFICES ASSUME NEW q \in Procs
               PROVE  cpu'[q].windowSize = WinSize - Cardinality(windowed(q)')
    BY DEF Window
  <1>1. WinSize \in Int
    BY SizeAssumption
  <1>2. windowed(q) \in SUBSET Slots /\ windowed(q)' \in SUBSET Slots
    BY DEF windowed, InStage
  <1>3. windowed(q) \ {d} = windowed(q)' \ {d}
    BY <1>2, DriftedSets DEF Moves
  <1>4. cpu[q].windowSize = WinSize - Cardinality(windowed(q))
    BY DEF Window
  <1> QED BY <1>1, <1>2, <1>3, <1>4, TakenCounts

(* What is fetched, or killed on its way, counts nowhere.                  *)
LEMMA CountsKept ==
  ASSUME NEW D, Moves(D), cpu' = cpu,
         \A d \in D : dinst[d].st \in {"fetched", "free"} /\ dinst'[d].st \in {"fetched", "free"}
  PROVE  /\ Resources => Resources'
         /\ Window => Window'
         /\ \A q \in Procs : outstanding(q)' = outstanding(q)
  <1>1. ASSUME NEW q \in Procs, NEW d \in D
        PROVE  /\ d \notin loads(q) \cup storesOf(q) \cup branches(q) \cup renamed(q)
               /\ d \notin outstanding(q) \cup windowed(q)
               /\ d \notin loads(q)' \cup storesOf(q)' \cup branches(q)' \cup renamed(q)'
               /\ d \notin outstanding(q)' \cup windowed(q)'
    <2>1. \A S : S \cap {"fetched", "free"} = {} => d \notin InStage(q, S) /\ d \notin InStage(q, S)'
      BY DEF InStage
    <2>2. /\ inROB \cap {"fetched", "free"} = {} /\ (inROB \ {"executed"}) \cap {"fetched", "free"} = {}
          /\ {"memory"} \cap {"fetched", "free"} = {}
      BY DEF inROB
    <2>3. holdsEntry[conf.recycleAt] \cap {"fetched", "free"} = {} /\ conf' = conf
      <3>1. conf.recycleAt \in {"Issue", "Execute", "Retire"} /\ conf' = conf
        BY ProgramsAssumption DEF Moves
      <3>2. \A at \in {"Issue", "Execute", "Retire"} : holdsEntry[at] \cap {"fetched", "free"} = {}
        BY DEF holdsEntry
      <3> QED BY <3>1, <3>2
    <2> QED BY <2>1, <2>2, <2>3 DEF loads, storesOf, branches, renamed, outstanding, windowed
  <1>2. ASSUME NEW q \in Procs
        PROVE  /\ loads(q)' = loads(q) /\ storesOf(q)' = storesOf(q)
               /\ branches(q)' = branches(q) /\ renamed(q)' = renamed(q)
               /\ outstanding(q)' = outstanding(q) /\ windowed(q)' = windowed(q)
    <2>1. \A x \in Slots \ D :
            /\ x \in loads(q)' <=> x \in loads(q)
            /\ x \in storesOf(q)' <=> x \in storesOf(q)
            /\ x \in branches(q)' <=> x \in branches(q)
            /\ x \in renamed(q)' <=> x \in renamed(q)
            /\ x \in outstanding(q)' <=> x \in outstanding(q)
            /\ x \in windowed(q)' <=> x \in windowed(q)
      BY DriftedSets DEF Moves
    <2>2. {loads(q), loads(q)', storesOf(q), storesOf(q)', branches(q), branches(q)',
           renamed(q), renamed(q)', outstanding(q), outstanding(q)', windowed(q),
           windowed(q)'} \subseteq SUBSET Slots
      BY DEF loads, storesOf, branches, renamed, outstanding, windowed, InStage
    <2>3. \A x \in D : /\ x \notin loads(q) \cup storesOf(q) \cup branches(q) \cup renamed(q)
                       /\ x \notin outstanding(q) \cup windowed(q)
                       /\ x \notin loads(q)' \cup storesOf(q)' \cup branches(q)' \cup renamed(q)'
                       /\ x \notin outstanding(q)' \cup windowed(q)'
      BY <1>1
    <2> QED BY <2>1, <2>2, <2>3
  <1> QED BY <1>2 DEF Resources, Window
(* The fences.                                                             *)
FencedOf(q) ==
  LET c == cpu[q]
  IN  /\ c.nOutsStores = Cardinality(outstanding(q))
      /\ c.pendingFence => c.nOutsStores > 0
      /\ ~c.pendingFence => \A d \in outstanding(q) : dinst[d].epoch = c.epoch
      /\ \A d, e \in outstanding(q) : dinst[d].epoch = dinst[e].epoch
LEMMA FencedIs ==
  /\ (dinst \in DInsts => (Fenced <=> \A q \in Procs : FencedOf(q)))
  /\ (dinst' \in DInsts => (Fenced' <=> \A q \in Procs : FencedOf(q)'))
  <1>1. ASSUME dinst \in DInsts
        PROVE  FenceOrder <=> \A q \in Procs : \A d, e \in outstanding(q) : dinst[d].epoch = dinst[e].epoch
    <2>1. \A q \in Procs : \A d : d \in outstanding(q) <=> d \in Live /\ dinst[d].st = "memory" /\ dinst[d].proc = q
      BY DEF outstanding, InStage, Live, Free
    <2>2. \A d \in Live : dinst[d].proc \in Procs
      BY <1>1, Lives DEF DInst, Live
    <2> QED BY <2>1, <2>2 DEF FenceOrder
  <1>2. ASSUME dinst' \in DInsts
        PROVE  FenceOrder' <=> \A q \in Procs : \A d, e \in outstanding(q)' : dinst'[d].epoch = dinst'[e].epoch
    <2>1. \A q \in Procs : \A d : d \in outstanding(q)' <=> d \in Live' /\ dinst'[d].st = "memory" /\ dinst'[d].proc = q
      BY DEF outstanding, InStage, Live, Free
    <2>2. \A d \in Live' : dinst'[d].proc \in Procs
      BY <1>2 DEF DInst, Live, DInsts
    <2> QED BY <2>1, <2>2 DEF FenceOrder
  <1>3. dinst \in DInsts => (Fenced <=> \A q \in Procs : FencedOf(q))
    BY <1>1 DEF Fenced, FencedOf
  <1>4. dinst' \in DInsts => (Fenced' <=> \A q \in Procs : FencedOf(q)')
    BY <1>2 DEF Fenced, FencedOf
  <1> QED BY <1>3, <1>4

(* One of the stores on their way is sent or answered, or a fence waits.   *)
LEMMA FencedMoved ==
  ASSUME NEW d \in Slots, Moves({d}), NEW q \in Procs, FencedOf(q),
         Taken(outstanding(q)', outstanding(q), d, cpu[q].nOutsStores, cpu'[q].nOutsStores),
         d \in outstanding(q)' => /\ dinst'[d].epoch = cpu[q].epoch
                                  /\ ~cpu[q].pendingFence /\ ~cpu'[q].pendingFence,
         cpu'[q].pendingFence => cpu'[q].nOutsStores > 0,
         ~cpu'[q].pendingFence =>
           (~cpu[q].pendingFence /\ cpu'[q].epoch = cpu[q].epoch) \/ cpu'[q].nOutsStores = 0
  PROVE  FencedOf(q)'
  <1>1. outstanding(q) \in SUBSET Slots /\ outstanding(q)' \in SUBSET Slots
    BY DEF outstanding, InStage
  <1>2. \A x \in Slots \ {d} : x \in outstanding(q)' <=> x \in outstanding(q)
    BY DriftedSets DEF Moves
  <1>3. outstanding(q) \ {d} = outstanding(q)' \ {d}
    BY <1>1, <1>2
  <1>4. cpu'[q].nOutsStores = Cardinality(outstanding(q)')
    <2>1. PICK s, t : s = Cardinality(outstanding(q)) /\ t = Cardinality(outstanding(q)')
      OBVIOUS
    <2>2. t = s - One(d \in outstanding(q)) + One(d \in outstanding(q)') /\ s \in Nat /\ t \in Nat
      BY <1>1, <1>3, <2>1, CountMoved
    <2>3. cpu[q].nOutsStores = s
      BY <2>1 DEF FencedOf
    <2>4. One(d \in outstanding(q)) \in Int /\ One(d \in outstanding(q)') \in Int
      BY OneInt
    <2> QED BY <2>1, <2>2, <2>3, <2>4 DEF Taken
  <1>5. ASSUME NEW x \in outstanding(q)', x # d
        PROVE  x \in outstanding(q) /\ dinst'[x].epoch = dinst[x].epoch
    <2>1. x \in Slots \ {d} /\ x \in outstanding(q)
      BY <1>1, <1>2, <1>5
    <2>2. x \in Live
      BY <2>1 DEF outstanding, InStage, Live, Free
    <2>3. Alike(dinst[x], dinst'[x])
      BY <2>1, <2>2, Drifted DEF Moves
    <2> QED BY <2>1, <2>3 DEF Alike
  <1>6. ASSUME ~cpu'[q].pendingFence, NEW x \in outstanding(q)'
        PROVE  dinst'[x].epoch = cpu'[q].epoch
    <2>1. CASE cpu'[q].nOutsStores = 0
      <3>1. IsFiniteSet(outstanding(q)')
        BY <1>1, SubsetsFinite
      <3>2. outstanding(q)' = {}
        BY <1>4, <2>1, <3>1, FS_EmptySet
      <3> QED BY <3>2
    <2>2. CASE ~cpu[q].pendingFence /\ cpu'[q].epoch = cpu[q].epoch
      <3>1. x = d => dinst'[x].epoch = cpu[q].epoch
        BY <1>6
      <3>2. x # d => dinst'[x].epoch = cpu[q].epoch
        BY <1>5, <2>2 DEF FencedOf
      <3> QED BY <2>2, <3>1, <3>2
    <2> QED BY <1>6, <2>1, <2>2
  <1>7. ASSUME NEW x \in outstanding(q)', NEW y \in outstanding(q)'
        PROVE  dinst'[x].epoch = dinst'[y].epoch
    <2>1. CASE d \in outstanding(q)'
      BY <1>6, <2>1
    <2>2. CASE d \notin outstanding(q)'
      <3>1. x # d /\ y # d
        BY <2>2
      <3> QED BY <1>5, <3>1 DEF FencedOf
    <2> QED BY <2>1, <2>2
  <1> QED BY <1>4, <1>6, <1>7 DEF FencedOf

(* Nothing is sent or answered.                                            *)
LEMMA FencedKept ==
  ASSUME NEW D, Moves(D), Fenced, \A q \in Procs : outstanding(q)' = outstanding(q),
         \A d \in D : dinst'[d].st # "memory",
         \A q \in Procs : /\ cpu'[q].nOutsStores = cpu[q].nOutsStores
                          /\ cpu'[q].pendingFence = cpu[q].pendingFence
                          /\ cpu'[q].epoch = cpu[q].epoch
  PROVE  Fenced'
  <1> SUFFICES ASSUME NEW q \in Procs PROVE FencedOf(q)'
    BY FencedIs DEF Moves
  <1>1. FencedOf(q)
    BY FencedIs DEF Moves
  <1>2. \A x \in outstanding(q) : dinst'[x].epoch = dinst[x].epoch
    <2> SUFFICES ASSUME NEW x \in outstanding(q) PROVE dinst'[x].epoch = dinst[x].epoch
      OBVIOUS
    <2>1. x \in Live /\ x \in Slots /\ dinst'[x].st = "memory"
      <3>1. x \in outstanding(q)'
        OBVIOUS
      <3> QED BY <3>1 DEF outstanding, InStage, Live, Free
    <2>2. x \notin D
      BY <2>1
    <2>3. Alike(dinst[x], dinst'[x])
      BY <2>1, <2>2, Drifted DEF Moves
    <2> QED BY <2>3 DEF Alike
  <1> QED BY <1>1, <1>2 DEF FencedOf

(* The instructions, the registers and the stores.                         *)
LEMMA OriginsKept ==
  ASSUME NEW D, Moves(D), Origins,
         \A d \in D : \/ dinst'[d] = Free
                      \/ SameInst(dinst[d], dinst'[d])
                      \/ OriginOf(d)'
  PROVE  Origins'
  <1> SUFFICES ASSUME NEW d \in Slots, dinst'[d] # Free PROVE OriginOf(d)'
    BY DEF Origins, Live
  <1>1. CASE d \in Live /\ /\ dinst'[d].inst = dinst[d].inst /\ dinst'[d].fake = dinst[d].fake
                           /\ dinst'[d].fetch = dinst[d].fetch /\ dinst'[d].proc = dinst[d].proc
    <2>1. OriginOf(d) /\ conf' = conf
      BY <1>1 DEF Origins, Moves
    <2> QED BY <1>1, <2>1 DEF OriginOf, Fake, Op, Program
  <1>2. CASE d \notin D
    <2>1. d \in Live' /\ dinst \in DInsts /\ dinst' \in DInsts /\ Drift(D)
      BY DEF Live, Moves
    <2>2. d \in Live /\ Alike(dinst[d], dinst'[d])
      BY <1>2, <2>1, Drifted
    <2> QED BY <1>1, <2>2 DEF Alike
  <1>3. CASE SameInst(dinst[d], dinst'[d])
    <2>1. d \in Live
      BY <1>3 DEF SameInst, Live, Free, DInst, Stages
    <2> QED BY <1>1, <1>3, <2>1 DEF SameInst
  <1> QED BY <1>2, <1>3

RenamedNext(q, r, x, D) ==
  \/ x = 0
  \/ x = cpu[q].rat[r] /\ x \notin D
  \/ x \in InStage(q, inROB \ {"executed"})' /\ dinst'[x].inst.dest = r
LEMMA RenamingKept ==
  ASSUME NEW D, Moves(D), Renaming,
         \A q \in Procs : \A r \in Regs \cup {NoDependence} :
           RenamedNext(q, r, cpu'[q].rat[r], D)
  PROVE  Renaming'
  <1> SUFFICES ASSUME NEW q \in Procs, NEW r \in Regs \cup {NoDependence}
               PROVE  RenamedAs(q, r, cpu[q].rat[r])'
    BY DEF Renaming
  <1>0. PICK x : x = cpu'[q].rat[r]
    OBVIOUS
  <1> SUFFICES ASSUME x # 0
               PROVE  x \in InStage(q, inROB \ {"executed"})' /\ dinst'[x].inst.dest = r
    BY <1>0 DEF RenamedAs
  <1>1. CASE x = cpu[q].rat[r] /\ x \notin D
    <2>1. x \in InStage(q, inROB \ {"executed"}) /\ dinst[x].inst.dest = r
      BY <1>1 DEF Renaming, RenamedAs
    <2>2. x \in Slots \ D /\ x \in Live
      BY <1>1, <2>1 DEF InStage, Live, Free, inROB
    <2>3. Alike(dinst[x], dinst'[x])
      BY <2>2, Drifted DEF Moves
    <2>4. x \in InStage(q, inROB \ {"executed"})'
      <3>1. Closed(inROB \ {"executed"}) /\ inROB \ {"executed"} \in SUBSET Stages
        BY ClosedStages DEF Closed
      <3> QED BY <2>1, <2>2, <3>1, Drifted DEF Moves
    <2> QED BY <2>1, <2>3, <2>4 DEF Alike
  <1>2. RenamedNext(q, r, x, D)
    BY <1>0
  <1> QED BY <1>1, <1>2 DEF RenamedNext

BufferedNext(w, x, D) ==
  \/ x = 0
  \/ x = stores[w] /\ x \notin D
  \/ /\ dinst'[x] \in DInst /\ dinst'[x].st \in inROB
     /\ dinst'[x].inst.op = "store" /\ dinst'[x].inst.word = w
LEMMA BufferedKept ==
  ASSUME NEW D, Moves(D), Buffered, stores \in [Words \cup {NoWord} -> Slots \cup {0}],
         stores' \in [Words \cup {NoWord} -> Slots \cup {0}],
         \A w \in Words \cup {NoWord} : BufferedNext(w, stores'[w], D)
  PROVE  Buffered'
  <1> SUFFICES ASSUME NEW w \in Words \cup {NoWord} PROVE BufferedAs(w, stores[w])'
    BY DEF Buffered
  <1> SUFFICES ASSUME NEW x, x = stores'[w], x # 0
               PROVE  /\ x \in Live' /\ dinst'[x].st \in inROB
                      /\ Op(x)' = "store" /\ dinst'[x].inst.word = w
    BY DEF BufferedAs
  <1>0. x \in Slots
    OBVIOUS
  <1>1. CASE x = stores[w] /\ x \notin D
    <2>1. x \in Live /\ dinst[x].st \in inROB /\ Op(x) = "store" /\ dinst[x].inst.word = w
      <3>1. BufferedAs(w, stores[w])
        BY DEF Buffered
      <3> QED BY <1>1, <3>1 DEF BufferedAs
    <2>2. x \in Slots \ D
      BY <1>0, <1>1
    <2>3. Alike(dinst[x], dinst'[x]) /\ (x \in Live)'
      BY <2>1, <2>2, Drifted DEF Moves
    <2> QED BY <2>1, <2>3 DEF Alike, inROB, Op
  <1>2. CASE /\ dinst'[x] \in DInst /\ dinst'[x].st \in inROB
             /\ dinst'[x].inst.op = "store" /\ dinst'[x].inst.word = w
    BY <1>0, <1>2 DEF Op, Live, Free, DInst, Stages
  <1>3. BufferedNext(w, x, D)
    OBVIOUS
  <1> QED BY <1>1, <1>2, <1>3 DEF BufferedNext
-----------------------------------------------------------------------------
(***************************************************************************)
(* Places                                                                  *)
(***************************************************************************)
LEMMA BeforeIs ==
  ASSUME NEW p \in Procs, NEW d, NEW e
  PROVE  /\ Before(p, d, e) <=>
              \/ Follows(cpu[p].rob, d, e)
              \/ d \in robOf(p) /\ e \in queueOf(p) \cup inPipe(p)
              \/ Precedes(fe[p].instQueue, d, e)
              \/ d \in queueOf(p) /\ e \in inPipe(p)
              \/ PipeBefore(fe[p].pipe, d, e)
         /\ Before(p, d, e)' <=>
              \/ Follows(cpu'[p].rob, d, e)
              \/ d \in robOf(p)' /\ e \in queueOf(p)' \cup inPipe(p)'
              \/ Precedes(fe'[p].instQueue, d, e)
              \/ d \in queueOf(p)' /\ e \in inPipe(p)'
              \/ PipeBefore(fe'[p].pipe, d, e)
         /\ inPipe(p) = PipeItems(fe[p].pipe)
         /\ inPipe(p)' = PipeItems(fe'[p].pipe)
         /\ robOf(p) = Range(cpu[p].rob) /\ robOf(p)' = Range(cpu'[p].rob)
         /\ queueOf(p) = Items(fe[p].instQueue) /\ queueOf(p)' = Items(fe'[p].instQueue)
  BY DEF Before, PipeBefore, inPipe, bufferOf, orderOf, robOf, queueOf, PipeItems

SamePlaces(p) ==
  /\ robOf(p)' = robOf(p) /\ queueOf(p)' = queueOf(p) /\ inPipe(p)' = inPipe(p)
  /\ \A d, e : Before(p, d, e)' <=> Before(p, d, e)
LEMMA SamePlacesFrom ==
  ASSUME NEW p \in Procs, cpu'[p].rob = cpu[p].rob, fe'[p].instQueue = fe[p].instQueue,
         PipeItems(fe'[p].pipe) = PipeItems(fe[p].pipe),
         \A d, e : PipeBefore(fe'[p].pipe, d, e) <=> PipeBefore(fe[p].pipe, d, e)
  PROVE  SamePlaces(p)
  <1>1. robOf(p)' = robOf(p) /\ queueOf(p)' = queueOf(p) /\ inPipe(p)' = inPipe(p)
    BY BeforeIs
  <1>2. ASSUME NEW d, NEW e PROVE Before(p, d, e)' <=> Before(p, d, e)
    BY <1>1, BeforeIs
  <1> QED BY <1>1, <1>2 DEF SamePlaces

(* Instructions of the places, and their order, are at most taken away;    *)
(* the clean mark does not count.                                          *)
NoNewPlaces(p) ==
  /\ robOf(p)' = robOf(p)
  /\ (queueOf(p) \cup inPipe(p))' \ {0} = (queueOf(p) \cup inPipe(p)) \ {0}
  /\ \A d, e \in Slots : Before(p, d, e)' => Before(p, d, e)
PlacedAt(p) ==
  /\ robOf(p) = InStage(p, inROB)
  /\ (queueOf(p) \cup inPipe(p)) \ {0} = InStage(p, {"fetched"})
  /\ \A d \in Slots : ~Before(p, d, d)
SequentialAt(p) ==
  /\ \A d, e \in Real(p) : Before(p, d, e) => dinst[d].pos < dinst[e].pos
  /\ {dinst[d].pos : d \in Real(p)} = cpu[p].retired + 1 .. fe[p].pc - 1
  /\ cpu[p].retired < fe[p].pc
LEMMA PlacedIs ==
  /\ Placed <=> \A p \in Procs : PlacedAt(p)
  /\ Placed' <=> \A p \in Procs : PlacedAt(p)'
  /\ Sequential <=> \A p \in Procs : SequentialAt(p)
  /\ Sequential' <=> \A p \in Procs : SequentialAt(p)'
  <1>1. ASSUME NEW p
        PROVE  /\ queueOf(p) \cup bufferOf(p) \cup orderOf(p) = queueOf(p) \cup inPipe(p)
               /\ (queueOf(p) \cup bufferOf(p) \cup orderOf(p))' = (queueOf(p) \cup inPipe(p))'
    BY DEF inPipe
  <1> QED BY <1>1 DEF Placed, PlacedAt, Sequential, SequentialAt

(* d stays in the ROB, or is in no place before and after.                 *)
Unmoved(d) ==
  \/ /\ SameInst(dinst[d], dinst'[d]) /\ dinst[d].st \in inROB /\ dinst'[d].st \in inROB
  \/ {dinst[d].st, dinst'[d].st} \cap (inROB \cup {"fetched"}) = {}

LEMMA StagesKept ==
  ASSUME NEW D, Moves(D), \A d \in D : Unmoved(d), NEW p \in Procs
  PROVE  /\ InStage(p, inROB)' = InStage(p, inROB)
         /\ InStage(p, {"fetched"})' = InStage(p, {"fetched"})
         /\ Real(p)' = Real(p)
         /\ \A d \in Real(p) : dinst'[d].pos = dinst[d].pos
  <1>1. ASSUME NEW x \in Slots
        PROVE  /\ x \in InStage(p, inROB)' <=> x \in InStage(p, inROB)
               /\ x \in InStage(p, {"fetched"})' <=> x \in InStage(p, {"fetched"})
               /\ x \in Real(p)' <=> x \in Real(p)
               /\ x \in Real(p) => dinst'[x].pos = dinst[x].pos
    <2>1. CASE x \in D
      <3>1. "fetched" \notin inROB
        BY DEF inROB
      <3> QED BY <2>1, <3>1 DEF Unmoved, SameInst, InStage, Real
    <2>2. CASE x \notin D
      <3>1. /\ Closed(inROB) /\ inROB \in SUBSET Stages
            /\ Closed({"fetched"}) /\ {"fetched"} \in SUBSET Stages
        BY ClosedStages DEF Closed
      <3>2. /\ x \in InStage(p, inROB)' <=> x \in InStage(p, inROB)
            /\ x \in InStage(p, {"fetched"})' <=> x \in InStage(p, {"fetched"})
        BY <2>2, <3>1, Drifted DEF Moves
      <3>3. x \in Real(p)' <=> x \in Real(p)
        BY <2>2, DriftedSets DEF Moves
      <3>4. ASSUME x \in Real(p) PROVE dinst'[x].pos = dinst[x].pos
        <4>1. x \in Live
          BY <3>4 DEF Real, InStage, Live, Free, inROB
        <4>2. Alike(dinst[x], dinst'[x])
          BY <2>2, <4>1, Drifted DEF Moves
        <4> QED BY <4>2 DEF Alike
      <3> QED BY <3>2, <3>3, <3>4
    <2> QED BY <2>1, <2>2
  <1>2. /\ {InStage(p, inROB), InStage(p, inROB)', InStage(p, {"fetched"}),
            InStage(p, {"fetched"})', Real(p), Real(p)'} \subseteq SUBSET Slots
    BY DEF InStage, Real
  <1> QED BY <1>1, <1>2

LEMMA SequentialKept ==
  ASSUME Sequential, NEW p \in Procs, Real(p)' = Real(p), Real(p) \subseteq Slots,
         \A d \in Real(p) : dinst'[d].pos = dinst[d].pos,
         \A d, e \in Slots : Before(p, d, e)' => Before(p, d, e),
         cpu'[p].retired = cpu[p].retired, fe'[p].pc = fe[p].pc
  PROVE  SequentialAt(p)'
  <1>1. SequentialAt(p)
    BY PlacedIs
  <1>2. ASSUME NEW d \in Real(p)', NEW e \in Real(p)', Before(p, d, e)'
        PROVE  dinst'[d].pos < dinst'[e].pos
    <2>1. d \in Real(p) /\ e \in Real(p) /\ d \in Slots /\ e \in Slots
      OBVIOUS
    <2>2. Before(p, d, e)
      BY <1>2, <2>1
    <2> QED BY <1>1, <2>1, <2>2 DEF SequentialAt
  <1>3. {dinst'[d].pos : d \in Real(p)'} = {dinst[d].pos : d \in Real(p)}
    OBVIOUS
  <1> QED BY <1>1, <1>2, <1>3 DEF SequentialAt

LEMMA AtRest ==
  ASSUME NEW D, Moves(D), \A d \in D : Unmoved(d), Placed, Sequential,
         \A p \in Procs : NoNewPlaces(p),
         \A p \in Procs : cpu'[p].retired = cpu[p].retired /\ fe'[p].pc = fe[p].pc
  PROVE  Placed' /\ Sequential'
  <1>1. ASSUME NEW p \in Procs PROVE PlacedAt(p)' /\ SequentialAt(p)'
    <2>1. PlacedAt(p)
      BY PlacedIs
    <2>2. PlacedAt(p)'
      BY <2>1, StagesKept DEF PlacedAt, NoNewPlaces
    <2>3. SequentialAt(p)'
      <3>1. Real(p) \subseteq Slots
        BY DEF Real, InStage
      <3>2. \A d, e \in Slots : Before(p, d, e)' => Before(p, d, e)
        BY DEF NoNewPlaces
      <3> QED BY <3>1, <3>2, StagesKept, SequentialKept
    <2> QED BY <2>2, <2>3
  <1> QED BY <1>1, PlacedIs

(* The marks of p stay, and so do the branches that block its fetch.       *)
MarkedAt(p) ==
  /\ ~Before(p, 0, 0)
  /\ fe[p].pipe.nCleanMarks = One(0 \in inPipe(p))
  /\ \A d \in Blocking(p) :
       /\ fe[p].missInstID /\ ~fe[p].btac /\ ~Before(p, d, 0)
       /\ Blocking(p) = {d}
LEMMA MarkedIs ==
  /\ Marked <=> \A p \in Procs : MarkedAt(p)
  /\ Marked' <=> \A p \in Procs : MarkedAt(p)'
  BY DEF Marked, MarkedAt, inPipe
LEMMA MarkedKept ==
  ASSUME NEW p \in Procs, MarkedAt(p), Blocking(p)' \subseteq Blocking(p),
         \/ Blocking(p)' = {}
         \/ fe'[p].missInstID = fe[p].missInstID /\ fe'[p].btac = fe[p].btac,
         \A d, e \in Slots \cup {0} : Before(p, d, e)' => Before(p, d, e),
         Blocking(p) \subseteq Slots,
         fe'[p].pipe.nCleanMarks = fe[p].pipe.nCleanMarks,
         0 \in inPipe(p)' <=> 0 \in inPipe(p)
  PROVE  MarkedAt(p)'
  <1>1. ~Before(p, 0, 0)'
    BY DEF MarkedAt
  <1>2. fe'[p].pipe.nCleanMarks = One(0 \in inPipe(p)')
    BY DEF MarkedAt, One
  <1>3. ASSUME NEW d \in Blocking(p)'
        PROVE  /\ fe'[p].missInstID /\ ~fe'[p].btac /\ ~Before(p, d, 0)'
               /\ Blocking(p)' = {d}
    <2>1. d \in Blocking(p) /\ d \in Slots
      OBVIOUS
    <2>2. ~Before(p, d, 0)'
      BY <2>1 DEF MarkedAt
    <2>3. Blocking(p) = {d} /\ fe[p].missInstID /\ ~fe[p].btac
      BY <2>1 DEF MarkedAt
    <2> QED BY <2>2, <2>3
  <1> QED BY <1>1, <1>2, <1>3 DEF MarkedAt
-----------------------------------------------------------------------------
(***************************************************************************)
(* Steps                                                                   *)
(***************************************************************************)
LEMMA CoreTypes ==
  ASSUME NEW c \in Core
  PROVE  /\ c.rob \in Seq(Slots) /\ c.rob \in Seq(Nat) /\ c.retired \in Nat /\ c.epoch \in Nat
         /\ c.rat \in [AllRegs -> Slots \cup {0}] /\ c.windowSize \in Int
         /\ c.freeLoads \in Int /\ c.freeStores \in Int /\ c.freeBranches \in Int
         /\ c.regPool \in Int /\ c.pendingFence \in BOOLEAN /\ c.nOutsStores \in Int
  <1>1. c.rob \in Robs /\ c.rat \in Rats
    BY DEF Core
  <1>2. c.rob \in Seq(Slots) /\ c.rat \in [AllRegs -> Slots \cup {0}]
    BY <1>1 DEF Robs, Rats
  <1>3. c.rob \in Seq(Nat)
    BY <1>2, BucketsNested
  <1>4. /\ c.retired \in Nat /\ c.epoch \in Nat /\ c.windowSize \in Int
        /\ c.freeLoads \in Int /\ c.freeStores \in Int /\ c.freeBranches \in Int
        /\ c.regPool \in Int /\ c.pendingFence \in BOOLEAN /\ c.nOutsStores \in Int
    BY DEF Core
  <1> QED BY <1>2, <1>3, <1>4

(* When nothing of it changes hands.                                       *)
LEMMA NothingTaken ==
  ASSUME NEW S, NEW T, NEW d, d \in S <=> d \in T, NEW before \in Int
  PROVE  Taken(S, T, d, before, before)
  <1>1. One(d \in S) = One(d \in T) /\ One(d \in S) \in Int
    BY DEF One
  <1> QED BY <1>1 DEF Taken

(* An instruction goes on in the ROB.                                      *)
Advanced(c, e) ==
  /\ e \in Core /\ e.rob = c.rob /\ e.retired = c.retired /\ e.epoch = c.epoch
  /\ e.freeLoads = c.freeLoads /\ e.freeStores = c.freeStores
  /\ e.regPool = c.regPool
  /\ e.pendingFence = c.pendingFence /\ e.nOutsStores = c.nOutsStores
LEMMA AdvancedStep ==
  ASSUME IInv, NEW d \in Slots, Moves({d}),
         dinst[d].st \in {"selected", "port", "cache", "unit"},
         SameInst(dinst[d], dinst'[d]),
         dinst'[d].st \in {"port", "cache", "unit", "executed"},
         NEW p \in Procs, p = dinst[d].proc,
         \A q \in Procs \ {p} : cpu'[q] = cpu[q], Advanced(cpu[p], cpu'[p]),
         cpu'[p].freeBranches =
           cpu[p].freeBranches + One(Op(d) = "branch" /\ dinst'[d].st = "executed"),
         \A r \in Regs \cup {NoDependence} :
           /\ cpu'[p].rat[r] \in {0, cpu[p].rat[r]}
           /\ dinst'[d].st = "executed" => cpu'[p].rat[r] # d,
         \A q \in Procs : NoNewPlaces(q) /\ fe'[q].pc = fe[q].pc,
         stores' = stores
  PROVE  /\ Placed' /\ Sequential' /\ Origins' /\ Resources' /\ Fenced'
         /\ Renaming' /\ Buffered'
  <1>0. /\ cpu \in [Procs -> Core] /\ stores \in [Words \cup {NoWord} -> Slots \cup {0}]
        /\ dinst[d] \in DInst /\ dinst'[d] \in DInst
    BY DEF IInv, Typed, SameInst
  <1>1. ASSUME NEW q \in Procs
        PROVE  /\ cpu'[q].retired = cpu[q].retired /\ cpu'[q].nOutsStores = cpu[q].nOutsStores
               /\ cpu'[q].pendingFence = cpu[q].pendingFence /\ cpu'[q].epoch = cpu[q].epoch
    BY DEF Advanced
  <1>2. {dinst[d].st, dinst'[d].st} \subseteq inROB /\ dinst[d].st # "executed"
        /\ "memory" \notin inROB /\ dinst[d].st \in Stages /\ dinst'[d].st \in Stages
    BY DEF inROB, Stages
  <1>3. Placed' /\ Sequential'
    <2>1. \A x \in {d} : Unmoved(x)
      BY <1>2 DEF Unmoved
    <2> QED BY <1>1, <2>1, AtRest DEF IInv
  <1>4. Origins'
    BY OriginsKept DEF IInv
  <1>5. ASSUME NEW q \in Procs, NEW S
        PROVE  /\ d \in InStage(q, S) <=> q = p /\ dinst[d].st \in S
               /\ d \in InStage(q, S)' <=> q = p /\ dinst'[d].st \in S
    BY DEF InStage, SameInst
  <1>6. Op(d)' = Op(d) /\ Fake(d)' = Fake(d) /\ dinst'[d].inst = dinst[d].inst
    BY DEF Op, Fake, SameInst
  <1>7. Resources'
    <2>1. ASSUME NEW q \in Procs PROVE ResourcesTaken(q, d)
      <3>1. /\ d \in loads(q) <=> d \in loads(q)'
            /\ d \in storesOf(q) <=> d \in storesOf(q)'
            /\ d \in renamed(q) <=> d \in renamed(q)'
        BY <1>2, <1>5, <1>6 DEF loads, storesOf, renamed
      <3>2. cpu[q] \in Core
        BY <1>0
      <3>3. /\ cpu'[q].freeLoads = cpu[q].freeLoads /\ cpu'[q].freeStores = cpu[q].freeStores
            /\ cpu'[q].regPool = cpu[q].regPool
        BY DEF Advanced
      <3>4. /\ cpu[q].freeLoads \in Int /\ cpu[q].freeStores \in Int
            /\ cpu[q].regPool \in Int /\ cpu[q].freeBranches \in Int
        BY <3>2, CoreTypes
      <3>5. Taken(branches(q), branches(q)', d, cpu[q].freeBranches, cpu'[q].freeBranches)
        <4>1. CASE q = p
          <5>1. d \in branches(q) <=> Op(d) = "branch"
            BY <1>2, <1>5, <4>1 DEF branches
          <5>2. d \in branches(q)' <=> Op(d) = "branch" /\ dinst'[d].st # "executed"
            BY <1>2, <1>5, <1>6, <4>1 DEF branches
          <5>3. PICK b \in Int : b = cpu[q].freeBranches
            BY <3>4
          <5>4. cpu'[q].freeBranches = b + One(Op(d) = "branch" /\ dinst'[d].st = "executed")
            BY <4>1, <5>3
          <5>5. One(Op(d) = "branch" /\ dinst'[d].st = "executed")
                  = One(d \in branches(q)) - One(d \in branches(q)')
            BY <5>1, <5>2 DEF One
          <5>6. One(d \in branches(q)) \in Int /\ One(d \in branches(q)') \in Int
            BY OneInt
          <5> QED BY <5>3, <5>4, <5>5, <5>6 DEF Taken
        <4>2. CASE q # p
          <5>1. d \in branches(q) <=> d \in branches(q)'
            BY <1>5, <4>2 DEF branches
          <5> QED BY <3>4, <4>2, <5>1, NothingTaken
        <4> QED BY <4>1, <4>2
      <3> QED BY <3>1, <3>3, <3>4, <3>5, NothingTaken DEF ResourcesTaken
    <2> QED BY <2>1, ResourcesMoved DEF IInv
  <1>8. Fenced'
    <2>1. ASSUME NEW q \in Procs PROVE outstanding(q)' = outstanding(q)
      <3>1. \A x \in Slots \ {d} : x \in outstanding(q)' <=> x \in outstanding(q)
        BY DriftedSets DEF Moves
      <3>2. d \notin outstanding(q) /\ d \notin outstanding(q)'
        BY <1>2, <1>5 DEF outstanding
      <3> QED BY <3>1, <3>2 DEF outstanding, InStage
    <2> QED BY <1>1, <1>2, <2>1, FencedKept DEF IInv
  <1>9. Renaming'
    <2>1. ASSUME NEW q \in Procs, NEW r \in Regs \cup {NoDependence}
          PROVE  RenamedNext(q, r, cpu'[q].rat[r], {d})
      <3>0. PICK x : x = cpu'[q].rat[r]
        OBVIOUS
      <3>1. x = 0 \/ x = cpu[q].rat[r]
        BY <3>0
      <3>2. CASE x = d /\ x = cpu[q].rat[r] /\ x # 0
        <4>1. d \in InStage(q, inROB \ {"executed"}) /\ dinst[d].inst.dest = r
          <5>1. RenamedAs(q, r, cpu[q].rat[r])
            BY DEF IInv, Renaming
          <5> QED BY <3>2, <5>1 DEF RenamedAs
        <4>2. q = p
          BY <1>5, <4>1
        <4>3. dinst'[d].st # "executed"
          BY <3>0, <3>2, <4>2
        <4>4. dinst'[d].st \in inROB \ {"executed"}
          BY <1>2, <4>3
        <4>5. d \in InStage(q, inROB \ {"executed"})'
          BY <1>5, <4>2, <4>4
        <4> QED BY <1>6, <3>0, <3>2, <4>1, <4>5 DEF RenamedNext
      <3> QED BY <3>0, <3>1, <3>2 DEF RenamedNext
    <2> QED BY <2>1, RenamingKept DEF IInv
  <1>10. Buffered'
    <2>1. ASSUME NEW w \in Words \cup {NoWord} PROVE BufferedNext(w, stores'[w], {d})
      <3>0. PICK x : x = stores[w]
        OBVIOUS
      <3>1. CASE x = d /\ x # 0
        <4>1. Op(d) = "store" /\ dinst[d].inst.word = w
          <5>1. BufferedAs(w, stores[w])
            BY <1>0 DEF IInv, Buffered
          <5> QED BY <3>0, <3>1, <5>1 DEF BufferedAs
        <4> QED BY <1>0, <1>2, <1>6, <3>0, <3>1, <4>1 DEF Op, BufferedNext
      <3> QED BY <3>0, <3>1 DEF BufferedNext
    <2> QED BY <1>0, <2>1, BufferedKept DEF IInv
  <1> QED BY <1>3, <1>4, <1>7, <1>8, <1>9, <1>10

LEMMA CpuStep ==
  ASSUME cpu \in [Procs -> Core], NEW p \in Procs, NEW e \in Core, cpu' = [cpu EXCEPT ![p] = e]
  PROVE  /\ cpu' \in [Procs -> Core] /\ cpu'[p] = e
         /\ \A q \in Procs \ {p} : cpu'[q] = cpu[q]
  OBVIOUS

LEMMA TypedFacts ==
  ASSUME IInv
  PROVE  /\ conf \in Confs /\ fe \in [Procs -> FrontEnd] /\ cpu \in [Procs -> Core]
         /\ dinst \in DInsts /\ Wakeups
         /\ \A d \in Live : d \in Slots /\ dinst[d] \in DInst /\ dinst[d].proc \in Procs
                            /\ dinst[d].st \in Stages /\ dinst[d].inst \in Instruction
  <1>1. dinst \in DInsts
    BY DEF IInv, Typed, DInsts
  <1>2. ASSUME NEW d \in Live
        PROVE  d \in Slots /\ dinst[d] \in DInst /\ dinst[d].proc \in Procs
               /\ dinst[d].st \in Stages /\ dinst[d].inst \in Instruction
    <2>1. d \in Slots /\ dinst[d] \in DInst
      BY <1>1, PendTypes
    <2> QED BY <2>1 DEF DInst
  <1> QED BY <1>1, <1>2 DEF IInv, Typed

(* The front end does nothing.                                             *)
BucketsAt(p) ==
  /\ poolOf(fe[p].pipe) + Len(fe[p].instQueue) = bucketPoolMaxSize
  /\ requestsOf(fe[p].pipe) = MaxIRequests
  /\ cleanOf(fe[p].pipe) = bucketPoolMaxSize
  /\ fe[p].spaceInInstQueue + Cardinality(queueOf(p)) = InstQueueSize
LEMMA BucketsIs ==
  /\ Buckets <=> \A p \in Procs : BucketsAt(p)
  /\ Buckets' <=> \A p \in Procs : BucketsAt(p)'
  BY DEF Buckets, BucketsAt, poolOf, requestsOf, cleanOf
LEMMA FrontKept ==
  ASSUME IInv, fe' = fe
  PROVE  /\ Buckets'
         /\ \A q \in Procs : cpu'[q].rob = cpu[q].rob =>
              /\ SamePlaces(q) /\ NoNewPlaces(q) /\ fe'[q].pc = fe[q].pc
              /\ (Blocking(q)' \subseteq Blocking(q) => MarkedAt(q)')
  <1>1. Buckets'
    <2>1. ASSUME NEW p \in Procs PROVE BucketsAt(p)'
      <3>1. queueOf(p)' = queueOf(p)
        BY BeforeIs
      <3>2. BucketsAt(p)
        BY BucketsIs DEF IInv
      <3> QED BY <3>1, <3>2 DEF BucketsAt
    <2> QED BY <2>1, BucketsIs
  <1>2. ASSUME NEW q \in Procs, cpu'[q].rob = cpu[q].rob
        PROVE  /\ SamePlaces(q) /\ NoNewPlaces(q) /\ fe'[q].pc = fe[q].pc
               /\ (Blocking(q)' \subseteq Blocking(q) => MarkedAt(q)')
    <2>1. SamePlaces(q)
      BY <1>2, SamePlacesFrom
    <2>2. NoNewPlaces(q)
      BY <2>1 DEF SamePlaces, NoNewPlaces
    <2>3. ASSUME Blocking(q)' \subseteq Blocking(q) PROVE MarkedAt(q)'
      <3>1. MarkedAt(q)
        BY MarkedIs DEF IInv
      <3>2. Blocking(q) \subseteq Slots
        BY DEF Blocking, InStage
      <3> QED BY <2>1, <2>3, <3>1, <3>2, MarkedKept DEF SamePlaces
    <2> QED BY <2>1, <2>2, <2>3
  <1> QED BY <1>1, <1>2

(* What d holds of the window.                                             *)
WindowTaken(d, s, t, c, e) ==
  e.windowSize = c.windowSize + One(s \in holdsEntry[conf.recycleAt])
                              - One(t \in holdsEntry[conf.recycleAt])
LEMMA WindowStep ==
  ASSUME IInv, NEW d \in Live, Moves({d}), NEW p \in Procs, p = dinst[d].proc,
         cpu' \in [Procs -> Core], \A q \in Procs \ {p} : cpu'[q] = cpu[q],
         dinst'[d] = Free \/ dinst'[d].proc = p,
         WindowTaken(d, dinst[d].st, dinst'[d].st, cpu[p], cpu'[p])
  PROVE  Window => Window'
  <1>0. d \in Slots /\ cpu \in [Procs -> Core] /\ conf' = conf /\ conf.recycleAt \in {"Issue", "Execute", "Retire"}
    BY TypedFacts, ProgramsAssumption DEF Moves
  <1>1. ASSUME NEW q \in Procs
        PROVE  Taken(windowed(q), windowed(q)', d, cpu[q].windowSize, cpu'[q].windowSize)
    <2>1. cpu[q].windowSize \in Int
      BY <1>0, CoreTypes
    <2>2. "free" \notin holdsEntry[conf.recycleAt]
      BY <1>0 DEF holdsEntry
    <2>3. /\ d \in windowed(q) <=> q = p /\ dinst[d].st \in holdsEntry[conf.recycleAt]
          /\ d \in windowed(q)' <=> q = p /\ dinst'[d].st \in holdsEntry[conf.recycleAt]
      BY <1>0, <2>2 DEF windowed, InStage, Free
    <2>4. CASE q = p
      BY <2>3, <2>4 DEF Taken, WindowTaken, One
    <2>5. CASE q # p
      BY <2>1, <2>3, <2>5, NothingTaken
    <2> QED BY <2>4, <2>5
  <1> QED BY <1>0, <1>1, WindowMoved

(* The instruction goes on, but not past doAtExecuted.                     *)
LEMMA GoesOn ==
  ASSUME IInv, NEW d \in Live, dinst[d].st \in {"selected", "port", "cache", "unit"},
         dinst' \in DInsts, Drift({d}), Wakeups', SameInst(dinst[d], dinst'[d]),
         dinst'[d].st \in {"port", "cache", "unit", "executed"},
         dinst'[d].st = "executed" => Op(d) = "event",
         NEW e, Retimed(cpu[dinst[d].proc], e),
         WindowTaken(d, dinst[d].st, dinst'[d].st, cpu[dinst[d].proc], e),
         cpu' = [cpu EXCEPT ![dinst[d].proc] = e], UNCHANGED <<conf, fe, stores>>
  PROVE  IInv' /\ (Window => Window')
  <1>0. PICK p \in Procs : p = dinst[d].proc
    BY TypedFacts
  <1>1. cpu' \in [Procs -> Core] /\ cpu'[p] = e /\ \A q \in Procs \ {p} : cpu'[q] = cpu[q]
    BY <1>0, TypedFacts, CpuStep DEF Retimed
  <1>2. Typed'
    BY <1>1, TypedFacts DEF IInv, Typed, DInsts
  <1>3. Moves({d}) /\ d \in Slots
    BY TypedFacts DEF Moves
  <1>4. Advanced(cpu[p], cpu'[p]) /\ cpu'[p].rat = cpu[p].rat /\ cpu'[p].freeBranches = cpu[p].freeBranches
    BY <1>0, <1>1 DEF Retimed, Advanced
  <1>5. ASSUME NEW q \in Procs PROVE Blocking(q)' \subseteq Blocking(q) /\ cpu'[q].rob = cpu[q].rob
    <2>1. \A x \in Slots \ {d} : x \in Blocking(q)' <=> x \in Blocking(q)
      BY <1>3, DriftedSets DEF Moves
    <2>2. d \in Blocking(q)' => d \in Blocking(q)
      BY <1>3 DEF Blocking, InStage, SameInst, waiting
    <2>3. cpu'[q].rob = cpu[q].rob
      BY <1>1, <1>4 DEF Advanced
    <2> QED BY <2>1, <2>2, <2>3 DEF Blocking, InStage
  <1>6. Marked' /\ Buckets' /\ \A q \in Procs : NoNewPlaces(q) /\ fe'[q].pc = fe[q].pc
    BY <1>5, FrontKept, MarkedIs
  <1>7. cpu'[p].freeBranches = cpu[p].freeBranches + One(Op(d) = "branch" /\ dinst'[d].st = "executed")
    <2>1. cpu[p].freeBranches \in Int
      BY <1>0, TypedFacts, CoreTypes
    <2>2. One(Op(d) = "branch" /\ dinst'[d].st = "executed") = 0
      BY DEF One
    <2> QED BY <1>4, <2>1, <2>2
  <1>8. ASSUME NEW r \in Regs \cup {NoDependence}
        PROVE  /\ cpu'[p].rat[r] \in {0, cpu[p].rat[r]}
               /\ dinst'[d].st = "executed" => cpu'[p].rat[r] # d
    <2>1. ASSUME Op(d) = "event" PROVE cpu[p].rat[r] # d
      <3>1. RenamedAs(p, r, cpu[p].rat[r])
        BY DEF IInv, Renaming
      <3>2. dinst[d].inst.dest = InvalidOutput
        BY <1>3, <2>1, TypedFacts DEF Instruction, Op
      <3>3. r # InvalidOutput /\ d # 0
        BY <1>3, RegsAssumption, BucketsNested
      <3> QED BY <3>1, <3>2, <3>3 DEF RenamedAs
    <2> QED BY <1>4, <2>1
  <1>9. /\ Placed' /\ Sequential' /\ Origins' /\ Resources' /\ Fenced'
        /\ Renaming' /\ Buffered'
    BY <1>0, <1>1, <1>3, <1>4, <1>6, <1>7, <1>8, AdvancedStep
  <1>10. Window => Window'
    BY <1>0, <1>1, <1>3, WindowStep DEF SameInst
  <1> QED BY <1>2, <1>6, <1>9, <1>10 DEF IInv

(* The callbacks that take an instruction from stage to stage.             *)
LEMMA OtherStage ==
  ASSUME IInv, NEW d \in Live, dinst[d].st # "window", NEW s \in Stages \ {"window", "fetched"},
         dinst' = [dinst EXCEPT ![d].st = s]
  PROVE  /\ dinst' \in DInsts /\ Drift({d}) /\ Wakeups' /\ dinst'[d].st = s
         /\ SameInst(dinst[d], dinst'[d]) /\ dinst'[d].epoch = dinst[d].epoch
  <1>1. PICK y : y = [dinst[d] EXCEPT !.st = s]
    OBVIOUS
  <1>2. dinst[d] \in DInst /\ dinst \in DInsts /\ Wakeups
    BY TypedFacts
  <1>3. /\ y \in DInst /\ y.deps = dinst[d].deps /\ y.pend = dinst[d].pend /\ y.st = s
        /\ SameInst(dinst[d], y) /\ y.epoch = dinst[d].epoch
    BY <1>1, <1>2 DEF DInst, SameInst
  <1>4. dinst' = [dinst EXCEPT ![d] = y]
    BY <1>1
  <1>5. dinst' \in DInsts /\ Drift({d}) /\ dinst'[d] = y /\ Wakeups'
    BY <1>2, <1>3, <1>4, StagedStep
  <1> QED BY <1>3, <1>5

LEMMA EventStep ==
  ASSUME IInv, NEW d \in Slots, simTimeEvent(d)
  PROVE  IInv' /\ (Window => Window')
  <1>1. /\ dinst[d].st = "selected" /\ Op(d) = "event" /\ dinst' = executed(d)
        /\ cpu' = [cpu EXCEPT ![dinst[d].proc] =
                     delEntry(delEntry(cpu[dinst[d].proc], "Issue"), "Execute")]
        /\ UNCHANGED <<conf, fe, stores>>
    BY DEF simTimeEvent
  <1>2. d \in Live
    BY <1>1 DEF Live, Free
  <1>3. dinst \in DInsts /\ Wakeups /\ dinst[d] \in DInst /\ cpu[dinst[d].proc] \in Core
    BY <1>2, TypedFacts
  <1>4. /\ dinst' \in DInsts /\ Drift({d}) /\ Wakeups'
        /\ Alike([dinst[d] EXCEPT !.st = "executed"], dinst'[d])
    BY <1>1, <1>2, <1>3, ExecutedStep
  <1>5. SameInst(dinst[d], dinst'[d]) /\ dinst'[d].st = "executed"
    BY <1>3, <1>4 DEF Alike, SameInst, DInst
  <1>6. PICK c, e, f : c = cpu[dinst[d].proc] /\ e = delEntry(c, "Issue") /\ f = delEntry(e, "Execute")
    OBVIOUS
  <1>7. Retimed(c, e) /\ e.windowSize = c.windowSize + One(conf.recycleAt = "Issue")
    BY <1>3, <1>6, DelEntry
  <1>8. Retimed(e, f) /\ f.windowSize = e.windowSize + One(conf.recycleAt = "Execute")
    BY <1>6, <1>7, DelEntry DEF Retimed
  <1>9. Retimed(c, f)
    BY <1>7, <1>8 DEF Retimed
  <1>10. WindowTaken(d, dinst[d].st, dinst'[d].st, c, f)
    <2>1. conf.recycleAt \in {"Issue", "Execute", "Retire"}
      BY TypedFacts, ProgramsAssumption
    <2>2. PICK w \in Int : w = c.windowSize
      BY <1>3, <1>6, CoreTypes
    <2>3. f.windowSize = w + One(conf.recycleAt = "Issue") + One(conf.recycleAt = "Execute")
      BY <1>7, <1>8, <2>2
    <2>4. f.windowSize = w + One("selected" \in holdsEntry[conf.recycleAt])
                           - One("executed" \in holdsEntry[conf.recycleAt])
      <3>1. CASE conf.recycleAt = "Issue"
        BY <2>3, <3>1 DEF holdsEntry, One
      <3>2. CASE conf.recycleAt = "Execute"
        BY <2>3, <3>2 DEF holdsEntry, One
      <3>3. CASE conf.recycleAt = "Retire"
        BY <2>3, <3>3 DEF holdsEntry, One
      <3> QED BY <2>1, <3>1, <3>2, <3>3
    <2> QED BY <1>1, <1>5, <2>2, <2>4 DEF WindowTaken
  <1> QED BY <1>1, <1>2, <1>4, <1>5, <1>6, <1>9, <1>10, GoesOn

LEMMA FenceTimeStep ==
  ASSUME IInv, NEW d \in Slots, simTimeFence(d)
  PROVE  IInv' /\ (Window => Window')
  <1>1. /\ dinst[d].st = "selected" /\ dinst' = [dinst EXCEPT ![d].st = "unit"]
        /\ cpu' = [cpu EXCEPT ![dinst[d].proc] = delEntry(cpu[dinst[d].proc], "Issue")]
        /\ UNCHANGED <<conf, fe, stores>>
    BY DEF simTimeFence
  <1>2. d \in Live /\ "unit" \in Stages \ {"window", "fetched"}
    BY <1>1 DEF Live, Free, Stages
  <1>3. cpu[dinst[d].proc] \in Core
    BY <1>2, TypedFacts
  <1>4. /\ dinst' \in DInsts /\ Drift({d}) /\ Wakeups' /\ dinst'[d].st = "unit"
        /\ SameInst(dinst[d], dinst'[d])
    <2>1. dinst[d].st # "window"
      BY <1>1
    <2> QED BY <1>1, <1>2, <2>1, OtherStage
  <1>5. PICK c, e : c = cpu[dinst[d].proc] /\ e = delEntry(c, "Issue")
    OBVIOUS
  <1>6. Retimed(c, e) /\ e.windowSize = c.windowSize + One(conf.recycleAt = "Issue")
    BY <1>3, <1>5, DelEntry
  <1>7. WindowTaken(d, dinst[d].st, dinst'[d].st, c, e)
    <2>1. conf.recycleAt \in {"Issue", "Execute", "Retire"}
      BY TypedFacts, ProgramsAssumption
    <2>2. PICK w \in Int : w = c.windowSize
      BY <1>3, <1>5, CoreTypes
    <2>3. w + One(conf.recycleAt = "Issue") = w + One("selected" \in holdsEntry[conf.recycleAt])
                           - One("unit" \in holdsEntry[conf.recycleAt])
      <3>1. CASE conf.recycleAt = "Issue"
        BY <3>1 DEF holdsEntry, One
      <3>2. CASE conf.recycleAt = "Execute"
        BY <3>2 DEF holdsEntry, One
      <3>3. CASE conf.recycleAt = "Retire"
        BY <3>3 DEF holdsEntry, One
      <3> QED BY <2>1, <3>1, <3>2, <3>3
    <2> QED BY <1>1, <1>4, <1>6, <2>2, <2>3 DEF WindowTaken
  <1> QED BY <1>1, <1>2, <1>4, <1>5, <1>6, <1>7, GoesOn

LEMMA IssuedAtPortStep ==
  ASSUME IInv, NEW d \in Slots, issued(d)
  PROVE  IInv' /\ (Window => Window')
  <1>1. PICK s : s = IF Op(d) = "load" /\ ~dinst[d].forwarded THEN "cache" ELSE "unit"
    OBVIOUS
  <1>2. /\ dinst[d].st = "port" /\ dinst' = [dinst EXCEPT ![d].st = s]
        /\ cpu' = [cpu EXCEPT ![dinst[d].proc] = delEntry(cpu[dinst[d].proc], "Issue")]
        /\ UNCHANGED <<conf, fe, stores>> /\ s \in {"cache", "unit"}
    BY <1>1 DEF issued
  <1>3. d \in Live /\ s \in Stages \ {"window", "fetched"}
    BY <1>2 DEF Live, Free, Stages
  <1>4. cpu[dinst[d].proc] \in Core
    BY <1>3, TypedFacts
  <1>5. /\ dinst' \in DInsts /\ Drift({d}) /\ Wakeups' /\ dinst'[d].st = s
        /\ SameInst(dinst[d], dinst'[d])
    BY <1>2, <1>3, OtherStage
  <1>6. PICK c, e : c = cpu[dinst[d].proc] /\ e = delEntry(c, "Issue")
    OBVIOUS
  <1>7. Retimed(c, e) /\ e.windowSize = c.windowSize + One(conf.recycleAt = "Issue")
    BY <1>4, <1>6, DelEntry
  <1>8. WindowTaken(d, dinst[d].st, dinst'[d].st, c, e)
    <2>1. conf.recycleAt \in {"Issue", "Execute", "Retire"}
      BY TypedFacts, ProgramsAssumption
    <2>2. PICK w \in Int : w = c.windowSize
      BY <1>4, <1>6, CoreTypes
    <2>3. w + One(conf.recycleAt = "Issue") = w + One("port" \in holdsEntry[conf.recycleAt])
                           - One(s \in holdsEntry[conf.recycleAt])
      <3>1. CASE conf.recycleAt = "Issue"
        BY <1>2, <3>1 DEF holdsEntry, One
      <3>2. CASE conf.recycleAt = "Execute"
        BY <1>2, <3>2 DEF holdsEntry, One
      <3>3. CASE conf.recycleAt = "Retire"
        BY <1>2, <3>3 DEF holdsEntry, One
      <3> QED BY <2>1, <3>1, <3>2, <3>3
    <2> QED BY <1>2, <1>5, <1>7, <2>2, <2>3 DEF WindowTaken
  <1> QED BY <1>2, <1>3, <1>5, <1>6, <1>7, <1>8, GoesOn

LEMMA PortAndAckStep ==
  ASSUME IInv, NEW d \in Slots, simTimePort(d) \/ loadAck(d)
  PROVE  IInv' /\ (Window => Window')
  <1>1. PICK s : s = IF simTimePort(d) THEN "port" ELSE "unit"
    OBVIOUS
  <1>2. /\ dinst[d].st \in {"selected", "cache"} /\ dinst' = [dinst EXCEPT ![d].st = s]
        /\ UNCHANGED <<conf, fe, cpu, stores>> /\ s \in {"port", "unit"}
        /\ (dinst[d].st = "selected" /\ s = "port") \/ (dinst[d].st = "cache" /\ s = "unit")
    BY <1>1 DEF simTimePort, loadAck
  <1>3. d \in Live /\ s \in Stages \ {"window", "fetched"}
    BY <1>2 DEF Live, Free, Stages
  <1>4. dinst[d].proc \in Procs /\ cpu \in [Procs -> Core]
    BY <1>3, TypedFacts
  <1>5. /\ dinst' \in DInsts /\ Drift({d}) /\ Wakeups' /\ dinst'[d].st = s
        /\ SameInst(dinst[d], dinst'[d])
    BY <1>2, <1>3, OtherStage
  <1>6. PICK c : c = cpu[dinst[d].proc]
    OBVIOUS
  <1>7. c \in Core /\ Retimed(c, c) /\ cpu' = [cpu EXCEPT ![dinst[d].proc] = c]
    BY <1>2, <1>4, <1>6 DEF Retimed
  <1>8. WindowTaken(d, dinst[d].st, dinst'[d].st, c, c)
    <2>1. conf.recycleAt \in {"Issue", "Execute", "Retire"}
      BY TypedFacts, ProgramsAssumption
    <2>2. PICK w \in Int : w = c.windowSize
      BY <1>7, CoreTypes
    <2>3. dinst[d].st \in holdsEntry[conf.recycleAt] <=> s \in holdsEntry[conf.recycleAt]
      BY <1>2, <2>1 DEF holdsEntry
    <2>4. PICK n \in Int : n = One(dinst[d].st \in holdsEntry[conf.recycleAt])
      BY OneInt
    <2>5. One(s \in holdsEntry[conf.recycleAt]) = n
      BY <2>3, <2>4 DEF One
    <2> QED BY <1>5, <2>2, <2>4, <2>5 DEF WindowTaken
  <1> QED BY <1>2, <1>3, <1>5, <1>6, <1>7, <1>8, GoesOn

(* doAtExecuted.                                                           *)
LEMMA FrontEndTypes ==
  ASSUME NEW f \in FrontEnd
  PROVE  /\ f.pc \in Nat \ {0} /\ f.missInstID \in BOOLEAN /\ f.btac \in BOOLEAN
         /\ f.pipe \in PipelineRec /\ f.instQueue \in Queues
         /\ f.instQueue \in Seq(Seq(Slots) \ {<<>>}) /\ f.instQueue \in Nested
         /\ f.spaceInInstQueue \in Int
  <1>1. /\ f.pc \in Nat \ {0} /\ f.missInstID \in BOOLEAN /\ f.btac \in BOOLEAN
        /\ f.pipe \in PipelineRec /\ f.instQueue \in Queues /\ f.spaceInInstQueue \in Int
    BY DEF FrontEnd
  <1>2. f.instQueue \in Seq(Seq(Slots) \ {<<>>})
    BY <1>1 DEF Queues
  <1>3. f.instQueue \in Seq(Seq(Slots))
    BY <1>2
  <1>4. f.instQueue \in Nested
    BY <1>3, BucketsNested
  <1> QED BY <1>1, <1>2, <1>4

LEMMA PlaceTypes ==
  ASSUME IInv, NEW p \in Procs
  PROVE  robOf(p) \subseteq Slots /\ queueOf(p) \subseteq Slots /\ 0 \notin Slots
         /\ inPipe(p) \ {0} \subseteq Slots
  <1>1. PlacedAt(p)
    BY PlacedIs DEF IInv
  <1>2. fe[p].instQueue \in Seq(Seq(Slots) \ {<<>>})
    BY TypedFacts, FrontEndTypes
  <1>3. queueOf(p) \subseteq Slots
    <2> SUFFICES ASSUME NEW x \in queueOf(p) PROVE x \in Slots
      OBVIOUS
    <2>1. PICK A : A = fe[p].instQueue
      OBVIOUS
    <2>2. PICK i \in DOMAIN A : \E k \in DOMAIN A[i] : A[i][k] = x
      BY <2>1, ItemsIn DEF queueOf
    <2>3. A[i] \in Seq(Slots)
      BY <1>2, <2>1, <2>2
    <2> QED BY <2>2, <2>3
  <1> QED BY <1>1, <1>3, BucketsNested DEF PlacedAt, InStage

(* A bucket joins the pipeline, behind everything.                         *)
LEMMA AddedPlaces ==
  ASSUME NEW p \in Procs, NEW b, cpu'[p].rob = cpu[p].rob, fe'[p].instQueue = fe[p].instQueue,
         Added(fe[p].pipe, fe'[p].pipe, b)
  PROVE  /\ robOf(p)' = robOf(p) /\ queueOf(p)' = queueOf(p)
         /\ inPipe(p)' = inPipe(p) \cup Range(b)
         /\ \A d, e : Before(p, d, e)' <=>
              \/ Before(p, d, e) \/ Follows(b, d, e)
              \/ (d \in robOf(p) \cup queueOf(p) \cup inPipe(p) /\ e \in Range(b))
  <1>1. robOf(p)' = robOf(p) /\ queueOf(p)' = queueOf(p) /\ inPipe(p)' = inPipe(p) \cup Range(b)
    BY BeforeIs DEF Added
  <1>2. ASSUME NEW d, NEW e
        PROVE  Before(p, d, e)' <=>
                 \/ Before(p, d, e) \/ Follows(b, d, e)
                 \/ (d \in robOf(p) \cup queueOf(p) \cup inPipe(p) /\ e \in Range(b))
    BY <1>1, BeforeIs DEF Added
  <1> QED BY <1>1, <1>2

LEMMA PoolsKeptAt ==
  ASSUME IInv, NEW p \in Procs, PoolsKept(fe[p].pipe, fe'[p].pipe),
         fe'[p].instQueue = fe[p].instQueue, fe'[p].spaceInInstQueue = fe[p].spaceInInstQueue
  PROVE  BucketsAt(p)'
  <1>1. BucketsAt(p) /\ queueOf(p)' = queueOf(p)
    BY BucketsIs, BeforeIs DEF IInv
  <1> QED BY <1>1 DEF BucketsAt, PoolsKept

cleared(rat, x, d) == [r \in DOMAIN rat |-> IF r = x /\ rat[r] = d THEN 0 ELSE rat[r]]
Results(c, x, d, b) ==
  [c EXCEPT !.rat = cleared(c.rat, x, d), !.freeBranches = @ + One(b)]
LEMMA ClearedRat ==
  ASSUME NEW c \in Core, NEW x, NEW d, NEW b, NEW e, e = Results(c, x, d, b)
  PROVE  /\ Advanced(c, e) /\ e.freeBranches = c.freeBranches + One(b)
         /\ e.windowSize = c.windowSize /\ e.rat = cleared(c.rat, x, d)
  <1>1. PICK R, n, m : R = cleared(c.rat, x, d) /\ n = c.freeBranches + One(b) /\ m = c.freeBranches
    OBVIOUS
  <1>2. R \in Rats
    <2>1. c.rat \in [AllRegs -> Slots \cup {0}]
      BY CoreTypes
    <2> QED BY <1>1, <2>1 DEF cleared, Rats
  <1>3. n \in Int
    <2>1. m \in Int /\ One(b) \in Int
      BY <1>1, CoreTypes, OneInt
    <2> QED BY <1>1, <2>1
  <1>4. e = [c EXCEPT !.rat = R, !.freeBranches = n]
    BY <1>1 DEF Results
  <1>5. e \in Core /\ e.rat = R /\ e.freeBranches = n /\ e.windowSize = c.windowSize
    BY <1>2, <1>3, <1>4 DEF Core
  <1>6. Advanced(c, e)
    BY <1>4, <1>5 DEF Advanced, Core
  <1> QED BY <1>1, <1>5, <1>6

LEMMA DoAtExecutedStep ==
  ASSUME IInv, NEW d \in Slots, doAtExecuted(d)
  PROVE  IInv' /\ (Window => Window')
  <1>0. dinst[d].st = "unit" /\ d \in Live
    BY DEF doAtExecuted, Live, Free
  <1>1. PICK p \in Procs : p = dinst[d].proc
    BY <1>0, TypedFacts
  <1>2. PICK restore : restore = (dinst[d].fetch /\ conf.misPath)
    OBVIOUS
  <1>3. PICK c0, c1, c2, e :
          /\ c0 = cpu[p] /\ c1 = delEntry(c0, "Execute")
          /\ c2 = Results(c1, dinst[d].inst.dest, d, Op(d) = "branch")
          /\ e = IF restore THEN misBranchRestore(c2) ELSE c2
    OBVIOUS
  <1>4. PICK pl, r, f, g : /\ f = fe[p] /\ pl = f.pipe /\ r = IF restore THEN cleanMark(pl) ELSE pl
                           /\ g = [f EXCEPT !.missInstID = @ /\ ~dinst[d].fetch, !.pipe = r]
    OBVIOUS
  <1>5. /\ dinst' = executed(d) /\ UNCHANGED <<conf, stores>>
        /\ cpu' = [cpu EXCEPT ![p] = e]
        /\ fe' = [fe EXCEPT ![p] = g]
    <2>1. dinst' = executed(d) /\ UNCHANGED <<conf, stores>>
      BY DEF doAtExecuted
    <2>2. cpu' = [cpu EXCEPT ![p] = e]
      <3> HIDE DEF delEntry, misBranchRestore
      <3> QED BY <1>1, <1>2, <1>3 DEF doAtExecuted, Results, cleared
    <2>3. fe' = [fe EXCEPT ![p] = g]
      BY <1>1, <1>2, <1>4 DEF doAtExecuted
    <2> QED BY <2>1, <2>2, <2>3
  <1>6. /\ dinst \in DInsts /\ Wakeups /\ dinst[d] \in DInst /\ cpu \in [Procs -> Core]
        /\ fe \in [Procs -> FrontEnd] /\ c0 \in Core /\ f \in FrontEnd /\ pl \in PipelineRec
        /\ conf \in Confs
    <2>1. fe[p] \in FrontEnd
      BY TypedFacts
    <2>2. fe[p].pipe \in PipelineRec
      BY <2>1, FrontEndTypes
    <2> QED BY <1>0, <1>3, <1>4, <2>1, <2>2, TypedFacts
  <1>7. /\ dinst' \in DInsts /\ Drift({d}) /\ Wakeups'
        /\ Alike([dinst[d] EXCEPT !.st = "executed"], dinst'[d])
    BY <1>0, <1>5, <1>6, ExecutedStep
  <1>8. SameInst(dinst[d], dinst'[d]) /\ dinst'[d].st = "executed"
    BY <1>6, <1>7 DEF Alike, SameInst, DInst
  <1>9. Moves({d})
    BY <1>5, <1>6, <1>7 DEF Moves
  <1>10. /\ Advanced(c0, e) /\ e.freeBranches = c0.freeBranches + One(Op(d) = "branch")
         /\ e.rat = cleared(c0.rat, dinst[d].inst.dest, d)
         /\ e.windowSize = c0.windowSize + One(conf.recycleAt = "Execute")
    <2>1. Retimed(c0, c1) /\ c1.windowSize = c0.windowSize + One(conf.recycleAt = "Execute")
      BY <1>3, <1>6, DelEntry
    <2>2. c1 \in Core /\ c1.rat = c0.rat /\ c1.freeBranches = c0.freeBranches
      BY <2>1 DEF Retimed
    <2>3. /\ Advanced(c1, c2) /\ c2.freeBranches = c1.freeBranches + One(Op(d) = "branch")
          /\ c2.windowSize = c1.windowSize /\ c2.rat = cleared(c1.rat, dinst[d].inst.dest, d)
      <3>1. PICK x, b : x = dinst[d].inst.dest /\ b = (Op(d) = "branch")
        OBVIOUS
      <3>2. c2 = Results(c1, x, d, b)
        BY <1>3, <3>1
      <3>3. /\ Advanced(c1, c2) /\ c2.freeBranches = c1.freeBranches + One(b)
            /\ c2.windowSize = c1.windowSize /\ c2.rat = cleared(c1.rat, x, d)
        BY <2>2, <3>2, ClearedRat
      <3> QED BY <3>1, <3>3
    <2>4. c2 \in Core
      BY <2>3 DEF Advanced
    <2>5. Retimed(c2, e) /\ e.windowSize = c2.windowSize
      <3>1. CASE restore
        BY <1>3, <2>4, <3>1, MisBranchRestore
      <3>2. CASE ~restore
        BY <1>3, <2>4, <3>2 DEF Retimed
      <3> QED BY <3>1, <3>2
    <2>6. Advanced(c0, c1) /\ Advanced(c2, e)
      BY <2>1, <2>5 DEF Retimed, Advanced
    <2>7. Advanced(c0, e)
      BY <2>3, <2>6 DEF Advanced
    <2> QED BY <2>1, <2>2, <2>3, <2>5, <2>7 DEF Retimed
  <1>11. cpu' \in [Procs -> Core] /\ cpu'[p] = e /\ \A q \in Procs \ {p} : cpu'[q] = cpu[q]
    BY <1>5, <1>6, <1>10, CpuStep DEF Advanced
  <1>12. \A q \in Procs : cpu'[q].rob = cpu[q].rob
    BY <1>3, <1>10, <1>11 DEF Advanced
  <1>13. /\ PoolsKept(pl, r)
         /\ restore => Added(pl, r, cleanItem) /\ r.nCleanMarks = pl.nCleanMarks + 1
         /\ ~restore => r = pl
    <2>1. CASE restore
      BY <1>4, <1>6, <2>1, CleanMark DEF Added
    <2>2. CASE ~restore
      BY <1>4, <1>6, <2>2 DEF PoolsKept
    <2> QED BY <2>1, <2>2
  <1>14. /\ g \in FrontEnd /\ g.pipe = r /\ g.missInstID = (f.missInstID /\ ~dinst[d].fetch)
         /\ g.pc = f.pc /\ g.btac = f.btac /\ g.instQueue = f.instQueue
         /\ g.spaceInInstQueue = f.spaceInInstQueue
    <2>1. r \in PipelineRec
      BY <1>13 DEF PoolsKept
    <2>2. (f.missInstID /\ ~dinst[d].fetch) \in BOOLEAN
      OBVIOUS
    <2> QED BY <1>4, <1>6, <2>1, <2>2 DEF FrontEnd
  <1>15. /\ fe' \in [Procs -> FrontEnd] /\ fe'[p] = g
         /\ \A q \in Procs \ {p} : fe'[q] = fe[q]
    BY <1>5, <1>6, <1>14
  <1>16. Typed'
    BY <1>5, <1>7, <1>11, <1>15 DEF IInv, Typed, DInsts
  <1>17. ASSUME NEW q \in Procs, q # p \/ ~restore PROVE SamePlaces(q)
    <2>1. fe'[q].pipe = fe[q].pipe /\ fe'[q].instQueue = fe[q].instQueue
      <3>1. CASE q = p
        BY <1>4, <1>13, <1>14, <1>15, <1>17, <3>1
      <3>2. CASE q # p
        BY <1>15, <3>2
      <3> QED BY <3>1, <3>2
    <2> QED BY <1>12, <2>1, SamePlacesFrom
  <1>18. ASSUME restore
         PROVE  /\ robOf(p)' = robOf(p) /\ queueOf(p)' = queueOf(p)
                /\ inPipe(p)' = inPipe(p) \cup {0}
                /\ \A x, y : Before(p, x, y)' <=>
                     \/ Before(p, x, y)
                     \/ (x \in robOf(p) \cup queueOf(p) \cup inPipe(p) /\ y = 0)
    <2>1. Added(fe[p].pipe, fe'[p].pipe, cleanItem)
      BY <1>4, <1>13, <1>14, <1>15, <1>18
    <2>2. fe'[p].instQueue = fe[p].instQueue
      BY <1>4, <1>14, <1>15
    <2>3. Range(cleanItem) = {0} /\ \A x, y : ~Follows(cleanItem, x, y)
      BY OneItem DEF cleanItem
    <2> QED BY <1>12, <2>1, <2>2, <2>3, AddedPlaces
  <1>19. ASSUME NEW q \in Procs PROVE NoNewPlaces(q) /\ fe'[q].pc = fe[q].pc
    <2>1. fe'[q].pc = fe[q].pc
      BY <1>4, <1>14, <1>15
    <2>2. CASE q # p \/ ~restore
      BY <1>17, <2>1, <2>2 DEF SamePlaces, NoNewPlaces
    <2>3. CASE q = p /\ restore
      BY <1>18, <2>1, <2>3, PlaceTypes DEF NoNewPlaces
    <2> QED BY <2>2, <2>3
  <1>20. Buckets'
    <2>1. ASSUME NEW q \in Procs PROVE BucketsAt(q)'
      <3>1. PoolsKept(fe[q].pipe, fe'[q].pipe)
        <4>1. CASE q = p
          BY <1>4, <1>13, <1>14, <1>15, <4>1
        <4>2. CASE q # p
          BY <1>6, <1>15, <4>2, FrontEndTypes DEF PoolsKept
        <4> QED BY <4>1, <4>2
      <3>2. fe'[q].instQueue = fe[q].instQueue /\ fe'[q].spaceInInstQueue = fe[q].spaceInInstQueue
        BY <1>4, <1>14, <1>15
      <3> QED BY <3>1, <3>2, PoolsKeptAt
    <2> QED BY <2>1, BucketsIs
  <1>21. ASSUME NEW q \in Procs
         PROVE  /\ Blocking(q)' \subseteq Blocking(q) /\ d \notin Blocking(q)'
                /\ Blocking(q) \subseteq Slots
                /\ dinst[d].fetch => d \in Blocking(p)
    <2>1. \A x \in Slots \ {d} : x \in Blocking(q)' <=> x \in Blocking(q)
      BY <1>9, DriftedSets DEF Moves
    <2>2. d \notin Blocking(q)'
      BY <1>8 DEF Blocking, InStage, waiting
    <2>3. dinst[d].fetch => d \in Blocking(p)
      BY <1>0, <1>1 DEF Blocking, InStage, waiting
    <2> QED BY <2>1, <2>2, <2>3 DEF Blocking, InStage
  <1>22. Marked'
    <2>1. ASSUME NEW q \in Procs PROVE MarkedAt(q)'
      <3>1. MarkedAt(q)
        BY MarkedIs DEF IInv
      <3>2. CASE q # p \/ (q = p /\ ~restore)
        <4>1. SamePlaces(q)
          BY <1>17, <3>2
        <4>2. fe'[q].pipe.nCleanMarks = fe[q].pipe.nCleanMarks /\ fe'[q].btac = fe[q].btac
          <5>1. CASE q = p
            BY <1>4, <1>13, <1>14, <1>15, <3>2, <5>1
          <5>2. CASE q # p
            BY <1>15, <5>2
          <5> QED BY <5>1, <5>2
        <4>3. Blocking(q)' = {} \/ fe'[q].missInstID = fe[q].missInstID
          <5>1. CASE q = p /\ dinst[d].fetch
            BY <1>21, <3>1, <5>1 DEF MarkedAt
          <5>2. CASE ~(q = p /\ dinst[d].fetch)
            <6>1. f.missInstID \in BOOLEAN
              BY <1>6, FrontEndTypes
            <6> QED BY <1>4, <1>14, <1>15, <5>2, <6>1
          <5> QED BY <5>1, <5>2
        <4> QED BY <1>21, <3>1, <4>1, <4>2, <4>3, MarkedKept DEF SamePlaces
      <3>3. CASE q = p /\ restore
        <4>1. d \in Blocking(p) /\ Blocking(p) = {d} /\ ~Before(p, d, 0)
          BY <1>2, <1>21, <3>1, <3>3 DEF MarkedAt
        <4>2. d \in robOf(p)
          <5>1. PlacedAt(p)
            BY PlacedIs DEF IInv
          <5> QED BY <1>0, <1>1, <5>1 DEF PlacedAt, InStage, inROB
        <4>3. 0 \notin inPipe(p)
          BY <4>1, <4>2, BeforeIs
        <4>4. Blocking(p)' = {}
          BY <1>21, <4>1
        <4>5. ~Before(p, 0, 0)'
          <5>1. ~Before(p, 0, 0)
            BY <3>1, <3>3 DEF MarkedAt
          <5> QED BY <1>18, <3>3, <4>3, <5>1, PlaceTypes
        <4>6. fe'[p].pipe.nCleanMarks = One(0 \in inPipe(p)')
          <5>1. fe[p].pipe.nCleanMarks = 0
            BY <3>1, <3>3, <4>3 DEF MarkedAt, One
          <5>2. fe'[p].pipe.nCleanMarks = 1
            BY <1>4, <1>13, <1>14, <1>15, <3>3, <5>1
          <5> QED BY <1>18, <3>3, <5>2 DEF One
        <4> QED BY <3>3, <4>4, <4>5, <4>6 DEF MarkedAt
      <3> QED BY <3>2, <3>3
    <2> QED BY <2>1, MarkedIs
  <1>23. ASSUME NEW x \in Regs \cup {NoDependence}
         PROVE  cpu'[p].rat[x] \in {0, cpu[p].rat[x]} /\ cpu'[p].rat[x] # d
    <2>1. x \in AllRegs /\ c0.rat \in [AllRegs -> Slots \cup {0}]
      BY <1>6, CoreTypes DEF AllRegs
    <2>2. e.rat[x] = IF x = dinst[d].inst.dest /\ c0.rat[x] = d THEN 0 ELSE c0.rat[x]
      BY <1>10, <2>1 DEF cleared
    <2>3. d # 0
      BY BucketsNested
    <2>4. RenamedAs(p, x, c0.rat[x])
      BY <1>3 DEF IInv, Renaming
    <2> QED BY <1>3, <1>11, <2>2, <2>3, <2>4 DEF RenamedAs
  <1>24. Op(d) = "branch" <=> Op(d) = "branch" /\ dinst'[d].st = "executed"
    BY <1>8
  <1>25. cpu'[p].freeBranches = cpu[p].freeBranches + One(Op(d) = "branch" /\ dinst'[d].st = "executed")
    BY <1>3, <1>10, <1>11, <1>24 DEF One
  <1>26. /\ Placed' /\ Sequential' /\ Origins' /\ Resources' /\ Fenced'
         /\ Renaming' /\ Buffered'
    <2>1. Advanced(cpu[p], cpu'[p])
      BY <1>3, <1>10, <1>11
    <2>2. dinst[d].st \in {"selected", "port", "cache", "unit"}
          /\ dinst'[d].st \in {"port", "cache", "unit", "executed"} /\ stores' = stores
      BY <1>0, <1>5, <1>8
    <2> QED BY <1>1, <1>8, <1>9, <1>11, <1>19, <1>23, <1>25, <2>1, <2>2, AdvancedStep
  <1>27. Window => Window'
    <2>1. WindowTaken(d, dinst[d].st, dinst'[d].st, cpu[p], cpu'[p])
      <3>1. conf.recycleAt \in {"Issue", "Execute", "Retire"}
        BY <1>6, ProgramsAssumption
      <3>2. PICK w \in Int : w = c0.windowSize
        BY <1>6, CoreTypes
      <3>3. w + One(conf.recycleAt = "Execute") = w + One("unit" \in holdsEntry[conf.recycleAt])
                             - One("executed" \in holdsEntry[conf.recycleAt])
        <4>1. CASE conf.recycleAt = "Issue"
          BY <4>1 DEF holdsEntry, One
        <4>2. CASE conf.recycleAt = "Execute"
          BY <4>2 DEF holdsEntry, One
        <4>3. CASE conf.recycleAt = "Retire"
          BY <4>3 DEF holdsEntry, One
        <4> QED BY <3>1, <4>1, <4>2, <4>3
      <3> QED BY <1>0, <1>3, <1>8, <1>10, <1>11, <3>2, <3>3 DEF WindowTaken
    <2> QED BY <1>0, <1>1, <1>8, <1>9, <1>11, <2>1, WindowStep DEF SameInst
  <1> QED BY <1>7, <1>16, <1>20, <1>22, <1>26, <1>27 DEF IInv

(* Steps of the front end alone.                                           *)
LEMMA StillMoves ==
  ASSUME dinst \in DInsts, conf \in Confs, dinst' = dinst, conf' = conf
  PROVE  Moves({}) /\ (Wakeups => Wakeups')
  <1>1. \A x \in Slots : dinst[x] \in DInst => Alike(dinst[x], dinst'[x])
    BY DEF Alike
  <1>2. Drift({})
    BY <1>1 DEF Drift, DInsts
  <1>3. Wakeups => Wakeups'
    BY DEF Wakeups, wakes, Live
  <1> QED BY <1>2, <1>3 DEF Moves

LEMMA FrontStep ==
  ASSUME IInv, UNCHANGED <<conf, cpu, dinst, stores>>, NEW p \in Procs, NEW g \in FrontEnd,
         fe' = [fe EXCEPT ![p] = g], g.pc = fe[p].pc, g.instQueue = fe[p].instQueue,
         g.spaceInInstQueue = fe[p].spaceInInstQueue,
         PoolsKept(fe[p].pipe, g.pipe), g.pipe.nCleanMarks = fe[p].pipe.nCleanMarks,
         PipeItems(g.pipe) = PipeItems(fe[p].pipe),
         \A d, e : PipeBefore(g.pipe, d, e) <=> PipeBefore(fe[p].pipe, d, e),
         Blocking(p) = {} \/ (g.missInstID = fe[p].missInstID /\ g.btac = fe[p].btac)
  PROVE  IInv' /\ (Window => Window')
  <1>1. /\ conf \in Confs /\ fe \in [Procs -> FrontEnd] /\ cpu \in [Procs -> Core]
        /\ dinst \in DInsts /\ Wakeups
    BY TypedFacts
  <1>2. fe' \in [Procs -> FrontEnd] /\ fe'[p] = g /\ \A q \in Procs \ {p} : fe'[q] = fe[q]
    BY <1>1
  <1>3. Moves({}) /\ Wakeups'
    BY <1>1, StillMoves
  <1>4. Typed'
    BY <1>2 DEF IInv, Typed
  <1>5. ASSUME NEW q \in Procs PROVE SamePlaces(q) /\ fe'[q].pc = fe[q].pc
    <2>1. CASE q = p
      BY <1>2, <2>1, SamePlacesFrom
    <2>2. CASE q # p
      BY <1>2, <2>2, SamePlacesFrom
    <2> QED BY <2>1, <2>2
  <1>6. ASSUME NEW q \in Procs PROVE NoNewPlaces(q)
    BY <1>5 DEF SamePlaces, NoNewPlaces
  <1>7. Placed' /\ Sequential'
    BY <1>3, <1>5, <1>6, AtRest DEF IInv
  <1>8. Origins' /\ Renaming' /\ Buffered'
    <2>1. Origins'
      BY <1>3, OriginsKept DEF IInv
    <2>2. Renaming'
      BY <1>3, RenamingKept DEF IInv, RenamedNext
    <2>3. stores \in [Words \cup {NoWord} -> Slots \cup {0}]
      BY DEF IInv, Typed
    <2>4. Buffered'
      BY <1>3, <2>3, BufferedKept DEF IInv, BufferedNext
    <2> QED BY <2>1, <2>2, <2>4
  <1>9. Resources' /\ (Window => Window') /\ \A q \in Procs : outstanding(q)' = outstanding(q)
    BY <1>3, CountsKept DEF IInv
  <1>10. Fenced'
    BY <1>3, <1>9, FencedKept DEF IInv
  <1>11. Buckets'
    <2>1. ASSUME NEW q \in Procs PROVE BucketsAt(q)'
      <3>1. PoolsKept(fe[q].pipe, fe'[q].pipe)
        <4>1. CASE q = p
          BY <1>2, <4>1
        <4>2. CASE q # p
          BY <1>1, <1>2, <4>2, FrontEndTypes DEF PoolsKept
        <4> QED BY <4>1, <4>2
      <3>2. fe'[q].instQueue = fe[q].instQueue /\ fe'[q].spaceInInstQueue = fe[q].spaceInInstQueue
        BY <1>2
      <3> QED BY <3>1, <3>2, PoolsKeptAt
    <2> QED BY <2>1, BucketsIs
  <1>12. Marked'
    <2>1. ASSUME NEW q \in Procs PROVE MarkedAt(q)'
      <3>1. MarkedAt(q)
        BY MarkedIs DEF IInv
      <3>2. Blocking(q)' = Blocking(q) /\ Blocking(q) \subseteq Slots
        BY DEF Blocking, InStage
      <3>3. /\ fe'[q].pipe.nCleanMarks = fe[q].pipe.nCleanMarks
            /\ \/ Blocking(q)' = {}
               \/ fe'[q].missInstID = fe[q].missInstID /\ fe'[q].btac = fe[q].btac
        <4>1. CASE q = p
          BY <1>2, <3>2, <4>1
        <4>2. CASE q # p
          BY <1>2, <4>2
        <4> QED BY <4>1, <4>2
      <3> QED BY <1>5, <3>1, <3>2, <3>3, MarkedKept DEF SamePlaces
    <2> QED BY <2>1, MarkedIs
  <1> QED BY <1>3, <1>4, <1>7, <1>8, <1>9, <1>10, <1>11, <1>12 DEF IInv

LEMMA UnBlockFetchStep ==
  ASSUME IInv, NEW p \in Procs, unBlockFetch(p)
  PROVE  IInv' /\ (Window => Window')
  <1>1. PICK f, g : f = fe[p] /\ g = [f EXCEPT !.missInstID = FALSE, !.btac = FALSE]
    OBVIOUS
  <1>2. f.btac /\ fe' = [fe EXCEPT ![p] = g] /\ UNCHANGED <<conf, cpu, dinst, stores>>
    BY <1>1 DEF unBlockFetch
  <1>3. f \in FrontEnd /\ f.pipe \in PipelineRec
    BY <1>1, TypedFacts, FrontEndTypes
  <1>4. /\ g \in FrontEnd /\ g.pipe = f.pipe /\ g.pc = f.pc /\ g.instQueue = f.instQueue
        /\ g.spaceInInstQueue = f.spaceInInstQueue
    BY <1>1, <1>3 DEF FrontEnd
  <1>5. Blocking(p) = {}
    <2>1. MarkedAt(p)
      BY MarkedIs DEF IInv
    <2> QED BY <1>1, <1>2, <2>1 DEF MarkedAt
  <1>6. PoolsKept(fe[p].pipe, g.pipe)
    BY <1>1, <1>3, <1>4 DEF PoolsKept
  <1>7. g.pipe = fe[p].pipe /\ g.pc = fe[p].pc /\ g.instQueue = fe[p].instQueue
        /\ g.spaceInInstQueue = fe[p].spaceInInstQueue
    BY <1>1, <1>4
  <1> QED BY <1>2, <1>4, <1>5, <1>6, <1>7, FrontStep

LEMMA MarkFetchedStep ==
  ASSUME IInv, NEW p \in Procs, NEW k, markFetched(p, k)
  PROVE  IInv' /\ (Window => Window')
  <1>1. PICK f, r, g : f = fe[p] /\ r = readyItem(f.pipe, k) /\ g = [f EXCEPT !.pipe = r]
    OBVIOUS
  <1>2. /\ k \in DOMAIN f.pipe.order /\ ~f.pipe.order[k].ready
        /\ fe' = [fe EXCEPT ![p] = g] /\ UNCHANGED <<conf, cpu, dinst, stores>>
    BY <1>1 DEF markFetched
  <1>3. f \in FrontEnd /\ f.pipe \in PipelineRec
    BY <1>1, TypedFacts, FrontEndTypes
  <1>4. /\ PoolsKept(f.pipe, r) /\ r.nCleanMarks = f.pipe.nCleanMarks
        /\ PipeItems(r) = PipeItems(f.pipe)
        /\ \A d, e : PipeBefore(r, d, e) <=> PipeBefore(f.pipe, d, e)
    BY <1>1, <1>2, <1>3, ReadyItem
  <1>5. /\ g \in FrontEnd /\ g.pipe = r /\ g.pc = f.pc /\ g.instQueue = f.instQueue
        /\ g.spaceInInstQueue = f.spaceInInstQueue
        /\ g.missInstID = f.missInstID /\ g.btac = f.btac
    <2>1. r \in PipelineRec
      BY <1>4 DEF PoolsKept
    <2> QED BY <1>1, <1>3, <2>1 DEF FrontEnd
  <1>6. /\ PoolsKept(fe[p].pipe, g.pipe) /\ g.pipe.nCleanMarks = fe[p].pipe.nCleanMarks
        /\ PipeItems(g.pipe) = PipeItems(fe[p].pipe)
        /\ \A d, e : PipeBefore(g.pipe, d, e) <=> PipeBefore(fe[p].pipe, d, e)
        /\ g.pc = fe[p].pc /\ g.instQueue = fe[p].instQueue
        /\ g.spaceInInstQueue = fe[p].spaceInInstQueue
        /\ g.missInstID = fe[p].missInstID /\ g.btac = fe[p].btac
    BY <1>1, <1>4, <1>5
  <1> QED BY <1>2, <1>5, <1>6, FrontStep

LEMMA Offset ==
  ASSUME NEW c \in Nat, NEW n \in Nat, NEW m \in Int, m >= c, m <= (c + n) - 1
  PROVE  \E i \in 1 .. n : c + i - 1 = m
  <1>1. PICK i \in Int : i = (m - c) + 1
    OBVIOUS
  <1>2. i \in 1 .. n /\ c + i - 1 = m
    BY <1>1
  <1> QED BY <1>2

(* Only what is in a place is before something.                            *)
LEMMA BeforePlaces ==
  ASSUME NEW p \in Procs, NEW d, NEW e, Before(p, d, e)
  PROVE  /\ d \in robOf(p) \cup queueOf(p) \cup inPipe(p)
         /\ e \in robOf(p) \cup queueOf(p) \cup inPipe(p)
  <1>1. \A s : Follows(s, d, e) => d \in Range(s) /\ e \in Range(s)
    BY DEF Follows, Range
  <1>2. \A A : Precedes(A, d, e) => d \in Items(A) /\ e \in Items(A)
    BY ItemsIn DEF Precedes
  <1> QED BY <1>1, <1>2 DEF Before, robOf, queueOf, inPipe, bufferOf, orderOf

(* Fetch.                                                                  *)
LEMMA NamesKept ==
  ASSUME IInv, NEW D, Moves(D), cpu' = cpu, stores' = stores,
         \A d \in D : dinst[d].st \in {"fetched", "free"}
  PROVE  Renaming' /\ Buffered'
  <1>0. "fetched" \notin inROB /\ "free" \notin inROB
    BY DEF inROB
  <1>1. Renaming'
    <2>1. ASSUME NEW q \in Procs, NEW r \in Regs \cup {NoDependence}
          PROVE  RenamedNext(q, r, cpu'[q].rat[r], D)
      <3>1. RenamedAs(q, r, cpu[q].rat[r])
        BY DEF IInv, Renaming
      <3> QED BY <1>0, <3>1 DEF RenamedAs, RenamedNext, InStage
    <2> QED BY <2>1, RenamingKept DEF IInv
  <1>2. Buffered'
    <2>0. stores \in [Words \cup {NoWord} -> Slots \cup {0}]
      BY DEF IInv, Typed
    <2>1. ASSUME NEW w \in Words \cup {NoWord} PROVE BufferedNext(w, stores'[w], D)
      <3>1. BufferedAs(w, stores[w])
        BY <2>0 DEF IInv, Buffered
      <3> QED BY <1>0, <3>1 DEF BufferedAs, BufferedNext
    <2> QED BY <2>0, <2>1, BufferedKept DEF IInv
  <1> QED BY <1>1, <1>2

(* The instructions of a bucket that is fetched: of the program and in its *)
(* order, or of a wrong path.                                              *)
Fetched(p, n, insts) ==
  \/ /\ \A i \in 1 .. n : ~insts[i].fake /\ insts[i].pos = fe[p].pc + i - 1
     /\ fe'[p].pc = fe[p].pc + n
  \/ (\A i \in 1 .. n : insts[i].fake) /\ fe'[p].pc = fe[p].pc
(* Fetch is blocked by the last of them, or not at all.                    *)
BlockedBy(p, n, insts) ==
  \/ /\ fe'[p].missInstID = fe[p].missInstID /\ fe'[p].btac = fe[p].btac
     /\ \A i \in 1 .. n : ~insts[i].fetch
  \/ /\ Blocking(p) = {}
     /\ \A i \in 1 .. n : insts[i].fetch => i = n /\ fe'[p].missInstID /\ ~fe'[p].btac
OriginAs(y) ==
  /\ y.fake => conf.misPath /\ \E b \in FakeBuckets : y.inst \in Range(b)
  /\ ~y.fake => y.inst \in Range(Program(y.proc))
  /\ y.fetch => y.inst.op = "branch" /\ ~y.fake

LEMMA FetchStep ==
  ASSUME IInv, NEW p \in Procs, NEW n \in Nat, NEW slots \in [1 .. n -> Slots \ Live],
         IsInjective(slots), NEW insts,
         \A i \in 1 .. n : Fresh(insts[i]) /\ insts[i].proc = p /\ OriginAs(insts[i]),
         dinst' = Fill(slots, insts), UNCHANGED <<conf, cpu, stores>>,
         NEW g \in FrontEnd, fe' = [fe EXCEPT ![p] = g], g.pipe = newItem(fe[p].pipe, slots),
         g.instQueue = fe[p].instQueue, g.spaceInInstQueue = fe[p].spaceInInstQueue,
         Fetched(p, n, insts), BlockedBy(p, n, insts)
  PROVE  IInv' /\ (Window => Window')
  <1> DEFINE D == Range(slots)
  <1>1. /\ conf \in Confs /\ fe \in [Procs -> FrontEnd] /\ cpu \in [Procs -> Core]
        /\ dinst \in DInsts /\ Wakeups
    BY TypedFacts
  <1>2. fe' \in [Procs -> FrontEnd] /\ fe'[p] = g /\ \A q \in Procs \ {p} : fe'[q] = fe[q]
    BY <1>1
  <1>3. /\ dinst' \in DInsts /\ Drift(D) /\ Wakeups'
        /\ \A i \in 1 .. n : dinst'[slots[i]] = insts[i]
        /\ D \subseteq Slots \ Live
    BY <1>1, FilledStep
  <1>4. Moves(D)
    BY <1>1, <1>3 DEF Moves
  <1>5. ASSUME NEW d \in D
        PROVE  /\ d \in Slots /\ dinst[d].st = "free" /\ dinst'[d] \in DInst
               /\ dinst'[d].st = "fetched" /\ dinst'[d].proc = p /\ dinst'[d].pend = {}
    <2>1. PICK i \in 1 .. n : d = slots[i]
      BY DEF Range
    <2>2. dinst[d] = Free /\ d \in Slots
      BY <1>3 DEF Live
    <2> QED BY <1>3, <2>1, <2>2 DEF Fresh, Free
  <1>6. Typed'
    BY <1>2, <1>3 DEF IInv, Typed, DInsts
  <1>7. Resources' /\ (Window => Window') /\ \A q \in Procs : outstanding(q)' = outstanding(q)
    BY <1>4, <1>5, CountsKept DEF IInv
  <1>8. Fenced'
    BY <1>4, <1>5, <1>7, FencedKept DEF IInv
  <1>9. Renaming' /\ Buffered'
    BY <1>4, <1>5, NamesKept
  <1>10. Origins'
    <2>1. ASSUME NEW d \in D PROVE OriginOf(d)'
      <3>1. PICK i \in 1 .. n : d = slots[i]
        BY DEF Range
      <3>2. OriginAs(insts[i]) /\ dinst'[d] = insts[i]
        BY <1>3, <3>1
      <3> QED BY <3>2 DEF OriginAs, OriginOf, Op, Fake, Program
    <2> QED BY <1>4, <2>1, OriginsKept DEF IInv
  <1>11. /\ DOMAIN slots = 1 .. n /\ slots \in Seq(Slots) /\ slots \in Seq(Nat)
         /\ \A i, j \in 1 .. n : slots[i] = slots[j] => i = j
    <2>1. slots \in Seq(Slots)
      BY SeqDef
    <2> QED BY <2>1, BucketsNested DEF IsInjective
  <1>12. Added(fe[p].pipe, fe'[p].pipe, slots) /\ fe'[p].pipe.nCleanMarks = fe[p].pipe.nCleanMarks
    <2>1. fe[p].pipe \in PipelineRec
      BY TypedFacts, FrontEndTypes
    <2> QED BY <1>2, <1>11, <2>1, FetchedItem
  <1>13. /\ robOf(p)' = robOf(p) /\ queueOf(p)' = queueOf(p)
         /\ inPipe(p)' = inPipe(p) \cup D
         /\ \A d, e : Before(p, d, e)' <=>
              \/ Before(p, d, e) \/ Follows(slots, d, e)
              \/ (d \in robOf(p) \cup queueOf(p) \cup inPipe(p) /\ e \in D)
    BY <1>2, <1>12, AddedPlaces
  <1>14. ASSUME NEW q \in Procs, q # p PROVE SamePlaces(q) /\ fe'[q].pc = fe[q].pc
    BY <1>2, <1>14, SamePlacesFrom
  <1>15. ASSUME NEW q \in Procs
         PROVE  /\ InStage(q, inROB)' = InStage(q, inROB)
                /\ InStage(q, {"fetched"})' =
                     IF q = p THEN InStage(q, {"fetched"}) \cup D ELSE InStage(q, {"fetched"})
                /\ InStage(q, inROB) \cap D = {} /\ InStage(q, {"fetched"}) \cap D = {}
    <2>1. /\ Closed(inROB) /\ inROB \in SUBSET Stages
          /\ Closed({"fetched"}) /\ {"fetched"} \in SUBSET Stages
      BY ClosedStages DEF Closed
    <2>2. \A x \in Slots \ D :
            /\ x \in InStage(q, inROB)' <=> x \in InStage(q, inROB)
            /\ x \in InStage(q, {"fetched"})' <=> x \in InStage(q, {"fetched"})
      BY <1>4, <2>1, Drifted DEF Moves
    <2>3. \A x \in D : /\ x \notin InStage(q, inROB) /\ x \notin InStage(q, inROB)'
                       /\ x \notin InStage(q, {"fetched"})
                       /\ x \in InStage(q, {"fetched"})' <=> q = p
      BY <1>5 DEF InStage, inROB
    <2>4. {InStage(q, inROB), InStage(q, inROB)', InStage(q, {"fetched"}), InStage(q, {"fetched"})', D}
            \subseteq SUBSET Slots
      BY <1>5 DEF InStage
    <2> HIDE DEF D
    <2> QED BY <2>2, <2>3, <2>4
  <1>16. Placed'
    <2>1. ASSUME NEW q \in Procs PROVE PlacedAt(q)'
      <3>1. PlacedAt(q)
        BY PlacedIs DEF IInv
      <3>2. CASE q # p
        BY <1>14, <1>15, <3>1, <3>2 DEF PlacedAt, SamePlaces
      <3>3. CASE q = p
        <4>1. robOf(p)' = InStage(p, inROB)'
          BY <1>13, <1>15, <3>1, <3>3 DEF PlacedAt
        <4>2. (queueOf(p) \cup inPipe(p))' \ {0} = InStage(p, {"fetched"})'
          <5>1. 0 \notin D
            BY <1>5, BucketsNested
          <5>2. (queueOf(p) \cup inPipe(p)) \ {0} = InStage(p, {"fetched"})
            BY <3>1, <3>3 DEF PlacedAt
          <5>3. InStage(p, {"fetched"})' = InStage(p, {"fetched"}) \cup D
            BY <1>15
          <5>4. (queueOf(p) \cup inPipe(p))' = queueOf(p) \cup inPipe(p) \cup D
            BY <1>13
          <5> HIDE DEF D
          <5> QED BY <5>1, <5>2, <5>3, <5>4
        <4>3. ASSUME NEW d \in Slots PROVE ~Before(p, d, d)'
          <5>1. ~Before(p, d, d)
            BY <3>1, <3>3 DEF PlacedAt
          <5>2. ~Follows(slots, d, d)
            BY <1>11 DEF Follows
          <5>3. d \in D => d \notin robOf(p) \cup queueOf(p) \cup inPipe(p)
            <6>1. 0 \notin D
              BY <1>5, BucketsNested
            <6> HIDE DEF D
            <6> QED BY <1>15, <3>1, <3>3, <6>1 DEF PlacedAt
          <5> QED BY <1>13, <5>1, <5>2, <5>3
        <4> QED BY <3>3, <4>1, <4>2, <4>3 DEF PlacedAt
      <3> QED BY <3>2, <3>3
    <2> QED BY <2>1, PlacedIs
  <1>17. ASSUME NEW q \in Procs, NEW x \in Slots \ D
         PROVE  /\ x \in Real(q)' <=> x \in Real(q)
                /\ x \in Real(q) => dinst'[x].pos = dinst[x].pos
                /\ x \in Blocking(q)' <=> x \in Blocking(q)
    <2>1. /\ x \in Real(q)' <=> x \in Real(q)
          /\ x \in Blocking(q)' <=> x \in Blocking(q)
      BY <1>4, DriftedSets DEF Moves
    <2>2. ASSUME x \in Real(q) PROVE dinst'[x].pos = dinst[x].pos
      <3>1. x \in Live
        BY <2>2 DEF Real, InStage, Live, Free, inROB
      <3>2. Alike(dinst[x], dinst'[x])
        BY <1>4, <3>1, Drifted DEF Moves
      <3> QED BY <3>2 DEF Alike
    <2> QED BY <2>1, <2>2
  <1>18. ASSUME NEW q \in Procs, NEW x \in D
         PROVE  /\ x \notin Real(q) /\ x \notin Blocking(q)
                /\ x \in Real(q)' <=> q = p /\ ~dinst'[x].fake
                /\ x \in Blocking(q)' <=> q = p /\ dinst'[x].fetch
    BY <1>5 DEF Real, Blocking, InStage, inROB, waiting
  <1>19. Sequential'
    <2>1. ASSUME NEW q \in Procs PROVE SequentialAt(q)'
      <3>1. SequentialAt(q)
        BY PlacedIs DEF IInv
      <3>2. Real(q) \subseteq Slots /\ Real(q)' \subseteq Slots
        BY DEF Real, InStage
      <3>3. CASE q # p
        <4>1. Real(q)' = Real(q)
          <5>1. \A x \in Slots : x \in Real(q)' <=> x \in Real(q)
            BY <1>17, <1>18, <3>3
          <5> QED BY <3>2, <5>1
        <4>2. \A d \in Real(q) : dinst'[d].pos = dinst[d].pos
          BY <1>17, <1>18, <3>2
        <4> QED BY <1>14, <3>2, <3>3, <4>1, <4>2, SequentialKept DEF IInv, SamePlaces
      <3>4. CASE q = p /\ (\A i \in 1 .. n : insts[i].fake) /\ fe'[p].pc = fe[p].pc
        <4>1. \A x \in D : dinst'[x].fake
          BY <1>3, <3>4 DEF Range
        <4>2. Real(q)' = Real(q)
          <5>1. \A x \in Slots : x \in Real(q)' <=> x \in Real(q)
            BY <1>17, <1>18, <4>1
          <5> QED BY <3>2, <5>1
        <4>3. \A d \in Real(q) : dinst'[d].pos = dinst[d].pos /\ d \notin D
          BY <1>17, <1>18, <3>2
        <4>4. ASSUME NEW d \in Real(q)', NEW e \in Real(q)', Before(q, d, e)'
              PROVE  dinst'[d].pos < dinst'[e].pos
          <5>1. d \in Real(q) /\ e \in Real(q) /\ d \notin D /\ e \notin D
            BY <4>2, <4>3
          <5>2. ~Follows(slots, d, e)
            BY <5>1 DEF Follows, Range
          <5>3. Before(q, d, e)
            BY <1>13, <3>4, <4>4, <5>1, <5>2
          <5> QED BY <3>1, <4>3, <5>1, <5>3 DEF SequentialAt
        <4>5. {dinst'[d].pos : d \in Real(q)'} = {dinst[d].pos : d \in Real(q)}
          BY <4>2, <4>3
        <4> QED BY <3>1, <3>4, <4>4, <4>5 DEF SequentialAt
      <3>5. CASE /\ q = p /\ fe'[p].pc = fe[p].pc + n
                 /\ \A i \in 1 .. n : ~insts[i].fake /\ insts[i].pos = fe[p].pc + i - 1
        <4>0. PICK c \in Nat, r \in Nat : c = fe[p].pc /\ r = cpu[p].retired
          BY <1>1, FrontEndTypes, CoreTypes
        <4>1. \A i \in 1 .. n : slots[i] \in D /\ dinst'[slots[i]].pos = c + i - 1
          BY <1>3, <1>11, <3>5, <4>0 DEF Range
        <4>2. Real(q)' = Real(q) \cup D /\ Real(q) \cap D = {}
          <5>1. \A x \in D : ~dinst'[x].fake
            BY <1>3, <3>5 DEF Range
          <5>2. D \subseteq Slots
            BY <1>3
          <5> HIDE DEF D
          <5> QED BY <1>17, <1>18, <3>2, <3>5, <5>1, <5>2
        <4>3. \A d \in Real(q) : dinst'[d].pos = dinst[d].pos
          BY <1>17, <1>18, <3>2
        <4>4. {dinst[d].pos : d \in Real(q)} = r + 1 .. c - 1 /\ r < c
          BY <3>1, <3>5, <4>0 DEF SequentialAt
        <4>5. \A d \in Real(q) : dinst'[d].pos \in r + 1 .. c - 1
          BY <4>3, <4>4
        <4>6. \A d \in D : \E i \in 1 .. n : d = slots[i] /\ dinst'[d].pos = c + i - 1
          BY <4>1 DEF Range
        <4>7. ASSUME NEW d \in Real(q)', NEW e \in Real(q)', Before(q, d, e)'
              PROVE  dinst'[d].pos < dinst'[e].pos
          <5>1. CASE d \in Real(q) /\ e \in Real(q)
            <6>1. ~Follows(slots, d, e)
              BY <4>2, <5>1 DEF Follows, Range
            <6>2. Before(q, d, e)
              BY <1>13, <3>5, <4>2, <4>7, <5>1, <6>1
            <6> QED BY <3>1, <4>3, <5>1, <6>2 DEF SequentialAt
          <5>2. CASE d \in Real(q) /\ e \in D
            BY <4>0, <4>5, <4>6, <5>2
          <5>3. CASE d \in D
            <6>1. d \notin robOf(p) \cup queueOf(p) \cup inPipe(p)
              <7>1. PlacedAt(p) /\ d # 0
                BY <1>5, <5>3, PlacedIs, BucketsNested DEF IInv
              <7> HIDE DEF D
              <7> QED BY <1>15, <5>3, <7>1 DEF PlacedAt
            <6>2. ~Before(p, d, e)
              BY <6>1, BeforePlaces
            <6>3. Follows(slots, d, e)
              BY <1>13, <3>5, <4>7, <6>1, <6>2
            <6>4. PICK k \in 1 .. n, l \in 1 .. n : k < l /\ slots[k] = d /\ slots[l] = e
              BY <1>11, <6>3 DEF Follows
            <6> QED BY <4>0, <4>1, <6>4, SMTT(30)
          <5> QED BY <4>2, <5>1, <5>2, <5>3
        <4>8. {dinst'[d].pos : d \in Real(q)'} = r + 1 .. (c + n) - 1
          <5>1. ASSUME NEW d \in Real(q)' PROVE dinst'[d].pos \in r + 1 .. (c + n) - 1
            <6>1. CASE d \in Real(q)
              BY <4>0, <4>5, <6>1
            <6>2. CASE d \in D
              BY <4>0, <4>4, <4>6, <6>2
            <6> QED BY <4>2, <6>1, <6>2
          <5>2. ASSUME NEW m \in r + 1 .. (c + n) - 1
                PROVE  \E d \in Real(q)' : dinst'[d].pos = m
            <6>1. CASE m < c
              <7>1. m \in r + 1 .. c - 1
                BY <4>0, <6>1
              <7>2. PICK d \in Real(q) : dinst[d].pos = m
                BY <4>4, <7>1
              <7> QED BY <4>2, <4>3, <7>2
            <6>2. CASE m >= c
              <7>1. m \in Int /\ m >= c /\ m <= (c + n) - 1
                BY <4>0, <6>2
              <7>2. PICK i \in 1 .. n : c + i - 1 = m
                BY <4>0, <7>1, Offset
              <7> QED BY <4>1, <4>2, <7>2
            <6> QED BY <4>0, <6>1, <6>2
          <5> QED BY <5>1, <5>2
        <4>9. r < c + n
          BY <4>0, <4>4
        <4> QED BY <3>5, <4>0, <4>7, <4>8, <4>9 DEF SequentialAt
      <3> QED BY <3>3, <3>4, <3>5 DEF Fetched
    <2> QED BY <2>1, PlacedIs
  <1>20. Buckets'
    <2>1. ASSUME NEW q \in Procs PROVE BucketsAt(q)'
      <3>1. PoolsKept(fe[q].pipe, fe'[q].pipe)
        <4>1. CASE q = p
          BY <1>12, <4>1 DEF Added
        <4>2. CASE q # p
          BY <1>1, <1>2, <4>2, FrontEndTypes DEF PoolsKept
        <4> QED BY <4>1, <4>2
      <3>2. fe'[q].instQueue = fe[q].instQueue /\ fe'[q].spaceInInstQueue = fe[q].spaceInInstQueue
        BY <1>2
      <3> QED BY <3>1, <3>2, PoolsKeptAt
    <2> QED BY <2>1, BucketsIs
  <1>21. Marked'
    <2>1. ASSUME NEW q \in Procs PROVE MarkedAt(q)'
      <3>1. MarkedAt(q)
        BY MarkedIs DEF IInv
      <3>2. Blocking(q) \subseteq Slots /\ Blocking(q)' \subseteq Slots
        BY DEF Blocking, InStage
      <3>3. 0 \notin D /\ D \subseteq Slots
        BY <1>5, BucketsNested
      <3>4. CASE q # p
        <4>1. Blocking(q)' \subseteq Blocking(q)
          BY <1>17, <1>18, <3>2, <3>4
        <4>2. fe'[q] = fe[q]
          BY <1>2, <3>4
        <4> QED BY <1>14, <3>1, <3>2, <3>4, <4>1, <4>2, MarkedKept DEF SamePlaces
      <3>5. CASE q = p
        <4>1. ~Before(p, 0, 0)'
          <5>1. ~Follows(slots, 0, 0)
            BY <3>3 DEF Follows, Range
          <5> QED BY <1>13, <3>1, <3>3, <3>5, <5>1 DEF MarkedAt
        <4>2. fe'[p].pipe.nCleanMarks = One(0 \in inPipe(p)')
          <5> HIDE DEF D
          <5>1. 0 \in inPipe(p)' <=> 0 \in inPipe(p)
            BY <1>13, <3>3
          <5> QED BY <1>12, <3>1, <3>5, <5>1 DEF MarkedAt, One
        <4>3. ASSUME NEW d \in Blocking(p)'
              PROVE  /\ fe'[p].missInstID /\ ~fe'[p].btac /\ ~Before(p, d, 0)'
                     /\ Blocking(p)' = {d}
          <5>1. ~Follows(slots, d, 0)
            BY <3>3 DEF Follows, Range
          <5>2. CASE /\ fe'[p].missInstID = fe[p].missInstID /\ fe'[p].btac = fe[p].btac
                     /\ \A i \in 1 .. n : ~insts[i].fetch
            <6>1. \A x \in D : ~dinst'[x].fetch
              BY <1>3, <5>2 DEF Range
            <6>2. Blocking(p)' = Blocking(p)
              <7>1. \A x \in Slots : x \in Blocking(p)' <=> x \in Blocking(p)
                BY <1>17, <1>18, <6>1
              <7> QED BY <3>2, <3>5, <7>1
            <6>3. d \in Blocking(p)
              BY <6>2
            <6>4. /\ fe[p].missInstID /\ ~fe[p].btac /\ ~Before(p, d, 0)
                  /\ Blocking(p) = {d}
              BY <3>1, <3>5, <6>3 DEF MarkedAt
            <6> QED BY <1>13, <3>3, <5>1, <5>2, <6>2, <6>4
          <5>3. CASE /\ Blocking(p) = {}
                     /\ \A i \in 1 .. n : insts[i].fetch => i = n /\ fe'[p].missInstID /\ ~fe'[p].btac
            <6>1. \A x \in Blocking(p)' : x \in D /\ dinst'[x].fetch
              BY <1>17, <1>18, <3>2, <3>5, <5>3
            <6>2. \A x \in Blocking(p)' : x = slots[n] /\ fe'[p].missInstID /\ ~fe'[p].btac
              BY <1>3, <5>3, <6>1 DEF Range
            <6>3. d \in D
              BY <6>1
            <6>4. d \notin robOf(p) \cup queueOf(p) \cup inPipe(p)
              <7>1. PlacedAt(p) /\ d # 0
                BY <1>5, <6>3, PlacedIs, BucketsNested DEF IInv
              <7> HIDE DEF D
              <7> QED BY <1>15, <6>3, <7>1 DEF PlacedAt
            <6>5. ~Before(p, d, 0)
              BY <6>4, BeforePlaces
            <6>6. ~Before(p, d, 0)'
              BY <1>13, <3>3, <5>1, <6>5
            <6>7. Blocking(p)' = {d}
              BY <6>2
            <6> QED BY <6>2, <6>6, <6>7
          <5> QED BY <5>2, <5>3 DEF BlockedBy
        <4> QED BY <3>5, <4>1, <4>2, <4>3 DEF MarkedAt
      <3> QED BY <3>4, <3>5
    <2> QED BY <2>1, MarkedIs
  <1> QED BY <1>3, <1>6, <1>7, <1>8, <1>9, <1>10, <1>16, <1>19, <1>20, <1>21 DEF IInv

LEMMA Created ==
  ASSUME NEW p \in Procs, NEW n \in Nat, NEW i \in Instruction, NEW fake \in BOOLEAN,
         NEW miss \in BOOLEAN, NEW y, y = createDInst(p, n, i, fake, miss)
  PROVE  /\ Fresh(y) /\ y.proc = p /\ y.pos = n /\ y.inst = i /\ y.fake = fake
         /\ y.fetch = miss
  <1>1. {} \in Deps /\ {} \in Pends /\ "fetched" \in Stages /\ 0 \in Nat
    BY DEF Deps, Pends, Stages
  <1>2. y \in DInst
    BY <1>1 DEF createDInst, DInst
  <1> QED BY <1>2 DEF createDInst, Fresh

LEMMA RealFetchStep ==
  ASSUME IInv, NEW p \in Procs, NEW n \in 0 .. FetchWidth,
         NEW miss \in {"no", "resolve", "btac"}, realFetch(p, n, miss)
  PROVE  IInv' /\ (Window => Window')
  <1>1. PICK f, slots, insts, g, prog :
          /\ f = fe[p] /\ slots = outOfPool(n) /\ prog = Program(p)
          /\ insts = [i \in 1 .. n |->
                        createDInst(p, fe[p].pc + i - 1, Program(p)[fe[p].pc + i - 1],
                                    FALSE, i = n /\ miss = "resolve")]
          /\ g = [f EXCEPT !.pc = @ + n, !.missInstID = miss # "no", !.btac = miss = "btac",
                           !.pipe = newItem(@, slots)]
    OBVIOUS
  <1>2. /\ ~f.missInstID /\ f.pc + n - 1 <= Len(prog) /\ n <= Cardinality(Slots \ Live)
        /\ IF n = 0 THEN miss = "no" ELSE processBranch(p, f.pc + n - 1, miss)
        /\ dinst' = Fill(slots, insts) /\ fe' = [fe EXCEPT ![p] = g]
        /\ UNCHANGED <<conf, cpu, stores>>
    BY <1>1 DEF realFetch
  <1>3. /\ f \in FrontEnd /\ f.pipe \in PipelineRec /\ fe \in [Procs -> FrontEnd]
        /\ n \in Nat
    BY <1>1, TypedFacts, FrontEndTypes, SizeAssumption
  <1>4. PICK c \in Nat \ {0} : c = f.pc
    BY <1>3, FrontEndTypes
  <1>5. prog \in Seq(Instruction)
    <2>1. conf.prog \in [Procs -> Seq(Instruction)]
      BY TypedFacts, ProgramsAssumption
    <2> QED BY <1>1, <2>1 DEF Program
  <1>6. slots \in [1 .. n -> Slots \ Live] /\ IsInjective(slots)
    BY <1>1, <1>2, <1>3, OutOfPool
  <1>7. ASSUME NEW i \in 1 .. n
        PROVE  /\ Fresh(insts[i]) /\ insts[i].proc = p /\ OriginAs(insts[i])
               /\ ~insts[i].fake /\ insts[i].pos = f.pc + i - 1
               /\ insts[i].fetch => i = n /\ miss = "resolve"
    <2>1. PICK k \in Nat : k = c + i - 1 /\ k \in 1 .. Len(prog)
      <3>1. PICK l \in Nat : l = Len(prog)
        BY <1>5
      <3>2. c + n - 1 <= l
        BY <1>2, <1>4, <3>1
      <3>3. c + i - 1 \in Nat /\ c + i - 1 >= 1 /\ c + i - 1 <= l
        BY <1>3, <3>2
      <3> QED BY <3>1, <3>3
    <2>2. prog[k] \in Instruction /\ prog[k] \in Range(prog)
      BY <1>5, <2>1 DEF Range
    <2>3. PICK m \in BOOLEAN, no \in BOOLEAN : m = (i = n /\ miss = "resolve") /\ no = FALSE
      OBVIOUS
    <2>4. insts[i] = createDInst(p, k, prog[k], no, m)
      BY <1>1, <1>4, <2>1, <2>3
    <2>5. PICK y : y = insts[i]
      OBVIOUS
    <2>6. /\ Fresh(y) /\ y.proc = p /\ y.pos = k /\ y.inst = prog[k] /\ y.fake = no
          /\ y.fetch = m
      BY <2>1, <2>2, <2>4, <2>5, Created
    <2>7. m = TRUE => i = n /\ miss = "resolve" /\ prog[k].op = "branch"
      <3>1. m = TRUE => i = n /\ miss = "resolve"
        BY <2>3
      <3>2. n # 0 /\ miss # "no" => Program(p)[f.pc + n - 1].op = "branch"
        BY <1>2 DEF processBranch
      <3>3. n # 0
        BY <1>3
      <3> QED BY <1>1, <1>4, <2>1, <3>1, <3>2, <3>3
    <2>8. OriginAs(y)
      BY <1>1, <2>2, <2>3, <2>6, <2>7 DEF OriginAs
    <2> QED BY <1>4, <2>1, <2>3, <2>5, <2>6, <2>7, <2>8
  <1>8. /\ g \in FrontEnd /\ g.pc = f.pc + n /\ g.missInstID = (miss # "no")
        /\ g.btac = (miss = "btac") /\ g.pipe = newItem(f.pipe, slots)
        /\ g.instQueue = f.instQueue /\ g.spaceInInstQueue = f.spaceInInstQueue
    <2>1. PICK r, m, b, k : /\ r = newItem(f.pipe, slots) /\ m = (miss # "no")
                            /\ b = (miss = "btac") /\ k = c + n
      OBVIOUS
    <2>2. g = [f EXCEPT !.pc = k, !.missInstID = m, !.btac = b, !.pipe = r]
      <3> HIDE DEF newItem
      <3> QED BY <1>1, <1>4, <2>1
    <2>3. k \in Nat \ {0} /\ m \in BOOLEAN /\ b \in BOOLEAN
      BY <1>3, <2>1
    <2>4. r \in PipelineRec
      <3>1. slots \in Seq(Slots)
        BY <1>3, <1>6, SeqDef
      <3>2. Added(f.pipe, newItem(f.pipe, slots), slots)
        BY <1>3, <3>1, FetchedItem
      <3> QED BY <2>1, <3>2 DEF Added, PoolsKept
    <2>5. /\ g \in FrontEnd /\ g.pc = k /\ g.missInstID = m /\ g.btac = b /\ g.pipe = r
          /\ g.instQueue = f.instQueue /\ g.spaceInInstQueue = f.spaceInInstQueue
      BY <1>3, <2>2, <2>3, <2>4 DEF FrontEnd
    <2> QED BY <1>4, <2>1, <2>5
  <1>9. fe'[p] = g
    BY <1>2, <1>3
  <1>10. Fetched(p, n, insts)
    BY <1>1, <1>7, <1>8, <1>9 DEF Fetched
  <1>11. BlockedBy(p, n, insts)
    <2>1. Blocking(p) = {}
      <3>1. MarkedAt(p)
        BY MarkedIs DEF IInv
      <3> QED BY <1>1, <1>2, <3>1 DEF MarkedAt
    <2> QED BY <1>7, <1>8, <1>9, <2>1 DEF BlockedBy
  <1>12. /\ g.pipe = newItem(fe[p].pipe, slots) /\ g.instQueue = fe[p].instQueue
         /\ g.spaceInInstQueue = fe[p].spaceInInstQueue
    BY <1>1, <1>8
  <1>13. \A i \in 1 .. n : Fresh(insts[i]) /\ insts[i].proc = p /\ OriginAs(insts[i])
    BY <1>7
  <1> QED BY <1>2, <1>3, <1>6, <1>8, <1>10, <1>11, <1>12, <1>13, FetchStep

LEMMA FakeFetchStep ==
  ASSUME IInv, NEW p \in Procs, NEW bucket \in {<<>>} \cup FakeBuckets, fakeFetch(p, bucket)
  PROVE  IInv' /\ (Window => Window')
  <1>1. PICK n, f, slots, insts, g :
          /\ n = Len(bucket) /\ f = fe[p] /\ slots = outOfPool(n)
          /\ insts = [i \in DOMAIN bucket |-> createDInst(p, 0, bucket[i], TRUE, FALSE)]
          /\ g = [f EXCEPT !.pipe = newItem(@, slots)]
    OBVIOUS
  <1>2. /\ ~conf.misPath => bucket = <<>>
        /\ n <= Cardinality(Slots \ Live)
        /\ dinst' = Fill(slots, insts) /\ fe' = [fe EXCEPT ![p] = g]
        /\ UNCHANGED <<conf, cpu, stores>>
    BY <1>1 DEF fakeFetch
  <1>3. bucket \in Seq(Instruction) /\ DOMAIN bucket = 1 .. n /\ n \in Nat
    <2>1. bucket \in Seq(Instruction)
      <3>1. FakeBuckets \subseteq Seq(Instruction)
        BY ProgramsAssumption, Zenon
      <3>2. <<>> \in Seq(Instruction)
        OBVIOUS
      <3> QED BY <3>1, <3>2
    <2> QED BY <1>1, <2>1
  <1>4. f \in FrontEnd /\ f.pipe \in PipelineRec /\ fe \in [Procs -> FrontEnd]
    BY <1>1, TypedFacts, FrontEndTypes
  <1>5. slots \in [1 .. n -> Slots \ Live] /\ IsInjective(slots)
    BY <1>1, <1>2, <1>3, OutOfPool
  <1>6. ASSUME NEW i \in 1 .. n
        PROVE  /\ Fresh(insts[i]) /\ insts[i].proc = p /\ OriginAs(insts[i])
               /\ insts[i].fake /\ ~insts[i].fetch
    <2>1. bucket[i] \in Instruction /\ bucket[i] \in Range(bucket) /\ bucket # <<>>
      BY <1>3 DEF Range
    <2>2. PICK y : y = insts[i]
      OBVIOUS
    <2>3. PICK yes \in BOOLEAN, no \in BOOLEAN : yes = TRUE /\ no = FALSE
      OBVIOUS
    <2>4. Fresh(y) /\ y.proc = p /\ y.inst = bucket[i] /\ y.fake = TRUE /\ y.fetch = FALSE
      <3>1. PICK z \in Nat, w \in Instruction : z = 0 /\ w = bucket[i]
        BY <2>1
      <3>2. y = createDInst(p, z, w, yes, no)
        BY <1>1, <1>3, <2>2, <2>3, <3>1
      <3>3. Fresh(y) /\ y.proc = p /\ y.inst = w /\ y.fake = yes /\ y.fetch = no
        BY <3>2, Created
      <3> QED BY <2>3, <3>1, <3>3
    <2>5. conf.misPath /\ bucket \in FakeBuckets
      BY <1>2, <2>1
    <2>6. OriginAs(y)
      BY <2>1, <2>4, <2>5 DEF OriginAs
    <2> QED BY <2>2, <2>4, <2>6
  <1>7. /\ g \in FrontEnd /\ g.pc = f.pc /\ g.missInstID = f.missInstID /\ g.btac = f.btac
        /\ g.pipe = newItem(f.pipe, slots) /\ g.instQueue = f.instQueue
        /\ g.spaceInInstQueue = f.spaceInInstQueue
    <2>1. PICK r : r = newItem(f.pipe, slots)
      OBVIOUS
    <2>2. g = [f EXCEPT !.pipe = r]
      BY <1>1, <2>1
    <2>3. r \in PipelineRec
      <3>1. slots \in Seq(Slots)
        BY <1>3, <1>5, SeqDef
      <3>2. Added(f.pipe, newItem(f.pipe, slots), slots)
        BY <1>4, <3>1, FetchedItem
      <3> QED BY <2>1, <3>2 DEF Added, PoolsKept
    <2>4. /\ g \in FrontEnd /\ g.pc = f.pc /\ g.missInstID = f.missInstID /\ g.btac = f.btac
          /\ g.pipe = r /\ g.instQueue = f.instQueue /\ g.spaceInInstQueue = f.spaceInInstQueue
      BY <1>4, <2>2, <2>3 DEF FrontEnd
    <2> QED BY <2>1, <2>4
  <1>8. fe'[p] = g
    BY <1>2, <1>4
  <1>9. Fetched(p, n, insts) /\ BlockedBy(p, n, insts)
    BY <1>1, <1>6, <1>7, <1>8 DEF Fetched, BlockedBy
  <1>10. /\ g.pipe = newItem(fe[p].pipe, slots) /\ g.instQueue = fe[p].instQueue
         /\ g.spaceInInstQueue = fe[p].spaceInInstQueue
    BY <1>1, <1>7
  <1>11. \A i \in 1 .. n : Fresh(insts[i]) /\ insts[i].proc = p /\ OriginAs(insts[i])
    BY <1>6
  <1> QED BY <1>2, <1>3, <1>5, <1>7, <1>9, <1>10, <1>11, FetchStep

(* Decode: instructions of a wrong path are taken out, nothing is added    *)
(* and the order stays.                                                    *)
LEMMA DecodedStep ==
  ASSUME IInv, NEW p \in Procs, NEW K \in SUBSET InStage(p, {"fetched"}),
         \A d \in K : dinst[d].fake, dinst' = Killed(K), UNCHANGED <<conf, cpu, stores>>,
         NEW g \in FrontEnd, fe' = [fe EXCEPT ![p] = g], g.pc = fe[p].pc,
         g.missInstID = fe[p].missInstID, g.btac = fe[p].btac,
         (queueOf(p) \cup inPipe(p))' \ {0} = ((queueOf(p) \cup inPipe(p)) \ {0}) \ K,
         \A d, e \in Slots \cup {0} : Before(p, d, e)' => Before(p, d, e),
         g.pipe.nCleanMarks = One(0 \in inPipe(p)'), BucketsAt(p)'
  PROVE  IInv' /\ (Window => Window')
  <1>1. /\ conf \in Confs /\ fe \in [Procs -> FrontEnd] /\ cpu \in [Procs -> Core]
        /\ dinst \in DInsts /\ Wakeups
    BY TypedFacts
  <1>2. fe' \in [Procs -> FrontEnd] /\ fe'[p] = g /\ \A q \in Procs \ {p} : fe'[q] = fe[q]
    BY <1>1
  <1>3. K \in SUBSET Live /\ \A d \in K : dinst[d].st = "fetched" /\ dinst[d].proc = p /\ d \in Slots
    BY DEF InStage, Live, Free
  <1>4. dinst' \in DInsts /\ Drift(K) /\ Wakeups' /\ \A d \in K : dinst'[d] = Free
    BY <1>1, <1>3, KilledStep
  <1>5. Moves(K) /\ \A d \in K : dinst'[d].st = "free"
    BY <1>1, <1>3, <1>4 DEF Moves, Free
  <1>6. Typed'
    BY <1>2, <1>4 DEF IInv, Typed, DInsts
  <1>7. Resources' /\ (Window => Window') /\ \A q \in Procs : outstanding(q)' = outstanding(q)
    BY <1>3, <1>5, CountsKept DEF IInv
  <1>8. Fenced'
    BY <1>5, <1>7, FencedKept DEF IInv
  <1>9. Renaming' /\ Buffered'
    BY <1>3, <1>5, NamesKept
  <1>10. Origins'
    BY <1>4, <1>5, OriginsKept DEF IInv
  <1>11. ASSUME NEW q \in Procs, q # p PROVE SamePlaces(q)
    BY <1>2, <1>11, SamePlacesFrom
  <1>12. ASSUME NEW q \in Procs
         PROVE  /\ InStage(q, inROB)' = InStage(q, inROB)
                /\ InStage(q, {"fetched"})' = InStage(q, {"fetched"}) \ K
                /\ Real(q)' = Real(q) /\ Blocking(q)' \subseteq Blocking(q)
                /\ \A x \in Real(q) : dinst'[x].pos = dinst[x].pos
    <2>1. /\ Closed(inROB) /\ inROB \in SUBSET Stages
          /\ Closed({"fetched"}) /\ {"fetched"} \in SUBSET Stages
      BY ClosedStages DEF Closed
    <2>2. \A x \in Slots \ K :
            /\ x \in InStage(q, inROB)' <=> x \in InStage(q, inROB)
            /\ x \in InStage(q, {"fetched"})' <=> x \in InStage(q, {"fetched"})
            /\ x \in Real(q)' <=> x \in Real(q)
            /\ x \in Blocking(q)' <=> x \in Blocking(q)
      BY <2>1, <1>5, Drifted, DriftedSets DEF Moves
    <2>3. \A x \in K : /\ x \notin InStage(q, inROB) /\ x \notin InStage(q, inROB)'
                       /\ x \notin InStage(q, {"fetched"})'
                       /\ x \notin Real(q) /\ x \notin Real(q)' /\ x \notin Blocking(q)'
      BY <1>3, <1>5 DEF InStage, Real, Blocking, inROB, waiting
    <2>4. {InStage(q, inROB), InStage(q, inROB)', InStage(q, {"fetched"}), InStage(q, {"fetched"})',
           Real(q), Real(q)', Blocking(q), Blocking(q)'} \subseteq SUBSET Slots
      BY DEF InStage, Real, Blocking
    <2>5. ASSUME NEW x \in Real(q) PROVE dinst'[x].pos = dinst[x].pos
      <3>1. x \in Live /\ x \in Slots \ K
        BY <2>3, <2>5 DEF Real, InStage, Live, Free, inROB
      <3>2. Alike(dinst[x], dinst'[x])
        BY <1>5, <3>1, Drifted DEF Moves
      <3> QED BY <3>2 DEF Alike
    <2>6. InStage(q, inROB)' = InStage(q, inROB)
      BY <2>2, <2>3, <2>4
    <2>7. InStage(q, {"fetched"})' = InStage(q, {"fetched"}) \ K
      BY <2>2, <2>3, <2>4
    <2>8. Real(q)' = Real(q)
      BY <2>2, <2>3, <2>4
    <2>9. Blocking(q)' \subseteq Blocking(q)
      BY <2>2, <2>3, <2>4
    <2> QED BY <2>5, <2>6, <2>7, <2>8, <2>9
  <1>13. robOf(p)' = robOf(p)
    BY BeforeIs
  <1>14. Placed'
    <2>1. ASSUME NEW q \in Procs PROVE PlacedAt(q)'
      <3>1. PlacedAt(q)
        BY PlacedIs DEF IInv
      <3>2. CASE q # p
        <4>1. InStage(q, {"fetched"})' = InStage(q, {"fetched"})
          <5>1. InStage(q, {"fetched"}) \cap K = {}
            BY <1>3, <3>2 DEF InStage
          <5> QED BY <1>12, <5>1
        <4> QED BY <1>11, <1>12, <3>1, <3>2, <4>1 DEF PlacedAt, SamePlaces
      <3>3. CASE q = p
        BY <1>12, <1>13, <3>1, <3>3 DEF PlacedAt
      <3> QED BY <3>2, <3>3
    <2> QED BY <2>1, PlacedIs
  <1>15. Sequential'
    <2>1. ASSUME NEW q \in Procs PROVE SequentialAt(q)'
      <3>1. Real(q) \subseteq Slots /\ fe'[q].pc = fe[q].pc
        BY <1>2 DEF Real, InStage
      <3>2. \A d, e \in Slots : Before(q, d, e)' => Before(q, d, e)
        BY <1>11 DEF SamePlaces
      <3> QED BY <1>12, <3>1, <3>2, SequentialKept DEF IInv
    <2> QED BY <2>1, PlacedIs
  <1>16. Buckets'
    <2>1. ASSUME NEW q \in Procs, q # p PROVE BucketsAt(q)'
      <3>1. PoolsKept(fe[q].pipe, fe'[q].pipe)
        BY <1>1, <1>2, <2>1, FrontEndTypes DEF PoolsKept
      <3> QED BY <1>2, <2>1, <3>1, PoolsKeptAt
    <2> QED BY <2>1, BucketsIs
  <1>17. Marked'
    <2>1. ASSUME NEW q \in Procs PROVE MarkedAt(q)'
      <3>1. MarkedAt(q) /\ Blocking(q) \subseteq Slots
        BY MarkedIs DEF IInv, Blocking, InStage
      <3>2. CASE q # p
        BY <1>2, <1>11, <1>12, <3>1, <3>2, MarkedKept DEF SamePlaces
      <3>3. CASE q = p
        <4>1. ~Before(p, 0, 0)'
          BY <3>1, <3>3 DEF MarkedAt
        <4>2. ASSUME NEW d \in Blocking(p)'
              PROVE  /\ fe'[p].missInstID /\ ~fe'[p].btac /\ ~Before(p, d, 0)'
                     /\ Blocking(p)' = {d}
          <5>1. d \in Blocking(p) /\ d \in Slots
            BY <1>12, <3>1, <3>3
          <5>2. fe[p].missInstID /\ ~fe[p].btac /\ ~Before(p, d, 0) /\ Blocking(p) = {d}
            BY <3>1, <3>3, <5>1 DEF MarkedAt
          <5>3. Blocking(p)' = {d}
            BY <1>12, <5>2
          <5> QED BY <1>2, <5>1, <5>2, <5>3
        <4>3. fe'[p].pipe.nCleanMarks = One(0 \in inPipe(p)')
          BY <1>2
        <4> QED BY <3>3, <4>1, <4>2, <4>3 DEF MarkedAt
      <3> QED BY <3>2, <3>3
    <2> QED BY <2>1, MarkedIs
  <1> QED BY <1>4, <1>6, <1>7, <1>8, <1>9, <1>10, <1>14, <1>15, <1>16, <1>17 DEF IInv

(* The bucket at the top of the buffer.                                    *)
LEMMA TopOfBuffer ==
  ASSUME NEW pl \in PipelineRec, pl.buffer # <<>>, NEW r, NEW b, b = Head(pl.buffer),
         r.buffer = Tail(pl.buffer), r.order = pl.order
  PROVE  /\ b \in Bucket /\ b # <<>> /\ Tail(pl.buffer) \in Buffers
         /\ Len(Tail(pl.buffer)) = Len(pl.buffer) - 1
         /\ PipeItems(pl) = Range(b) \cup PipeItems(r)
         /\ \A d, e : PipeBefore(pl, d, e) <=>
              \/ Follows(b, d, e) \/ PipeBefore(r, d, e)
              \/ (d \in Range(b) /\ e \in PipeItems(r))
  <1>1. pl.buffer \in Seq(Bucket \ {<<>>}) /\ pl.buffer \in Nested
    BY PipelineTypes
  <1>2. /\ b \in Bucket \ {<<>>} /\ Tail(pl.buffer) \in Seq(Bucket \ {<<>>})
        /\ Len(Tail(pl.buffer)) = Len(pl.buffer) - 1
    BY <1>1, HeadTailProperties
  <1>3. PICK A, T : A = pl.buffer /\ T = Tail(pl.buffer)
    OBVIOUS
  <1>4. ASSUME NEW d, NEW e
        PROVE  /\ Items(A) = Range(b) \cup Items(T)
               /\ Precedes(A, d, e) <=>
                    \/ Follows(b, d, e) \/ Precedes(T, d, e)
                    \/ (d \in Range(b) /\ e \in Items(T))
    BY <1>1, <1>3, HeadBucket
  <1>5. PipeItems(pl) = Range(b) \cup PipeItems(r)
    BY <1>3, <1>4 DEF PipeItems
  <1>6. ASSUME NEW d, NEW e
        PROVE  PipeBefore(pl, d, e) <=>
                 \/ Follows(b, d, e) \/ PipeBefore(r, d, e)
                 \/ (d \in Range(b) /\ e \in PipeItems(r))
    BY <1>3, <1>4 DEF PipeBefore, PipeItems
  <1>7. Tail(pl.buffer) \in Buffers
    BY <1>2 DEF Buffers
  <1> QED BY <1>2, <1>5, <1>6, <1>7

(* A sequence in which nothing follows itself has as many items as places. *)
LEMMA OnceEach ==
  ASSUME NEW s \in Seq(Slots), \A d \in Slots : ~Follows(s, d, d)
  PROVE  Cardinality(Range(s)) = Len(s) /\ Range(s) \in SUBSET Slots
  <1>1. Len(s) \in Nat /\ DOMAIN s = 1 .. Len(s) /\ s \in [1 .. Len(s) -> Slots]
    OBVIOUS
  <1>2. ASSUME NEW i \in 1 .. Len(s), NEW j \in 1 .. Len(s), s[i] = s[j] PROVE i = j
    <2>1. i < j => Follows(s, s[i], s[i])
      BY <1>1, <1>2 DEF Follows
    <2>2. j < i => Follows(s, s[i], s[i])
      BY <1>1, <1>2 DEF Follows
    <2>3. s[i] \in Slots /\ i \in Nat /\ j \in Nat
      BY <1>1
    <2> QED BY <2>1, <2>2, <2>3
  <1>3. Range(s) \in SUBSET Slots /\ s \in [1 .. Len(s) -> Range(s)]
        /\ \A x \in Range(s) : \E i \in 1 .. Len(s) : s[i] = x
    BY <1>1 DEF Range
  <1>4. s \in Bijection(1 .. Len(s), Range(s))
    <2>1. s \in Injection(1 .. Len(s), Range(s))
      BY <1>1, <1>2, <1>3 DEF Injection, IsInjective
    <2>2. s \in Surjection(1 .. Len(s), Range(s))
      BY <1>3 DEF Surjection
    <2> QED BY <2>1, <2>2 DEF Bijection
  <1>5. ExistsBijection(1 .. Len(s), Range(s))
    BY <1>4 DEF ExistsBijection
  <1>6. IsFiniteSet(1 .. Len(s)) /\ Cardinality(1 .. Len(s)) = Len(s)
    BY <1>1, FS_Interval
  <1>7. Cardinality(Range(s)) = Cardinality(1 .. Len(s))
    BY <1>5, <1>6, FS_Bijection
  <1> QED BY <1>3, <1>6, <1>7

(* The top of the buffer leaves the pipeline; s, what is left of it, goes  *)
(* to the end of the instruction queue.                                    *)
LEMMA TopTaken ==
  ASSUME IInv, NEW p \in Procs, cpu' = cpu, fe[p].pipe.buffer # <<>>,
         NEW b, b = Head(fe[p].pipe.buffer),
         fe'[p].pipe.buffer = Tail(fe[p].pipe.buffer), fe'[p].pipe.order = fe[p].pipe.order,
         NEW s \in Seq(Slots), Range(s) \subseteq Range(b),
         \A d, e : Follows(s, d, e) => Follows(b, d, e),
         \/ s = <<>> /\ fe'[p].instQueue = fe[p].instQueue
         \/ fe'[p].instQueue = Append(fe[p].instQueue, s)
  PROVE  /\ robOf(p)' = robOf(p) /\ queueOf(p)' = queueOf(p) \cup Range(s)
         /\ inPipe(p) = Range(b) \cup inPipe(p)'
         /\ \A d, e : Before(p, d, e)' => Before(p, d, e)
         /\ \A d, e : \/ Follows(b, d, e)
                      \/ d \in queueOf(p) /\ e \in Range(b)
                      \/ d \in Range(b) /\ e \in inPipe(p)'
                      => Before(p, d, e)
  <1>1. PICK pl, r, A, B :
          pl = fe[p].pipe /\ r = fe'[p].pipe /\ A = fe[p].instQueue /\ B = fe'[p].instQueue
    OBVIOUS
  <1>2. pl \in PipelineRec /\ A \in Nested
    BY <1>1, TypedFacts, FrontEndTypes
  <1>3. /\ PipeItems(pl) = Range(b) \cup PipeItems(r)
        /\ \A d, e : PipeBefore(pl, d, e) <=>
             \/ Follows(b, d, e) \/ PipeBefore(r, d, e)
             \/ (d \in Range(b) /\ e \in PipeItems(r))
    BY <1>1, <1>2, TopOfBuffer
  <1>4. /\ Items(B) = Items(A) \cup Range(s)
        /\ \A d, e : Precedes(B, d, e) =>
             \/ Precedes(A, d, e) \/ Follows(s, d, e) \/ (d \in Items(A) /\ e \in Range(s))
    <2>1. CASE s = <<>> /\ B = A
      BY <2>1, NoItem
    <2>2. CASE B = Append(A, s)
      <3>1. s \in Seq(Nat)
        BY BucketsNested
      <3> QED BY <1>2, <2>2, <3>1, AppendBucket
    <2> QED BY <1>1, <2>1, <2>2
  <1>5. /\ robOf(p)' = robOf(p) /\ queueOf(p)' = Items(B) /\ queueOf(p) = Items(A)
        /\ inPipe(p) = PipeItems(pl) /\ inPipe(p)' = PipeItems(r)
    BY <1>1, BeforeIs
  <1>6. ASSUME NEW d, NEW e
        PROVE  /\ Before(p, d, e) <=>
                    \/ Follows(cpu[p].rob, d, e)
                    \/ d \in robOf(p) /\ e \in Items(A) \cup PipeItems(pl)
                    \/ Precedes(A, d, e)
                    \/ d \in Items(A) /\ e \in PipeItems(pl)
                    \/ PipeBefore(pl, d, e)
               /\ Before(p, d, e)' <=>
                    \/ Follows(cpu[p].rob, d, e)
                    \/ d \in robOf(p) /\ e \in Items(B) \cup PipeItems(r)
                    \/ Precedes(B, d, e)
                    \/ d \in Items(B) /\ e \in PipeItems(r)
                    \/ PipeBefore(r, d, e)
    BY <1>1, <1>5, BeforeIs
  <1>7. ASSUME NEW d, NEW e, Before(p, d, e)' PROVE Before(p, d, e)
    BY <1>3, <1>4, <1>6, <1>7
  <1>8. ASSUME NEW d, NEW e, \/ Follows(b, d, e)
                             \/ d \in queueOf(p) /\ e \in Range(b)
                             \/ d \in Range(b) /\ e \in inPipe(p)'
        PROVE  Before(p, d, e)
    BY <1>3, <1>5, <1>6, <1>8
  <1> QED BY <1>3, <1>4, <1>5, <1>7, <1>8

LEMMA DecodeMark ==
  ASSUME IInv, NEW p \in Procs, Decode(p), Head(fe[p].pipe.buffer) = cleanItem
  PROVE  IInv' /\ (Window => Window')
  <1>1. PICK f, pl, r, g :
          /\ f = fe[p] /\ pl = f.pipe
          /\ r = [pl EXCEPT !.buffer = Tail(pl.buffer), !.nCleanMarks = pl.nCleanMarks - 1,
                            !.cleanBucketPool = pl.cleanBucketPool + 1]
          /\ g = [f EXCEPT !.pipe = r]
    OBVIOUS
  <1>2. /\ f \in FrontEnd /\ pl \in PipelineRec /\ fe \in [Procs -> FrontEnd]
    BY <1>1, TypedFacts, FrontEndTypes
  <1>3. PICK fakes : fakes = {d \in Live : Fake(d)}
    OBVIOUS
  <1>4. /\ pl.buffer # <<>> /\ Head(pl.buffer) = cleanItem
        /\ fe' = [fe EXCEPT ![p] = [f EXCEPT !.pipe = nextItem(pl, fakes)]]
        /\ dinst' = [d \in Slots |-> dinst[d]] /\ UNCHANGED <<conf, cpu, stores>>
    <2> HIDE DEF topItem, nextItem
    <2> QED BY <1>1, <1>3 DEF Decode
  <1>5. nextItem(pl, fakes) = r
    <2>1. PICK h : h = Head(pl.buffer)
      OBVIOUS
    <2> QED BY <1>1, <1>2, <1>4 DEF nextItem, PipelineRec
  <1>6. fe' = [fe EXCEPT ![p] = g]
    BY <1>1, <1>4, <1>5
  <1>7. dinst' = Killed({})
    BY <1>4 DEF Killed
  <1>8. PICK T, b, n, c : T = Tail(pl.buffer) /\ b = Head(pl.buffer)
                          /\ n = pl.nCleanMarks - 1 /\ c = pl.cleanBucketPool + 1
    OBVIOUS
  <1>9. T \in Buffers /\ Len(T) = Len(pl.buffer) - 1
    <2>1. pl.buffer \in Seq(Bucket \ {<<>>})
      BY <1>2, PipelineTypes
    <2>2. T \in Seq(Bucket \ {<<>>}) /\ Len(T) = Len(pl.buffer) - 1
      BY <1>4, <1>8, <2>1, HeadTailProperties
    <2> QED BY <2>2 DEF Buffers
  <1>10. n \in Int /\ c \in Int /\ pl.nCleanMarks \in Int /\ pl.cleanBucketPool \in Int
         /\ pl.bucketPool \in Int /\ Len(pl.buffer) \in Nat /\ Len(pl.order) \in Nat
    BY <1>2, <1>8, PipelineTypes
  <1>11. /\ r \in PipelineRec /\ r.buffer = T /\ r.order = pl.order /\ r.nCleanMarks = n
         /\ r.cleanBucketPool = c /\ r.bucketPool = pl.bucketPool
         /\ r.nIRequests = pl.nIRequests
    <2>1. r = [pl EXCEPT !.buffer = T, !.nCleanMarks = n, !.cleanBucketPool = c]
      BY <1>1, <1>8
    <2> QED BY <1>2, <1>9, <1>10, <2>1 DEF PipelineRec
  <1>12. PoolsKept(pl, r)
    <2>1. poolOf(r) = poolOf(pl)
      <3>1. PICK i \in Int, j \in Int, k \in Int, m \in Int :
              i = pl.bucketPool /\ j = Len(pl.buffer) /\ k = Len(pl.order) /\ m = pl.nCleanMarks
        BY <1>10
      <3>2. r.bucketPool = i /\ Len(r.buffer) = j - 1 /\ Len(r.order) = k /\ r.nCleanMarks = m - 1
        BY <1>8, <1>9, <1>11, <3>1
      <3>3. poolOf(r) = i + (j - 1) + k - (m - 1) /\ poolOf(pl) = i + j + k - m
        BY <3>1, <3>2 DEF poolOf
      <3>4. i + (j - 1) + k - (m - 1) = i + j + k - m
        OBVIOUS
      <3> QED BY <3>3, <3>4
    <2>2. requestsOf(r) = requestsOf(pl)
      BY <1>11 DEF requestsOf
    <2>3. cleanOf(r) = cleanOf(pl)
      BY <1>8, <1>10, <1>11, SMTT(30) DEF cleanOf
    <2> QED BY <1>11, <2>1, <2>2, <2>3 DEF PoolsKept
  <1>13. /\ g \in FrontEnd /\ g.pipe = r /\ g.pc = f.pc /\ g.instQueue = f.instQueue
         /\ g.spaceInInstQueue = f.spaceInInstQueue
         /\ g.missInstID = f.missInstID /\ g.btac = f.btac
    BY <1>1, <1>2, <1>11 DEF FrontEnd
  <1>14. fe'[p] = g
    BY <1>2, <1>6
  <1>15. b \in Seq(Nat) /\ Range(b) = {0}
    BY <1>4, <1>8, OneItem DEF cleanItem
  <1>16. /\ robOf(p)' = robOf(p) /\ queueOf(p)' = queueOf(p)
         /\ inPipe(p) = {0} \cup inPipe(p)'
         /\ \A d, e : Before(p, d, e)' => Before(p, d, e)
         /\ \A e \in inPipe(p)' : Before(p, 0, e)
    <2>1. PICK s : s = <<>>
      OBVIOUS
    <2>2. s \in Seq(Slots) /\ Range(s) = {} /\ \A d, e : ~Follows(s, d, e)
      BY <2>1, NoItem
    <2>3. /\ cpu' = cpu /\ fe[p].pipe.buffer # <<>> /\ b = Head(fe[p].pipe.buffer)
          /\ fe'[p].pipe.buffer = Tail(fe[p].pipe.buffer)
          /\ fe'[p].pipe.order = fe[p].pipe.order /\ fe'[p].instQueue = fe[p].instQueue
      <3>1. fe[p].pipe = pl /\ fe'[p].pipe = r /\ fe'[p].instQueue = fe[p].instQueue
        BY <1>1, <1>13, <1>14
      <3>2. /\ r.buffer = Tail(pl.buffer) /\ r.order = pl.order /\ b = Head(pl.buffer)
            /\ pl.buffer # <<>> /\ cpu' = cpu
        BY <1>4, <1>8, <1>11
      <3> QED BY <3>1, <3>2
    <2>4. /\ robOf(p)' = robOf(p) /\ queueOf(p)' = queueOf(p) \cup Range(s)
          /\ inPipe(p) = Range(b) \cup inPipe(p)'
          /\ \A d, e : Before(p, d, e)' => Before(p, d, e)
          /\ \A d, e : d \in Range(b) /\ e \in inPipe(p)' => Before(p, d, e)
      BY <2>1, <2>2, <2>3, TopTaken
    <2> QED BY <1>15, <2>2, <2>4
  <1>18. MarkedAt(p)
    BY MarkedIs DEF IInv
  <1>19. 0 \notin inPipe(p)' /\ fe[p].pipe.nCleanMarks = 1
    BY <1>16, <1>18 DEF MarkedAt, One
  <1>20. g.pipe.nCleanMarks = One(0 \in inPipe(p)')
    <2>1. pl.nCleanMarks = 1 /\ n = 0
      BY <1>1, <1>8, <1>19
    <2> QED BY <1>11, <1>13, <1>19, <2>1 DEF One
  <1>21. (queueOf(p) \cup inPipe(p))' \ {0} = ((queueOf(p) \cup inPipe(p)) \ {0}) \ {}
    BY <1>16
  <1>22. BucketsAt(p)'
    <2>1. /\ PoolsKept(fe[p].pipe, fe'[p].pipe) /\ fe'[p].instQueue = fe[p].instQueue
          /\ fe'[p].spaceInInstQueue = fe[p].spaceInInstQueue
      BY <1>1, <1>12, <1>13, <1>14
    <2> QED BY <2>1, PoolsKeptAt
  <1>23. /\ g.pc = fe[p].pc /\ g.missInstID = fe[p].missInstID /\ g.btac = fe[p].btac
    BY <1>1, <1>13
  <1>24. UNCHANGED <<conf, cpu, stores>>
    BY <1>4
  <1>25. \A d, e \in Slots \cup {0} : Before(p, d, e)' => Before(p, d, e)
    BY <1>16
  <1>26. \A d \in {} : dinst[d].fake
    OBVIOUS
  <1> QED BY <1>6, <1>7, <1>13, <1>20, <1>21, <1>22, <1>23, <1>24, <1>25, <1>26, DecodedStep

(* What nextItem hands on of the bucket at the top.                        *)
LEMMA TopItem ==
  ASSUME NEW pl \in PipelineRec, NEW F, NEW b \in Seq(Slots), b = Head(pl.buffer),
         NEW s, s = topItem(pl, F)
  PROVE  /\ s \in Seq(Slots) /\ Range(s) \subseteq Range(b)
         /\ Range(b) \ Range(s) \subseteq F
         /\ \A d, e : Follows(s, d, e) => Follows(b, d, e)
  <1>1. s = Swallow(b, F) \/ s = b
    <2> HIDE DEF Swallow
    <2> QED BY DEF topItem
  <1>2. CASE s = Swallow(b, F)
    BY <1>2, Swallowed
  <1>3. CASE s = b
    BY <1>3
  <1> QED BY <1>1, <1>2, <1>3

LEMMA DecodeBucket ==
  ASSUME IInv, NEW p \in Procs, Decode(p), Head(fe[p].pipe.buffer) # cleanItem
  PROVE  IInv' /\ (Window => Window')
  <1>1. PICK f, pl, b, T, fakes, s :
          /\ f = fe[p] /\ pl = f.pipe /\ b = Head(pl.buffer) /\ T = Tail(pl.buffer)
          /\ fakes = {d \in Live : Fake(d)} /\ s = topItem(pl, fakes)
    OBVIOUS
  <1>2. /\ f \in FrontEnd /\ pl \in PipelineRec /\ fe \in [Procs -> FrontEnd]
        /\ f.instQueue \in Seq(Seq(Slots) \ {<<>>}) /\ f.spaceInInstQueue \in Int
    BY <1>1, TypedFacts, FrontEndTypes
  <1>3. /\ pl.buffer # <<>> /\ b # cleanItem /\ UNCHANGED <<conf, cpu, stores>>
        /\ fe' = [fe EXCEPT ![p] =
             IF s = <<>> THEN [f EXCEPT !.pipe = nextItem(pl, fakes)]
             ELSE [f EXCEPT !.pipe = nextItem(pl, fakes),
                            !.instQueue = Append(f.instQueue, s),
                            !.spaceInInstQueue = f.spaceInInstQueue - Len(s)]]
        /\ dinst' = [d \in Slots |-> IF d \in Range(b) \ Range(s) THEN Free ELSE dinst[d]]
    <2> HIDE DEF topItem, nextItem
    <2> QED BY <1>1 DEF Decode
  <1>4. /\ pl.buffer \in Seq(Bucket \ {<<>>}) /\ pl.bucketPool \in Int
        /\ pl.nCleanMarks \in Int /\ Len(pl.buffer) \in Nat /\ Len(pl.order) \in Nat
    BY <1>2, PipelineTypes
  <1>5. /\ T \in Buffers /\ Len(T) = Len(pl.buffer) - 1
        /\ b \in Seq(Slots) /\ b # <<>>
    <2>1. b \in Bucket \ {<<>>} /\ T \in Seq(Bucket \ {<<>>}) /\ Len(T) = Len(pl.buffer) - 1
      BY <1>1, <1>3, <1>4, HeadTailProperties
    <2> QED BY <1>3, <2>1 DEF Buffers, Bucket
  <1>6. /\ s \in Seq(Slots) /\ Range(s) \subseteq Range(b) /\ Range(b) \ Range(s) \subseteq fakes
        /\ \A d, e : Follows(s, d, e) => Follows(b, d, e)
    BY <1>1, <1>2, <1>5, TopItem
  <1>7. PICK K : K = Range(b) \ Range(s)
    OBVIOUS
  <1>8. PICK m, Q, z :
          /\ m \in Nat
          /\ \/ m = 1 /\ s = <<>> /\ Q = f.instQueue /\ z = f.spaceInInstQueue
             \/ m = 0 /\ s # <<>> /\ Q = Append(f.instQueue, s) /\ z = f.spaceInInstQueue - Len(s)
    <2> DEFINE A == Append(f.instQueue, s)
               y == f.spaceInInstQueue - Len(s)
    <2> HIDE DEF A, y
    <2>1. \E m, Q, z :
          /\ m \in Nat
          /\ \/ m = 1 /\ s = <<>> /\ Q = f.instQueue /\ z = f.spaceInInstQueue
             \/ m = 0 /\ s # <<>> /\ Q = A /\ z = y
      OBVIOUS
    <2> QED BY <2>1 DEF A, y
  <1>9. PICK r, g : /\ r = [pl EXCEPT !.buffer = T, !.bucketPool = pl.bucketPool + m]
                    /\ g = [f EXCEPT !.pipe = r, !.instQueue = Q, !.spaceInInstQueue = z]
    OBVIOUS
  <1>10. /\ Q \in Queues /\ Len(Q) = Len(f.instQueue) + 1 - m /\ Len(f.instQueue) \in Nat
         /\ z \in Int /\ z = f.spaceInInstQueue - Len(s) /\ Len(s) \in Nat
    <2>1. Len(s) \in Nat /\ (s = <<>> => Len(s) = 0)
      BY <1>6
    <2>2. PICK S : S = Seq(Slots) \ {<<>>}
      OBVIOUS
    <2>3. f.instQueue \in Seq(S) /\ (s # <<>> => s \in S)
      BY <1>2, <1>6, <2>2
    <2>4. Len(f.instQueue) \in Nat /\ Q \in Seq(S) /\ Len(Q) = Len(f.instQueue) + 1 - m
      BY <1>8, <2>3, AppendProperties
    <2>5. z \in Int /\ z = f.spaceInInstQueue - Len(s)
      BY <1>2, <1>8, <2>1
    <2> QED BY <2>1, <2>2, <2>4, <2>5 DEF Queues
  <1>11. /\ r \in PipelineRec /\ r.buffer = T /\ r.order = pl.order
         /\ r.nCleanMarks = pl.nCleanMarks /\ r.cleanBucketPool = pl.cleanBucketPool
         /\ r.bucketPool = pl.bucketPool + m /\ r.nIRequests = pl.nIRequests
    <2>1. PICK n \in Int : n = pl.bucketPool + m
      <3>1. m \in Nat
        BY <1>8
      <3> QED BY <1>4, <3>1
    <2>2. r = [pl EXCEPT !.buffer = T, !.bucketPool = n]
      BY <1>9, <2>1
    <2> QED BY <1>2, <1>5, <2>1, <2>2 DEF PipelineRec
  <1>12. /\ g \in FrontEnd /\ g.pipe = r /\ g.pc = f.pc /\ g.instQueue = Q
         /\ g.spaceInInstQueue = z /\ g.missInstID = f.missInstID /\ g.btac = f.btac
    BY <1>2, <1>9, <1>10, <1>11 DEF FrontEnd
  <1>13. fe' = [fe EXCEPT ![p] = g]
    <2>1. nextItem(pl, fakes) = r
      <3>1. pl = [order |-> pl.order, buffer |-> pl.buffer, bucketPool |-> pl.bucketPool,
                  cleanBucketPool |-> pl.cleanBucketPool, nIRequests |-> pl.nIRequests,
                  nCleanMarks |-> pl.nCleanMarks]
        BY <1>2, PipelineTypes
      <3>2. nextItem(pl, fakes) = IF s = <<>> THEN doneItem([pl EXCEPT !.buffer = T])
                                              ELSE [pl EXCEPT !.buffer = T]
        <4> HIDE DEF topItem, doneItem, cleanItem
        <4> QED BY <1>1, <1>3 DEF nextItem
      <3>3. CASE m = 1
        <4>1. s = <<>>
          BY <1>8, <3>3
        <4> QED BY <1>9, <3>1, <3>2, <3>3, <4>1 DEF doneItem
      <3>4. CASE m = 0
        <4>1. s # <<>> /\ pl.bucketPool + m = pl.bucketPool
          BY <1>4, <1>8, <3>4
        <4> QED BY <1>9, <3>1, <3>2, <4>1
      <3> QED BY <1>8, <3>3, <3>4
    <2>2. CASE s = <<>>
      <3>1. Q = f.instQueue /\ z = f.spaceInInstQueue
        BY <1>8, <2>2
      <3> QED BY <1>2, <1>3, <1>9, <2>1, <2>2, <3>1 DEF FrontEnd
    <2>3. CASE s # <<>>
      <3>1. Q = Append(f.instQueue, s) /\ z = f.spaceInInstQueue - Len(s)
        BY <1>8, <2>3
      <3> QED BY <1>3, <1>9, <2>1, <2>3, <3>1
    <2> QED BY <2>2, <2>3
  <1>14. fe'[p] = g
    BY <1>2, <1>13
  <1>15. /\ robOf(p)' = robOf(p) /\ queueOf(p)' = queueOf(p) \cup Range(s)
         /\ inPipe(p) = Range(b) \cup inPipe(p)'
         /\ \A d, e : Before(p, d, e)' => Before(p, d, e)
         /\ \A d, e : \/ Follows(b, d, e)
                      \/ d \in queueOf(p) /\ e \in Range(b)
                      \/ d \in Range(b) /\ e \in inPipe(p)'
                      => Before(p, d, e)
    <2>1. fe[p].pipe = pl /\ fe'[p].pipe = r /\ fe'[p].instQueue = Q /\ fe[p].instQueue = f.instQueue
      BY <1>1, <1>12, <1>14
    <2>2. /\ r.buffer = Tail(pl.buffer) /\ r.order = pl.order /\ b = Head(pl.buffer)
          /\ pl.buffer # <<>> /\ cpu' = cpu
      BY <1>1, <1>3, <1>11
    <2>3. \/ s = <<>> /\ Q = f.instQueue
          \/ Q = Append(f.instQueue, s)
      BY <1>8
    <2> QED BY <1>6, <2>1, <2>2, <2>3, TopTaken
  <1>16. PlacedAt(p) /\ MarkedAt(p) /\ BucketsAt(p)
    BY PlacedIs, MarkedIs, BucketsIs DEF IInv
  <1>17. Range(b) \subseteq Slots /\ 0 \notin Range(b)
    BY <1>5, BucketsNested DEF Range
  <1>18. /\ \A d \in Range(b) : d \notin queueOf(p) /\ d \notin inPipe(p)'
         /\ \A d \in Slots : ~Follows(b, d, d)
    BY <1>15, <1>16, <1>17 DEF PlacedAt
  <1>19. K \in SUBSET InStage(p, {"fetched"}) /\ \A d \in K : dinst[d].fake
    <2>1. K \subseteq inPipe(p) \ {0}
      BY <1>7, <1>15, <1>17
    <2>2. \A d \in K : dinst[d].fake
      BY <1>1, <1>6, <1>7 DEF Fake
    <2> QED BY <1>16, <2>1, <2>2 DEF PlacedAt
  <1>20. dinst' = Killed(K)
    BY <1>3, <1>7 DEF Killed
  <1>21. (queueOf(p) \cup inPipe(p))' \ {0} = ((queueOf(p) \cup inPipe(p)) \ {0}) \ K
    <2>1. ASSUME NEW x
          PROVE  x \in (queueOf(p) \cup inPipe(p))' <=>
                   x \in (queueOf(p) \cup inPipe(p)) /\ x \notin K
      BY <1>6, <1>7, <1>15, <1>18
    <2> QED BY <2>1
  <1>22. g.pipe.nCleanMarks = One(0 \in inPipe(p)')
    <2>1. 0 \in inPipe(p)' <=> 0 \in inPipe(p)
      BY <1>15, <1>17
    <2>2. g.pipe.nCleanMarks = One(0 \in inPipe(p))
      BY <1>1, <1>11, <1>12, <1>16 DEF MarkedAt
    <2> QED BY <2>1, <2>2 DEF One
  <1>23. BucketsAt(p)'
    <2>1. poolOf(r) + Len(Q) = poolOf(pl) + Len(f.instQueue)
      <3>1. PICK i \in Int, j \in Int, k \in Int, c \in Int, l \in Int :
              i = pl.bucketPool /\ j = Len(pl.buffer) /\ k = Len(pl.order) /\ c = pl.nCleanMarks
              /\ l = Len(f.instQueue)
        <4>1. Len(f.instQueue) \in Int /\ Len(pl.buffer) \in Int /\ Len(pl.order) \in Int
          BY <1>4, <1>10
        <4>2. pl.bucketPool \in Int /\ pl.nCleanMarks \in Int
          BY <1>4
        <4> QED BY ONLY <4>1, <4>2
      <3>2. /\ r.bucketPool = i + m /\ Len(r.buffer) = j - 1 /\ Len(r.order) = k
            /\ r.nCleanMarks = c /\ Len(Q) = l + 1 - m
        BY <1>5, <1>10, <1>11, <3>1
      <3>3. /\ poolOf(r) + Len(Q) = (i + m) + (j - 1) + k - c + (l + 1 - m)
            /\ poolOf(pl) + Len(f.instQueue) = i + j + k - c + l
        BY <3>1, <3>2 DEF poolOf
      <3>4. (i + m) + (j - 1) + k - c + (l + 1 - m) = i + j + k - c + l
        <4>1. m \in Nat
          BY <1>8
        <4> QED BY <4>1
      <3> QED BY <3>3, <3>4
    <2>2. requestsOf(r) = requestsOf(pl) /\ cleanOf(r) = cleanOf(pl)
      BY <1>11 DEF requestsOf, cleanOf
    <2>3. z + Cardinality(queueOf(p)') = f.spaceInInstQueue + Cardinality(queueOf(p))
      <3>1. queueOf(p) \in SUBSET Slots
        BY PlaceTypes
      <3>2. /\ IsFiniteSet(queueOf(p)) /\ Cardinality(queueOf(p)) \in Nat
            /\ IsFiniteSet(Range(s)) /\ Cardinality(Range(s)) = Len(s)
        <4>1. \A d \in Slots : ~Follows(s, d, d)
          BY <1>6, <1>18
        <4> QED BY <1>6, <3>1, <4>1, OnceEach, SubsetsFinite
      <3>3. Cardinality(queueOf(p) \cup Range(s)) = Cardinality(queueOf(p)) + Cardinality(Range(s))
        <4>1. PICK S, R : S = queueOf(p) /\ R = Range(s)
          OBVIOUS
        <4>2. S \cap R = {} /\ IsFiniteSet(S) /\ IsFiniteSet(R)
          BY <1>6, <1>18, <3>2, <4>1
        <4>3. Cardinality({}) = 0
          BY FS_EmptySet
        <4>4. Cardinality(S \cup R) = Cardinality(S) + Cardinality(R) - Cardinality(S \cap R)
          BY <4>2, FS_Union
        <4>5. Cardinality(S) \in Nat /\ Cardinality(R) \in Nat
          BY <4>2, FS_CardinalityType
        <4>6. PICK u, v, w : u = Cardinality(S) /\ v = Cardinality(R) /\ w = Cardinality(S \cap R)
          OBVIOUS
        <4>7. w = 0 /\ u \in Nat /\ v \in Nat
          BY <4>2, <4>3, <4>5, <4>6
        <4>8. Cardinality(S \cup R) = u + v
          BY ONLY <4>4, <4>6, <4>7
        <4> QED BY ONLY <4>1, <4>6, <4>8
      <3> QED BY <1>2, <1>10, <1>15, <3>2, <3>3
    <2>4. /\ fe[p].pipe = pl /\ fe'[p].pipe = r /\ fe'[p].instQueue = Q
          /\ fe[p].instQueue = f.instQueue /\ fe'[p].spaceInInstQueue = z
          /\ fe[p].spaceInInstQueue = f.spaceInInstQueue
      BY <1>1, <1>12, <1>14
    <2> QED BY <1>16, <2>1, <2>2, <2>3, <2>4 DEF BucketsAt
  <1>24. /\ g.pc = fe[p].pc /\ g.missInstID = fe[p].missInstID /\ g.btac = fe[p].btac
    BY <1>1, <1>12
  <1>25. \A d, e \in Slots \cup {0} : Before(p, d, e)' => Before(p, d, e)
    BY <1>15
  <1> QED BY <1>3, <1>12, <1>13, <1>19, <1>20, <1>21, <1>22, <1>23, <1>24, <1>25, DecodedStep

(* A step of one instruction, seen by the sets of stages and by the        *)
(* counters of resources.                                                  *)
LEMMA StageOf ==
  ASSUME NEW d \in Slots, Moves({d}), dinst[d] \in DInst, NEW p \in Procs, p = dinst[d].proc,
         SameInst(dinst[d], dinst'[d]) \/ dinst'[d] = Free, NEW q \in Procs,
         NEW S \in SUBSET Stages, Closed(S)
  PROVE  /\ \A x \in Slots \ {d} : x \in InStage(q, S)' <=> x \in InStage(q, S)
         /\ d \in InStage(q, S) <=> q = p /\ dinst[d].st \in S
         /\ d \in InStage(q, S)' <=> q = p /\ dinst'[d].st \in S
         /\ InStage(q, S) \subseteq Slots /\ InStage(q, S)' \subseteq Slots
  <1>1. \A x \in Slots \ {d} : x \in InStage(q, S)' <=> x \in InStage(q, S)
    BY Drifted DEF Moves
  <1>2. d \in InStage(q, S) <=> q = p /\ dinst[d].st \in S
    BY DEF InStage
  <1>3. d \in InStage(q, S)' <=> q = p /\ dinst'[d].st \in S
    <2>1. CASE dinst'[d] = Free
      BY <2>1 DEF InStage, Free, Stages
    <2>2. CASE SameInst(dinst[d], dinst'[d])
      BY <2>2 DEF InStage, SameInst
    <2> QED BY <2>1, <2>2
  <1>4. InStage(q, S) \subseteq Slots /\ InStage(q, S)' \subseteq Slots
    BY DEF InStage
  <1> QED BY <1>1, <1>2, <1>3, <1>4

Shift(d, S, b, before, after) ==
  after = before + One(dinst[d].st \in S /\ b) - One(dinst'[d].st \in S /\ b)
Shifts(d, c, e) ==
  /\ Shift(d, inROB, Op(d) = "load" /\ ~Fake(d), c.freeLoads, e.freeLoads)
  /\ Shift(d, inROB, Op(d) = "store" /\ ~Fake(d), c.freeStores, e.freeStores)
  /\ Shift(d, inROB \ {"executed"}, Op(d) = "branch", c.freeBranches, e.freeBranches)
  /\ Shift(d, inROB, dinst[d].inst.dest # InvalidOutput /\ ~Fake(d), c.regPool, e.regPool)

LEMMA TakenBy ==
  ASSUME NEW d, NEW S, NEW T, NEW R, NEW b \in BOOLEAN, NEW before \in Int, NEW after,
         Shift(d, R, b, before, after),
         d \in S <=> dinst[d].st \in R /\ b, d \in T <=> dinst'[d].st \in R /\ b
  PROVE  Taken(S, T, d, before, after)
  BY DEF Taken, Shift, One

LEMMA ResourceStep ==
  ASSUME IInv, NEW d \in Slots, Moves({d}), dinst[d] \in DInst, NEW p \in Procs,
         p = dinst[d].proc, SameInst(dinst[d], dinst'[d]) \/ dinst'[d] = Free,
         \A q \in Procs \ {p} : cpu'[q] = cpu[q], Shifts(d, cpu[p], cpu'[p])
  PROVE  Resources'
  <1>1. ASSUME NEW q \in Procs PROVE ResourcesTaken(q, d)
    <2>0. cpu[q] \in Core
      BY TypedFacts
    <2>1. /\ cpu[q].freeLoads \in Int /\ cpu[q].freeStores \in Int
          /\ cpu[q].regPool \in Int /\ cpu[q].freeBranches \in Int
      BY <2>0, CoreTypes
    <2>2. \A S \in {inROB, inROB \ {"executed"}} :
            /\ d \in InStage(q, S) <=> q = p /\ dinst[d].st \in S
            /\ d \in InStage(q, S)' <=> q = p /\ dinst'[d].st \in S
      BY ClosedStages, StageOf DEF Closed
    <2>3. dinst'[d].st \in inROB => Op(d)' = Op(d) /\ Fake(d)' = Fake(d)
                                    /\ dinst'[d].inst.dest = dinst[d].inst.dest
      BY DEF Op, Fake, SameInst, Free, inROB
    <2>4. /\ d \in loads(q) <=> q = p /\ dinst[d].st \in inROB /\ Op(d) = "load" /\ ~Fake(d)
          /\ d \in loads(q)' <=> q = p /\ dinst'[d].st \in inROB /\ Op(d) = "load" /\ ~Fake(d)
      BY <2>2, <2>3 DEF loads
    <2>5. /\ d \in storesOf(q) <=> q = p /\ dinst[d].st \in inROB /\ Op(d) = "store" /\ ~Fake(d)
          /\ d \in storesOf(q)' <=>
               q = p /\ dinst'[d].st \in inROB /\ Op(d) = "store" /\ ~Fake(d)
      BY <2>2, <2>3 DEF storesOf
    <2>6. /\ d \in branches(q) <=>
               q = p /\ dinst[d].st \in inROB \ {"executed"} /\ Op(d) = "branch"
          /\ d \in branches(q)' <=>
               q = p /\ dinst'[d].st \in inROB \ {"executed"} /\ Op(d) = "branch"
      BY <2>2, <2>3 DEF branches
    <2>7. /\ d \in renamed(q) <=>
               q = p /\ dinst[d].st \in inROB /\ dinst[d].inst.dest # InvalidOutput /\ ~Fake(d)
          /\ d \in renamed(q)' <=>
               q = p /\ dinst'[d].st \in inROB /\ dinst[d].inst.dest # InvalidOutput /\ ~Fake(d)
      BY <2>2, <2>3 DEF renamed
    <2>8. CASE q # p
      <3>1. cpu'[q] = cpu[q]
        BY <2>8
      <3> QED BY <2>1, <2>4, <2>5, <2>6, <2>7, <2>8, <3>1, NothingTaken DEF ResourcesTaken
    <2>9. CASE q = p
      <3>1. PICK u \in BOOLEAN, v \in BOOLEAN, w \in BOOLEAN, y \in BOOLEAN :
              /\ u = (Op(d) = "load" /\ ~Fake(d)) /\ v = (Op(d) = "store" /\ ~Fake(d))
              /\ w = (Op(d) = "branch") /\ y = (dinst[d].inst.dest # InvalidOutput /\ ~Fake(d))
        OBVIOUS
      <3>2. /\ Shift(d, inROB, u, cpu[q].freeLoads, cpu'[q].freeLoads)
            /\ Shift(d, inROB, v, cpu[q].freeStores, cpu'[q].freeStores)
            /\ Shift(d, inROB \ {"executed"}, w, cpu[q].freeBranches, cpu'[q].freeBranches)
            /\ Shift(d, inROB, y, cpu[q].regPool, cpu'[q].regPool)
        BY <2>9, <3>1 DEF Shifts
      <3>3. Taken(loads(q), loads(q)', d, cpu[q].freeLoads, cpu'[q].freeLoads)
        BY <2>1, <2>4, <2>9, <3>1, <3>2, TakenBy
      <3>4. Taken(storesOf(q), storesOf(q)', d, cpu[q].freeStores, cpu'[q].freeStores)
        BY <2>1, <2>5, <2>9, <3>1, <3>2, TakenBy
      <3>5. Taken(branches(q), branches(q)', d, cpu[q].freeBranches, cpu'[q].freeBranches)
        BY <2>1, <2>6, <2>9, <3>1, <3>2, TakenBy
      <3>6. Taken(renamed(q), renamed(q)', d, cpu[q].regPool, cpu'[q].regPool)
        BY <2>1, <2>7, <2>9, <3>1, <3>2, TakenBy
      <3> QED BY <3>3, <3>4, <3>5, <3>6 DEF ResourcesTaken
    <2> QED BY <2>8, <2>9
  <1> QED BY <1>1, ResourcesMoved DEF IInv

(* The first instruction of the first bucket leaves a queue of buckets, and *)
(* the bucket with its last one.                                            *)
Left(A, d, B) ==
  /\ Items(A) = {d} \cup Items(B)
  /\ \A x, y : Precedes(A, x, y) <=> Precedes(B, x, y) \/ (x = d /\ y \in Items(B))

Rest(A, b) == IF Len(b) = 1 THEN Tail(A) ELSE <<Tail(b)>> \o Tail(A)

LEMMA FirstLeaves ==
  ASSUME NEW A \in Seq(Seq(Slots) \ {<<>>}), A # <<>>, NEW b, b = Head(A), NEW d, d = Head(b),
         NEW B, B = Rest(A, b)
  PROVE  /\ d \in Slots /\ B \in Queues /\ Left(A, d, B) /\ Len(A) \in Nat
         /\ Len(B) = IF Len(b) = 1 THEN Len(A) - 1 ELSE Len(A)
  <1>1. PICK S : S = Seq(Slots) \ {<<>>}
    OBVIOUS
  <1>2. PICK R, t : R = Tail(A) /\ t = Tail(b)
    OBVIOUS
  <1>3. /\ b \in S /\ R \in Seq(S) /\ Len(R) = Len(A) - 1 /\ Len(A) \in Nat /\ A \in Seq(S)
    BY <1>1, <1>2, HeadTailProperties
  <1>4. b \in Seq(Slots) /\ b # <<>>
    BY <1>1, <1>3
  <1>5. d \in Slots /\ t \in Seq(Slots) /\ Len(t) = Len(b) - 1 /\ Len(b) \in Nat
    BY <1>2, <1>4, HeadTailProperties
  <1>6. R \in Nested /\ A \in Nested /\ t \in Seq(Nat) /\ b \in Seq(Nat)
    <2>1. R \in Seq(Seq(Slots)) /\ A \in Seq(Seq(Slots))
      <3>1. R \in Seq(S) /\ A \in Seq(S) /\ S \subseteq Seq(Slots)
        BY <1>1, <1>3
      <3> QED BY <3>1
    <2> QED BY <1>4, <1>5, <2>1, BucketsNested
  <1>7. ASSUME NEW x, NEW y
        PROVE  /\ Items(A) = Range(b) \cup Items(R)
               /\ Range(b) = {d} \cup Range(t)
               /\ Precedes(A, x, y) <=>
                    \/ Follows(t, x, y) \/ (x = d /\ y \in Range(t)) \/ Precedes(R, x, y)
                    \/ (x \in Range(b) /\ y \in Items(R))
    BY <1>2, <1>4, <1>6, HeadBucket, HeadItem
  <1>8. CASE Len(b) = 1
    <2>0. Len(t) = 0 /\ B = R
      BY <1>2, <1>5, <1>8 DEF Rest
    <2>1. t = <<>>
      BY ONLY <1>5, <2>0
    <2>2. Left(A, d, B)
      <3>1. Range(t) = {} /\ \A x, y : ~Follows(t, x, y)
        BY <2>1, NoItem
      <3>2. Range(b) = {d} /\ Items(A) = {d} \cup Items(R)
        BY <1>7, <3>1
      <3>3. ASSUME NEW x, NEW y
            PROVE  Precedes(A, x, y) <=> Precedes(R, x, y) \/ (x = d /\ y \in Items(R))
        <4>1. Precedes(A, x, y) <=>
                \/ Follows(t, x, y) \/ (x = d /\ y \in Range(t)) \/ Precedes(R, x, y)
                \/ (x \in Range(b) /\ y \in Items(R))
          BY <1>7
        <4> QED BY <3>1, <3>2, <4>1
      <3> QED BY <2>0, <3>2, <3>3 DEF Left
    <2> QED BY <1>1, <1>3, <1>5, <1>8, <2>0, <2>2 DEF Queues
  <1>9. CASE Len(b) # 1
    <2>0. B = <<t>> \o R
      BY <1>2, <1>9 DEF Rest
    <2>1. /\ Items(B) = Range(t) \cup Items(R)
          /\ \A x, y : Precedes(B, x, y) <=>
               \/ Follows(t, x, y) \/ Precedes(R, x, y) \/ (x \in Range(t) /\ y \in Items(R))
      BY <1>6, <2>0, PrependBucket
    <2>2. Left(A, d, B)
      BY <1>7, <2>1 DEF Left
    <2>3. t \in S
      <3>1. Len(t) # 0
        BY <1>4, <1>5, <1>9, EmptySeq
      <3>2. Len(<<>>) = 0
        OBVIOUS
      <3>3. t # <<>>
        BY ONLY <3>1, <3>2
      <3> QED BY <1>1, <1>5, <3>3
    <2>4. B \in Seq(S) /\ Len(B) = 1 + Len(R)
      <3>1. <<t>> \in Seq(S) /\ Len(<<t>>) = 1
        BY <2>3
      <3>2. PICK u : u = <<t>>
        OBVIOUS
      <3>3. u \in Seq(S) /\ Len(u) = 1 /\ B = u \o R
        BY <2>0, <3>1, <3>2
      <3>4. u \o R \in Seq(S) /\ Len(u \o R) = Len(u) + Len(R)
        BY <1>3, <3>3, ConcatProperties
      <3> QED BY <3>3, <3>4
    <2>5. Len(B) = Len(A)
      BY <1>3, <2>4
    <2> QED BY <1>1, <1>3, <1>5, <1>9, <2>2, <2>4, <2>5 DEF Queues
  <1> QED BY <1>8, <1>9

(* The order of instructions is the one before issue.                      *)
LEMMA IssuedPlaces ==
  ASSUME NEW p \in Procs, NEW d \in Slots, cpu[p].rob \in Seq(Nat),
         cpu'[p].rob = Append(cpu[p].rob, d), Left(fe[p].instQueue, d, fe'[p].instQueue),
         PipeItems(fe'[p].pipe) = PipeItems(fe[p].pipe),
         \A x, y : PipeBefore(fe'[p].pipe, x, y) <=> PipeBefore(fe[p].pipe, x, y)
  PROVE  /\ robOf(p)' = robOf(p) \cup {d} /\ queueOf(p) = {d} \cup queueOf(p)'
         /\ inPipe(p)' = inPipe(p)
         /\ \A x, y : Before(p, x, y)' <=> Before(p, x, y)
         /\ \A y \in queueOf(p)' \cup inPipe(p)' : Before(p, d, y)
  <1>1. PICK pl, r, A, B, s, t :
          /\ pl = fe[p].pipe /\ r = fe'[p].pipe /\ A = fe[p].instQueue /\ B = fe'[p].instQueue
          /\ s = cpu[p].rob /\ t = cpu'[p].rob
    OBVIOUS
  <1>2. /\ Range(t) = Range(s) \cup {d}
        /\ \A x, y : Follows(t, x, y) <=> Follows(s, x, y) \/ (x \in Range(s) /\ y = d)
    <2>1. s \in Seq(Nat) /\ d \in Nat /\ t = Append(s, d)
      BY <1>1, SlotsAssumption
    <2> QED BY <2>1, AppendItem
  <1>3. /\ Items(A) = {d} \cup Items(B)
        /\ \A x, y : Precedes(A, x, y) <=> Precedes(B, x, y) \/ (x = d /\ y \in Items(B))
    BY <1>1 DEF Left
  <1>4. /\ robOf(p)' = Range(t) /\ robOf(p) = Range(s) /\ queueOf(p)' = Items(B)
        /\ queueOf(p) = Items(A) /\ inPipe(p) = PipeItems(pl) /\ inPipe(p)' = PipeItems(pl)
    BY <1>1, BeforeIs
  <1>5. ASSUME NEW x, NEW y
        PROVE  /\ Before(p, x, y) <=>
                    \/ Follows(s, x, y)
                    \/ x \in Range(s) /\ y \in Items(A) \cup PipeItems(pl)
                    \/ Precedes(A, x, y)
                    \/ x \in Items(A) /\ y \in PipeItems(pl)
                    \/ PipeBefore(pl, x, y)
               /\ Before(p, x, y)' <=>
                    \/ Follows(t, x, y)
                    \/ x \in Range(t) /\ y \in Items(B) \cup PipeItems(pl)
                    \/ Precedes(B, x, y)
                    \/ x \in Items(B) /\ y \in PipeItems(pl)
                    \/ PipeBefore(pl, x, y)
    BY <1>1, <1>4, BeforeIs
  <1>6. ASSUME NEW x, NEW y PROVE Before(p, x, y)' <=> Before(p, x, y)
    BY <1>2, <1>3, <1>5
  <1>7. ASSUME NEW y \in queueOf(p)' \cup inPipe(p)' PROVE Before(p, d, y)
    BY <1>3, <1>4, <1>5
  <1>8. /\ robOf(p)' = robOf(p) \cup {d} /\ queueOf(p) = {d} \cup queueOf(p)'
        /\ inPipe(p)' = inPipe(p)
    BY <1>2, <1>3, <1>4
  <1> QED BY <1>6, <1>7, <1>8

(* An instruction enters the ROB.                                          *)
LEMMA EntersROB ==
  ASSUME IInv, NEW d \in Live, dinst[d].st = "fetched", NEW p \in Procs, p = dinst[d].proc,
         Moves({d}), Wakeups', SameInst(dinst[d], dinst'[d]), dinst'[d].epoch = dinst[d].epoch,
         dinst'[d].st \in {"selected", "window"},
         cpu' = [cpu EXCEPT ![p] = takeEntries(cpu[p], d, dinst[d].inst, Fake(d))],
         stores' = getStoreEntry(d, dinst[d].inst),
         NEW g \in FrontEnd, fe' = [fe EXCEPT ![p] = g], g.pc = fe[p].pc,
         g.missInstID = fe[p].missInstID, g.btac = fe[p].btac,
         g.pipe.nCleanMarks = fe[p].pipe.nCleanMarks,
         Left(fe[p].instQueue, d, g.instQueue), PipeItems(g.pipe) = PipeItems(fe[p].pipe),
         \A x, y : PipeBefore(g.pipe, x, y) <=> PipeBefore(fe[p].pipe, x, y),
         BucketsAt(p)'
  PROVE  IInv' /\ (Window => Window')
  <1>1. /\ conf \in Confs /\ fe \in [Procs -> FrontEnd] /\ cpu \in [Procs -> Core]
        /\ dinst \in DInsts /\ d \in Slots /\ dinst[d] \in DInst /\ dinst[d].inst \in Instruction
        /\ dinst' \in DInsts /\ conf' = conf
    BY TypedFacts DEF Moves
  <1>2. PICK i \in Instruction, fake \in BOOLEAN : i = dinst[d].inst /\ fake = Fake(d)
    BY <1>1 DEF Fake, DInst
  <1>3. PICK c \in Core : c = cpu[p]
    BY <1>1
  <1>4. PICK e : e = takeEntries(c, d, i, fake)
    OBVIOUS
  <1>5. /\ e \in Core /\ e.rob = Append(c.rob, d)
        /\ e.rat = [c.rat EXCEPT ![i.dest] = d]
        /\ e.windowSize = c.windowSize - 1
        /\ e.freeLoads = c.freeLoads - One(i.op = "load" /\ ~fake)
        /\ e.freeStores = c.freeStores - One(i.op = "store" /\ ~fake)
        /\ e.freeBranches = c.freeBranches - One(i.op = "branch")
        /\ e.regPool = c.regPool - One(i.dest # InvalidOutput /\ ~fake)
        /\ e.retired = c.retired /\ e.epoch = c.epoch
        /\ e.pendingFence = c.pendingFence /\ e.nOutsStores = c.nOutsStores
    <2>1. Takes(c, d, i, fake, e)
      BY <1>1, <1>4, TakeEntries
    <2> QED BY <2>1 DEF Takes
  <1>6. cpu' = [cpu EXCEPT ![p] = e]
    BY <1>2, <1>3, <1>4
  <1>7. cpu' \in [Procs -> Core] /\ cpu'[p] = e /\ \A q \in Procs \ {p} : cpu'[q] = cpu[q]
    BY <1>1, <1>5, <1>6, CpuStep
  <1>8. fe' \in [Procs -> FrontEnd] /\ fe'[p] = g /\ \A q \in Procs \ {p} : fe'[q] = fe[q]
    BY <1>1
  <1>9. /\ stores \in [Words \cup {NoWord} -> Slots \cup {0}]
        /\ stores' \in [Words \cup {NoWord} -> Slots \cup {0}]
        /\ \A w \in Words \cup {NoWord} :
             \/ stores'[w] = stores[w]
             \/ stores'[w] = d /\ i.op = "store" /\ i.word = w
    <2>1. stores \in [Words \cup {NoWord} -> Slots \cup {0}]
      BY DEF IInv, Typed
    <2>2. i.word \in Words \cup {NoWord}
      BY DEF Instruction
    <2>3. CASE i.op = "store"
      BY <1>1, <1>2, <2>1, <2>2, <2>3 DEF getStoreEntry
    <2>4. CASE i.op # "store"
      BY <1>2, <2>1, <2>4 DEF getStoreEntry
    <2> QED BY <2>1, <2>3, <2>4
  <1>10. Typed'
    BY <1>1, <1>7, <1>8, <1>9 DEF Typed, DInsts
  <1>11. /\ robOf(p)' = robOf(p) \cup {d} /\ queueOf(p) = {d} \cup queueOf(p)'
         /\ inPipe(p)' = inPipe(p)
         /\ \A x, y : Before(p, x, y)' <=> Before(p, x, y)
         /\ \A y \in queueOf(p)' \cup inPipe(p)' : Before(p, d, y)
    <2>1. cpu[p].rob \in Seq(Nat)
      BY <1>1, CoreTypes
    <2>2. cpu'[p].rob = Append(cpu[p].rob, d)
      BY <1>3, <1>5, <1>7
    <2> QED BY <1>1, <1>8, <2>1, <2>2, IssuedPlaces
  <1>12. ASSUME NEW q \in Procs, q # p PROVE SamePlaces(q)
    BY <1>7, <1>8, <1>12, SamePlacesFrom
  <1>13. ASSUME NEW q \in Procs
         PROVE  \A x, y : Before(q, x, y)' <=> Before(q, x, y)
    BY <1>11, <1>12 DEF SamePlaces
  <1>14. PICK t \in {"selected", "window"} : t = dinst'[d].st
    OBVIOUS
  <1>15. ASSUME NEW q \in Procs
         PROVE  /\ \A S \in {inROB, {"fetched"}, {"memory"}, waiting, inROB \cup {"fetched"},
                             inROB \ {"executed"}} :
                     /\ \A x \in Slots \ {d} : x \in InStage(q, S)' <=> x \in InStage(q, S)
                     /\ d \in InStage(q, S) <=> q = p /\ "fetched" \in S
                     /\ d \in InStage(q, S)' <=> q = p /\ t \in S
                     /\ InStage(q, S) \subseteq Slots /\ InStage(q, S)' \subseteq Slots
    BY <1>1, <1>14, ClosedStages, StageOf DEF Closed
  <1>16. ASSUME NEW q \in Procs PROVE PlacedAt(q)'
    <2>1. PlacedAt(q)
      BY PlacedIs DEF IInv
    <2>2. \A x \in Slots : ~Before(q, x, x)'
      BY <1>13, <2>1 DEF PlacedAt
    <2>3. CASE q # p
      <3>1. /\ InStage(q, inROB)' = InStage(q, inROB)
            /\ InStage(q, {"fetched"})' = InStage(q, {"fetched"})
        <4>1. \A S \in {inROB, {"fetched"}} :
                /\ InStage(q, S)' \subseteq Slots /\ InStage(q, S) \subseteq Slots
                /\ \A x \in Slots : x \in InStage(q, S)' <=> x \in InStage(q, S)
          <5>1. ASSUME NEW S \in {inROB, {"fetched"}}
                PROVE  /\ InStage(q, S)' \subseteq Slots /\ InStage(q, S) \subseteq Slots
                       /\ \A x \in Slots \ {d} : x \in InStage(q, S)' <=> x \in InStage(q, S)
                       /\ d \notin InStage(q, S) /\ d \notin InStage(q, S)'
            BY <1>15, <2>3
          <5> QED BY <5>1
        <4> QED BY <4>1
      <3> QED BY <1>12, <2>1, <2>2, <2>3, <3>1 DEF PlacedAt, SamePlaces
    <2>4. CASE q = p
      <3>1. InStage(p, inROB)' = InStage(p, inROB) \cup {d}
        <4>1. t \in inROB
          BY DEF inROB
        <4>2. \A x \in Slots : x \in InStage(p, inROB)' <=> x \in InStage(p, inROB) \/ x = d
          BY <1>1, <1>15, <4>1
        <4> QED BY <1>1, <1>15, <4>2
      <3>2. InStage(p, {"fetched"})' = InStage(p, {"fetched"}) \ {d}
        <4>1. \A x \in Slots : x \in InStage(p, {"fetched"})' <=> x \in InStage(p, {"fetched"}) /\ x # d
          BY <1>1, <1>14, <1>15
        <4> QED BY <1>15, <4>1
      <3>3. d \notin queueOf(p)' \cup inPipe(p)'
        BY <1>1, <1>11, <2>1, <2>4 DEF PlacedAt
      <3>4. (queueOf(p) \cup inPipe(p))' \ {0} = ((queueOf(p) \cup inPipe(p)) \ {0}) \ {d}
        BY <1>11, <3>3
      <3> QED BY <1>11, <2>1, <2>2, <2>4, <3>1, <3>2, <3>4 DEF PlacedAt
    <2> QED BY <2>3, <2>4
  <1>17. ASSUME NEW q \in Procs
         PROVE  /\ Real(q)' = Real(q) /\ Real(q) \subseteq Slots
                /\ \A x \in Real(q) : dinst'[x].pos = dinst[x].pos
                /\ Blocking(q)' = Blocking(q) /\ Blocking(q) \subseteq Slots
                /\ outstanding(q)' = outstanding(q)
    <2>1. \A x \in Slots \ {d} : /\ x \in Real(q)' <=> x \in Real(q)
                                 /\ x \in Blocking(q)' <=> x \in Blocking(q)
                                 /\ x \in outstanding(q)' <=> x \in outstanding(q)
      BY DriftedSets DEF Moves
    <2>2. /\ "fetched" \in inROB \cup {"fetched"} /\ t \in inROB \cup {"fetched"}
          /\ "fetched" \in waiting /\ t \in waiting /\ t # "memory"
      BY DEF inROB, waiting
    <2>3. d \in Real(q)' <=> d \in Real(q)
      BY <1>15, <2>2 DEF Real, SameInst
    <2>4. d \in Blocking(q)' <=> d \in Blocking(q)
      BY <1>15, <2>2 DEF Blocking, SameInst
    <2>5. d \in outstanding(q)' <=> d \in outstanding(q)
      BY <1>15, <2>2 DEF outstanding
    <2>6. {Real(q), Real(q)', Blocking(q), Blocking(q)', outstanding(q), outstanding(q)'}
             \subseteq SUBSET Slots
      BY DEF Real, Blocking, outstanding, InStage
    <2>7. ASSUME NEW x \in Real(q) PROVE dinst'[x].pos = dinst[x].pos
      <3>1. CASE x = d
        BY <3>1 DEF SameInst
      <3>2. CASE x # d
        <4>1. x \in Live /\ x \in Slots \ {d}
          BY <2>7, <3>2 DEF Real, InStage, Live, Free, inROB
        <4>2. Alike(dinst[x], dinst'[x])
          BY <1>1, <4>1, Drifted DEF Moves
        <4> QED BY <4>2 DEF Alike
      <3> QED BY <3>1, <3>2
    <2>8. Real(q)' = Real(q)
      BY <2>1, <2>3, <2>6
    <2>9. Blocking(q)' = Blocking(q)
      <3>1. PICK S \in SUBSET Slots, T \in SUBSET Slots : S = Blocking(q)' /\ T = Blocking(q)
        BY <2>6
      <3>2. \A x \in Slots : x \in S <=> x \in T
        BY <1>1, <2>1, <2>4, <3>1
      <3> QED BY <3>1, <3>2
    <2>10. outstanding(q)' = outstanding(q)
      BY <2>1, <2>5, <2>6, SMTT(30)
    <2> QED BY <2>6, <2>7, <2>8, <2>9, <2>10
  <1>18. ASSUME NEW q \in Procs
         PROVE  /\ cpu'[q].retired = cpu[q].retired /\ cpu'[q].nOutsStores = cpu[q].nOutsStores
                /\ cpu'[q].pendingFence = cpu[q].pendingFence /\ cpu'[q].epoch = cpu[q].epoch
                /\ fe'[q].pc = fe[q].pc
    BY <1>3, <1>5, <1>7, <1>8
  <1>19. Placed'
    BY <1>16, PlacedIs
  <1>20. Sequential'
    <2>1. ASSUME NEW q \in Procs PROVE SequentialAt(q)'
      BY <1>13, <1>17, <1>18, SequentialKept DEF IInv
    <2> QED BY <2>1, PlacedIs
  <1>21. Origins'
    BY OriginsKept DEF IInv
  <1>22. Marked'
    <2>1. ASSUME NEW q \in Procs PROVE MarkedAt(q)'
      <3>1. MarkedAt(q)
        BY MarkedIs DEF IInv
      <3>2. 0 \in inPipe(q)' <=> 0 \in inPipe(q)
        BY <1>11, <1>12 DEF SamePlaces
      <3>3. /\ fe'[q].missInstID = fe[q].missInstID /\ fe'[q].btac = fe[q].btac
            /\ fe'[q].pipe.nCleanMarks = fe[q].pipe.nCleanMarks
        BY <1>8
      <3> QED BY <1>13, <1>17, <3>1, <3>2, <3>3, MarkedKept
    <2> QED BY <2>1, MarkedIs
  <1>23. Buckets'
    <2>1. ASSUME NEW q \in Procs, q # p PROVE BucketsAt(q)'
      <3>1. PoolsKept(fe[q].pipe, fe'[q].pipe)
        BY <1>1, <1>8, <2>1, FrontEndTypes DEF PoolsKept
      <3> QED BY <1>8, <2>1, <3>1, PoolsKeptAt
    <2> QED BY <2>1, BucketsIs
  <1>24. Resources'
    <2>1. Shifts(d, c, e)
      <3>1. /\ dinst[d].st \notin inROB /\ dinst'[d].st \in inROB
            /\ dinst[d].st \notin inROB \ {"executed"} /\ dinst'[d].st \in inROB \ {"executed"}
        BY <1>14 DEF inROB
      <3>2. ASSUME NEW S, dinst[d].st \notin S, dinst'[d].st \in S, NEW b \in BOOLEAN,
                   NEW u \in Int, NEW v, v = u - One(b)
            PROVE  Shift(d, S, b, u, v)
        BY <3>2 DEF Shift, One
      <3>3. PICK b1 \in BOOLEAN, b2 \in BOOLEAN, b3 \in BOOLEAN, b4 \in BOOLEAN :
              /\ b1 = (Op(d) = "load" /\ ~Fake(d)) /\ b2 = (Op(d) = "store" /\ ~Fake(d))
              /\ b3 = (Op(d) = "branch") /\ b4 = (dinst[d].inst.dest # InvalidOutput /\ ~Fake(d))
        OBVIOUS
      <3>4. /\ c.freeLoads \in Int /\ c.freeStores \in Int
            /\ c.regPool \in Int /\ c.freeBranches \in Int
        BY CoreTypes
      <3>5. /\ e.freeLoads = c.freeLoads - One(b1) /\ e.freeStores = c.freeStores - One(b2)
            /\ e.freeBranches = c.freeBranches - One(b3) /\ e.regPool = c.regPool - One(b4)
        BY <1>2, <1>5, <3>3 DEF Op
      <3>6. /\ Shift(d, inROB, b1, c.freeLoads, e.freeLoads)
            /\ Shift(d, inROB, b2, c.freeStores, e.freeStores)
            /\ Shift(d, inROB \ {"executed"}, b3, c.freeBranches, e.freeBranches)
            /\ Shift(d, inROB, b4, c.regPool, e.regPool)
        BY <3>1, <3>2, <3>4, <3>5
      <3> QED BY <3>3, <3>6 DEF Shifts
    <2>2. Shifts(d, cpu[p], cpu'[p])
      BY <1>3, <1>7, <2>1
    <2> QED BY <1>1, <1>7, <2>2, ResourceStep
  <1>25. Fenced'
    <2>1. \A x \in {d} : dinst'[x].st # "memory"
      OBVIOUS
    <2> QED BY <1>17, <1>18, <2>1, FencedKept DEF IInv
  <1>26. Renaming'
    <2>1. ASSUME NEW q \in Procs, NEW r \in Regs \cup {NoDependence}
          PROVE  RenamedNext(q, r, cpu'[q].rat[r], {d})
      <3>1. PICK x, z : x = cpu'[q].rat[r] /\ z = cpu[q].rat[r]
        OBVIOUS
      <3>2. x = z \/ (x = d /\ q = p /\ i.dest = r)
        <4>1. CASE q = p
          <5>1. c.rat \in [AllRegs -> Slots \cup {0}] /\ r \in AllRegs
            BY CoreTypes DEF AllRegs
          <5>2. z = c.rat[r] /\ x = e.rat[r]
            BY <1>3, <1>7, <3>1, <4>1
          <5> QED BY <1>5, <4>1, <5>1, <5>2
        <4>2. CASE q # p
          BY <1>7, <3>1, <4>2
        <4> QED BY <4>1, <4>2
      <3>3. z # d
        <4>1. RenamedAs(q, r, z)
          BY <3>1 DEF IInv, Renaming
        <4>2. d # 0
          BY <1>1, BucketsNested
        <4>3. "fetched" \notin inROB
          BY DEF inROB
        <4> QED BY <4>1, <4>2, <4>3 DEF RenamedAs, InStage
      <3>4. CASE x = d /\ q = p /\ i.dest = r
        <4>1. d \in InStage(q, inROB \ {"executed"})'
          <5>1. t \in inROB \ {"executed"}
            BY DEF inROB
          <5> QED BY <1>15, <3>4, <5>1
        <4>2. dinst'[d].inst.dest = r
          BY <1>2, <3>4 DEF SameInst
        <4> QED BY <3>1, <3>4, <4>1, <4>2 DEF RenamedNext
      <3> QED BY <3>1, <3>2, <3>3, <3>4 DEF RenamedNext
    <2> QED BY <2>1, RenamingKept DEF IInv
  <1>27. Buffered'
    <2>1. ASSUME NEW w \in Words \cup {NoWord} PROVE BufferedNext(w, stores'[w], {d})
      <3>1. PICK x, z : x = stores'[w] /\ z = stores[w]
        OBVIOUS
      <3>2. z # d
        <4>1. BufferedAs(w, z)
          BY <1>9, <3>1 DEF IInv, Buffered
        <4>2. d # 0
          BY <1>1, BucketsNested
        <4> QED BY <4>1, <4>2 DEF BufferedAs, inROB
      <3>3. CASE x = d /\ i.op = "store" /\ i.word = w
        <4>1. /\ dinst'[d] \in DInst /\ dinst'[d].inst = i /\ dinst'[d].st \in inROB
          BY <1>2 DEF SameInst, inROB
        <4> QED BY <3>1, <3>3, <4>1 DEF BufferedNext
      <3>4. CASE x = z
        BY <3>1, <3>2, <3>4 DEF BufferedNext
      <3> QED BY <1>9, <3>1, <3>3, <3>4
    <2> QED BY <1>9, <2>1, BufferedKept DEF IInv
  <1>28. Window => Window'
    <2>1. WindowTaken(d, dinst[d].st, dinst'[d].st, cpu[p], cpu'[p])
      <3>1. conf.recycleAt \in {"Issue", "Execute", "Retire"}
        BY <1>1, ProgramsAssumption
      <3>2. "fetched" \notin holdsEntry[conf.recycleAt] /\ t \in holdsEntry[conf.recycleAt]
        BY <3>1 DEF holdsEntry
      <3>3. c.windowSize \in Int
        BY CoreTypes
      <3> QED BY <1>3, <1>5, <1>7, <1>14, <3>2, <3>3 DEF WindowTaken, One
    <2> QED BY <1>7, <2>1, WindowStep DEF SameInst
  <1> QED BY <1>10, <1>19, <1>20, <1>21, <1>22, <1>23, <1>24, <1>25, <1>26, <1>27, <1>28 DEF IInv

(* What an instruction is to wait for is in the ROB.                       *)
LEMMA RenamedLive ==
  ASSUME IInv, NEW p \in Procs, NEW r \in Regs \cup {NoDependence}, NEW x, x = cpu[p].rat[r]
  PROVE  x \in Slots \cup {0} /\ (x # 0 => x \in Live /\ dinst[x].st # "fetched")
  <1>1. RenamedAs(p, r, x)
    BY DEF IInv, Renaming
  <1>2. x \in Slots \cup {0}
    <2>1. cpu[p] \in Core /\ r \in AllRegs
      BY TypedFacts DEF AllRegs
    <2> QED BY <2>1, CoreTypes
  <1> QED BY <1>1, <1>2 DEF RenamedAs, InStage, inROB, Live, Free

LEMMA BufferedLive ==
  ASSUME IInv, NEW w \in Words \cup {NoWord}, NEW x, x = stores[w]
  PROVE  x \in Slots \cup {0} /\ (x # 0 => x \in Live /\ dinst[x].st # "fetched")
  <1>1. x \in Slots \cup {0} /\ DOMAIN stores = Words \cup {NoWord}
    BY DEF IInv, Typed
  <1>2. BufferedAs(w, x)
    BY <1>1 DEF IInv, Buffered
  <1> QED BY <1>1, <1>2 DEF BufferedAs, inROB

(* The instructions after the one in d is issued, with its sources.        *)
IssuedInsts(p, d, s, src1, src2) ==
  LET i == dinst[d].inst
      remote == s # 0 /\ dinst[s].proc # p
      deps == {n \in {1, 2} : <<src1, src2>>[n] # 0}
  IN  [x \in Slots |->
         IF x = d
         THEN [dinst[d] EXCEPT
                 !.st = IF deps = {} THEN "selected" ELSE "window",
                 !.deps = deps, !.depsAtRetire = remote,
                 !.forwarded = /\ i.op = "load" /\ stores[i.word] # 0
                               /\ dinst[stores[i.word]].proc = p]
         ELSE IF x \in {src1, src2}
         THEN [dinst[x] EXCEPT
                 !.pend = @ \cup {[d |-> d, src |-> n] :
                                    n \in {m \in {1, 2} : <<src1, src2>>[m] = x}}]
         ELSE dinst[x]]

LEMMA IssueStep ==
  ASSUME IInv, NEW p \in Procs, Issue(p)
  PROVE  IInv' /\ (Window => Window')
  <1>1. PICK f, pl, A, b, d, i :
          /\ f = fe[p] /\ pl = f.pipe /\ A = f.instQueue /\ b = Head(A) /\ d = Head(b)
          /\ i = dinst[d].inst
    OBVIOUS
  <1>2. PICK s, src1, src2, x1 :
          /\ s = getLoadEntry(p, i) /\ x1 = cpu[p].rat[i.src2]
          /\ src1 = cpu[p].rat[i.src1] /\ src2 = IF s # 0 THEN s ELSE x1
    OBVIOUS
  <1>3. PICK remote, forwarded, deps :
          /\ remote \in BOOLEAN /\ forwarded \in BOOLEAN
          /\ remote = (s # 0 /\ dinst[s].proc # p)
          /\ forwarded = (/\ i.op = "load" /\ stores[i.word] # 0
                          /\ dinst[stores[i.word]].proc = p)
          /\ deps = {n \in {1, 2} : <<src1, src2>>[n] # 0}
    OBVIOUS
  <1>4. PICK y : y = [dinst[d] EXCEPT !.st = IF deps = {} THEN "selected" ELSE "window",
                                      !.deps = deps, !.depsAtRetire = remote,
                                      !.forwarded = forwarded]
    OBVIOUS
  <1>5. /\ A # <<>> /\ UNCHANGED conf /\ stores' = getStoreEntry(d, i)
        /\ cpu' = [cpu EXCEPT ![p] = takeEntries(cpu[p], d, i, Fake(d))]
        /\ dinst' = [x \in Slots |->
             IF x = d THEN y
             ELSE IF x \in {src1, src2}
             THEN [dinst[x] EXCEPT
                     !.pend = @ \cup {[d |-> d, src |-> n] :
                                        n \in {m \in {1, 2} : <<src1, src2>>[m] = x}}]
             ELSE dinst[x]]
        /\ fe' = [fe EXCEPT
             ![p].spaceInInstQueue = @ + 1,
             ![p].instQueue = Rest(A, b),
             ![p].pipe = IF Len(b) = 1 THEN doneItem(@) ELSE @]
    <2> HIDE DEF getLoadEntry, getStoreEntry, takeEntries, canIssue, doneItem
    <2>1. A # <<>> /\ UNCHANGED conf /\ stores' = getStoreEntry(d, i)
      BY <1>1 DEF Issue
    <2>2. cpu' = [cpu EXCEPT ![p] = takeEntries(cpu[p], d, i, Fake(d))]
      BY <1>1 DEF Issue
    <2>3. dinst' = [x \in Slots |->
             IF x = d THEN y
             ELSE IF x \in {src1, src2}
             THEN [dinst[x] EXCEPT
                     !.pend = @ \cup {[d |-> d, src |-> n] :
                                        n \in {m \in {1, 2} : <<src1, src2>>[m] = x}}]
             ELSE dinst[x]]
      <3>1. PICK w : w = [dinst[d] EXCEPT !.st = IF deps = {} THEN "selected" ELSE "window",
                            !.deps = deps, !.depsAtRetire = s # 0 /\ dinst[s].proc # p,
                            !.forwarded = /\ i.op = "load" /\ stores[i.word] # 0
                                          /\ dinst[stores[i.word]].proc = p]
        OBVIOUS
      <3>2. dinst' = [x \in Slots |->
               IF x = d THEN w
               ELSE IF x \in {src1, src2}
               THEN [dinst[x] EXCEPT
                       !.pend = @ \cup {[d |-> d, src |-> n] :
                                          n \in {m \in {1, 2} : <<src1, src2>>[m] = x}}]
               ELSE dinst[x]]
        <4>1. dinst' = IssuedInsts(p, d, s, src1, src2)
          <5>1. PICK D, E, F, G : /\ D = Head(Head(fe[p].instQueue))
                                  /\ E = getLoadEntry(p, dinst[D].inst)
                                  /\ F = cpu[p].rat[dinst[D].inst.src1]
                                  /\ G = IF E # 0 THEN E ELSE cpu[p].rat[dinst[D].inst.src2]
            OBVIOUS
          <5>2. dinst' = IssuedInsts(p, Head(Head(fe[p].instQueue)),
                   getLoadEntry(p, dinst[Head(Head(fe[p].instQueue))].inst),
                   cpu[p].rat[dinst[Head(Head(fe[p].instQueue))].inst.src1],
                   IF getLoadEntry(p, dinst[Head(Head(fe[p].instQueue))].inst) # 0
                   THEN getLoadEntry(p, dinst[Head(Head(fe[p].instQueue))].inst)
                   ELSE cpu[p].rat[dinst[Head(Head(fe[p].instQueue))].inst.src2])
            BY DEF Issue, IssuedInsts
          <5>3. D = d /\ E = s /\ F = src1 /\ G = src2
            BY <1>1, <1>2, <5>1
          <5> QED BY <5>1, <5>2, <5>3
        <4> QED BY <1>1, <1>3, <3>1, <4>1 DEF IssuedInsts
      <3>3. w = y
        BY <1>3, <1>4, <3>1
      <3> QED BY <3>2, <3>3
    <2>4. fe' = [fe EXCEPT
             ![p].spaceInInstQueue = @ + 1,
             ![p].instQueue = IF Len(b) = 1 THEN Tail(@) ELSE <<Tail(b)>> \o Tail(@),
             ![p].pipe = IF Len(b) = 1 THEN doneItem(@) ELSE @]
      BY <1>1 DEF Issue
    <2>5. fe' = [fe EXCEPT
             ![p].spaceInInstQueue = @ + 1, ![p].instQueue = Rest(A, b),
             ![p].pipe = IF Len(b) = 1 THEN doneItem(@) ELSE @]
      BY <1>1, <2>4 DEF Rest
    <2> QED BY <2>1, <2>2, <2>3, <2>5
  <1>6. /\ f \in FrontEnd /\ pl \in PipelineRec /\ fe \in [Procs -> FrontEnd]
        /\ cpu \in [Procs -> Core] /\ dinst \in DInsts /\ Wakeups /\ conf \in Confs
        /\ A \in Seq(Seq(Slots) \ {<<>>}) /\ f.spaceInInstQueue \in Int
    BY <1>1, TypedFacts, FrontEndTypes
  <1>7. PICK B : B = Rest(A, b)
    OBVIOUS
  <1>8. /\ d \in Slots /\ B \in Queues /\ Left(A, d, B) /\ Len(A) \in Nat
        /\ Len(B) = IF Len(b) = 1 THEN Len(A) - 1 ELSE Len(A)
    <2>1. A \in Seq(Seq(Slots) \ {<<>>}) /\ A # <<>>
      BY <1>5, <1>6
    <2>2. b = Head(A) /\ d = Head(b) /\ B = Rest(A, b)
      BY <1>1, <1>7
    <2> QED BY ONLY <2>1, <2>2, FirstLeaves, SMTT(30)
  <1>9. PlacedAt(p) /\ BucketsAt(p)
    BY PlacedIs, BucketsIs DEF IInv
  <1>10. queueOf(p) = Items(A) /\ d \in queueOf(p) /\ d # 0
    BY <1>1, <1>8, BeforeIs, BucketsNested DEF Left
  <1>11. /\ d \in Live /\ dinst[d].st = "fetched" /\ dinst[d].proc = p
         /\ dinst[d] \in DInst /\ i \in Instruction /\ dinst[d].pend = {}
    <2>1. d \in InStage(p, {"fetched"})
      BY <1>9, <1>10 DEF PlacedAt
    <2>2. d \in Live /\ dinst[d].st = "fetched" /\ dinst[d].proc = p
      BY <2>1 DEF InStage, Live, Free
    <2>3. dinst[d] \in DInst /\ i \in Instruction
      BY <1>1, <2>2, TypedFacts
    <2> QED BY <1>6, <2>2, <2>3 DEF Wakeups
  <1>12. /\ src1 \in Slots \cup {0} /\ src2 \in Slots \cup {0}
         /\ src1 # 0 => src1 \in Live /\ dinst[src1].st # "fetched"
         /\ src2 # 0 => src2 \in Live /\ dinst[src2].st # "fetched"
    <2>0. {i.src1, i.src2} \subseteq Regs \cup {NoDependence} /\ i.word \in Words \cup {NoWord}
      BY <1>11 DEF Instruction
    <2>1. /\ src1 \in Slots \cup {0} /\ x1 \in Slots \cup {0}
          /\ src1 # 0 => src1 \in Live /\ dinst[src1].st # "fetched"
          /\ x1 # 0 => x1 \in Live /\ dinst[x1].st # "fetched"
      BY <1>2, <2>0, RenamedLive
    <2>2. s = 0 \/ s = stores[i.word]
      BY <1>2 DEF getLoadEntry
    <2>3. /\ stores[i.word] \in Slots \cup {0}
          /\ stores[i.word] # 0 => /\ stores[i.word] \in Live
                                   /\ dinst[stores[i.word]].st # "fetched"
      BY <2>0, BufferedLive
    <2> QED BY <1>2, <2>1, <2>2, <2>3
  <1>13. PICK a : a = [n \in {1, 2} |-> IF n = 1 THEN src1 ELSE src2]
    OBVIOUS
  <1>14. /\ a \in [{1, 2} -> Slots \cup {0}] /\ a[1] = src1 /\ a[2] = src2
         /\ \A n \in {1, 2} : a[n] # 0 => a[n] \in Live /\ dinst[a[n]].st # "fetched"
         /\ \A n \in {1, 2} : <<src1, src2>>[n] = a[n]
    BY <1>12, <1>13
  <1>15. deps = {n \in {1, 2} : a[n] # 0} /\ deps \in Deps
    BY <1>3, <1>14 DEF Deps
  <1>16. PICK t \in {"selected", "window"} : t = IF deps = {} THEN "selected" ELSE "window"
    OBVIOUS
  <1>17. /\ y \in DInst /\ y.deps = deps /\ y.pend = {} /\ y.st = t
         /\ SameInst(dinst[d], y) /\ y.epoch = dinst[d].epoch
    <2>1. y = [dinst[d] EXCEPT !.st = t, !.deps = deps, !.depsAtRetire = remote,
                               !.forwarded = forwarded]
      BY <1>4, <1>16
    <2>2. t \in Stages
      BY DEF Stages
    <2>3. y \in DInst /\ y.deps = deps /\ y.pend = dinst[d].pend /\ y.st = t
      <3>1. remote \in BOOLEAN /\ forwarded \in BOOLEAN
        BY <1>3
      <3> QED BY <1>11, <1>15, <2>1, <2>2, <3>1 DEF DInst
    <2>4. /\ y.proc = dinst[d].proc /\ y.pos = dinst[d].pos /\ y.inst = dinst[d].inst
          /\ y.fake = dinst[d].fake /\ y.fetch = dinst[d].fetch /\ y.epoch = dinst[d].epoch
      BY <1>11, <2>1 DEF DInst
    <2> QED BY <1>11, <2>3, <2>4 DEF SameInst
  <1>18. dinst' = Sourced(d, a, y)
    <2>1. ASSUME NEW x PROVE sources(a, x) = {m \in {1, 2} : <<src1, src2>>[m] = x}
      BY <1>14 DEF sources
    <2> QED BY <1>5, <1>14, <2>1 DEF Sourced
  <1>19. dinst' \in DInsts /\ Drift({d}) /\ dinst'[d] = y /\ Wakeups'
    BY <1>6, <1>11, <1>14, <1>15, <1>16, <1>17, <1>18, IssuedStep
  <1>20. Moves({d})
    BY <1>5, <1>6, <1>8, <1>19 DEF Moves
  <1>21. PICK r, g, z : /\ r = IF Len(b) = 1 THEN doneItem(pl) ELSE pl
                        /\ z = f.spaceInInstQueue + 1
                        /\ g = [f EXCEPT !.spaceInInstQueue = z, !.instQueue = B, !.pipe = r]
    OBVIOUS
  <1>22. PICK m \in Nat : m = IF Len(b) = 1 THEN 1 ELSE 0
    OBVIOUS
  <1>23. /\ pl.bucketPool \in Int /\ pl.nCleanMarks \in Int
         /\ Len(pl.buffer) \in Nat /\ Len(pl.order) \in Nat
         /\ pl = [order |-> pl.order, buffer |-> pl.buffer, bucketPool |-> pl.bucketPool,
                  cleanBucketPool |-> pl.cleanBucketPool, nIRequests |-> pl.nIRequests,
                  nCleanMarks |-> pl.nCleanMarks]
    BY <1>6, PipelineTypes
  <1>24. /\ r \in PipelineRec /\ r.buffer = pl.buffer /\ r.order = pl.order
         /\ r.nCleanMarks = pl.nCleanMarks /\ r.cleanBucketPool = pl.cleanBucketPool
         /\ r.bucketPool = pl.bucketPool + m /\ r.nIRequests = pl.nIRequests
    <2>1. CASE Len(b) = 1
      <3>1. PICK n \in Int : n = pl.bucketPool + 1
        BY <1>23
      <3>2. r = [pl EXCEPT !.bucketPool = n]
        BY <1>21, <2>1, <3>1 DEF doneItem
      <3>3. n = pl.bucketPool + m
        BY <1>22, <2>1, <3>1
      <3> QED BY <1>6, <3>2, <3>3 DEF PipelineRec
    <2>2. CASE Len(b) # 1
      <3>1. r = pl /\ m = 0 /\ pl.bucketPool + 0 = pl.bucketPool
        BY <1>21, <1>22, <1>23, <2>2
      <3> QED BY <1>6, <3>1
    <2> QED BY <2>1, <2>2
  <1>25. /\ g \in FrontEnd /\ g.pipe = r /\ g.instQueue = B /\ g.spaceInInstQueue = z
         /\ g.pc = f.pc /\ g.missInstID = f.missInstID /\ g.btac = f.btac /\ z \in Int
    <2>1. z \in Int
      BY <1>6, <1>21
    <2> QED BY <1>6, <1>8, <1>21, <1>24, <2>1 DEF FrontEnd
  <1>26. fe' = [fe EXCEPT ![p] = g]
    <2>1. fe' = [fe EXCEPT ![p] = [f EXCEPT !.spaceInInstQueue = z, !.instQueue = B, !.pipe = r]]
      <3> HIDE DEF doneItem
      <3> QED BY <1>1, <1>5, <1>6, <1>7, <1>21
    <2> QED BY <1>21, <2>1
  <1>27. fe'[p] = g
    BY <1>6, <1>26
  <1>28. PipeItems(g.pipe) = PipeItems(pl)
         /\ \A x, w : PipeBefore(g.pipe, x, w) <=> PipeBefore(pl, x, w)
    BY <1>24, <1>25 DEF PipeItems, PipeBefore
  <1>29. BucketsAt(p)'
    <2>1. poolOf(r) + Len(B) = poolOf(pl) + Len(A)
      <3>1. PICK j1 \in Int, j2 \in Int, j3 \in Int, j4 \in Int, j5 \in Int :
              /\ j1 = pl.bucketPool /\ j2 = Len(pl.buffer) /\ j3 = Len(pl.order)
              /\ j4 = pl.nCleanMarks /\ j5 = Len(A)
        <4>1. Len(A) \in Int /\ Len(pl.buffer) \in Int /\ Len(pl.order) \in Int
          BY <1>8, <1>23
        <4>2. pl.bucketPool \in Int /\ pl.nCleanMarks \in Int
          BY <1>23
        <4> QED BY ONLY <4>1, <4>2
      <3>2. /\ r.bucketPool = j1 + m /\ Len(r.buffer) = j2 /\ Len(r.order) = j3
            /\ r.nCleanMarks = j4 /\ Len(B) = j5 - m
        BY <1>8, <1>22, <1>24, <3>1
      <3>3. /\ poolOf(r) + Len(B) = (j1 + m) + j2 + j3 - j4 + (j5 - m)
            /\ poolOf(pl) + Len(A) = j1 + j2 + j3 - j4 + j5
        BY <3>1, <3>2 DEF poolOf
      <3>4. (j1 + m) + j2 + j3 - j4 + (j5 - m) = j1 + j2 + j3 - j4 + j5
        OBVIOUS
      <3> QED BY <3>3, <3>4
    <2>2. requestsOf(r) = requestsOf(pl) /\ cleanOf(r) = cleanOf(pl)
      BY <1>24 DEF requestsOf, cleanOf
    <2>3. z + Cardinality(queueOf(p)') = f.spaceInInstQueue + Cardinality(queueOf(p))
      <3>1. queueOf(p)' = Items(B)
        BY <1>25, <1>27, BeforeIs
      <3>2. d \notin Items(B)
        <4>1. d \in Items(B) => Precedes(A, d, d)
          BY <1>8 DEF Left
        <4>2. Precedes(A, d, d) => Before(p, d, d)
          BY <1>1, BeforeIs
        <4> QED BY <1>8, <1>9, <4>1, <4>2 DEF PlacedAt
      <3>3. PICK S \in SUBSET Slots : S = Items(A)
        BY <1>10, PlaceTypes
      <3>4. Items(B) = S \ {d} /\ d \in S
        BY <1>8, <3>2, <3>3 DEF Left
      <3>5. PICK n \in Nat : n = Cardinality(S)
        BY SubsetsFinite
      <3>6. Cardinality(S \ {d}) = n - 1
        BY <3>4, <3>5, OneLess
      <3>7. z + (n - 1) = f.spaceInInstQueue + n
        <4>1. f.spaceInInstQueue \in Int /\ z = f.spaceInInstQueue + 1
          BY <1>6, <1>21
        <4>2. PICK k \in Int : k = f.spaceInInstQueue
          BY <4>1
        <4>3. (k + 1) + (n - 1) = k + n
          OBVIOUS
        <4> QED BY <4>1, <4>2, <4>3
      <3> QED BY <1>10, <3>1, <3>3, <3>4, <3>5, <3>6, <3>7
    <2>4. /\ fe[p].pipe = pl /\ fe'[p].pipe = r /\ fe'[p].instQueue = B
          /\ fe[p].instQueue = A /\ fe'[p].spaceInInstQueue = z
          /\ fe[p].spaceInInstQueue = f.spaceInInstQueue
      BY <1>1, <1>25, <1>27
    <2> QED BY <1>9, <2>1, <2>2, <2>3, <2>4 DEF BucketsAt
  <1>30. /\ g.pc = fe[p].pc /\ g.missInstID = fe[p].missInstID /\ g.btac = fe[p].btac
         /\ g.pipe.nCleanMarks = fe[p].pipe.nCleanMarks /\ pl = fe[p].pipe
         /\ Left(fe[p].instQueue, d, g.instQueue)
    BY <1>1, <1>8, <1>24, <1>25
  <1>31. /\ cpu' = [cpu EXCEPT ![p] = takeEntries(cpu[p], d, dinst[d].inst, Fake(d))]
         /\ stores' = getStoreEntry(d, dinst[d].inst)
    <2> HIDE DEF takeEntries, getStoreEntry
    <2> QED BY <1>1, <1>5
  <1>32. /\ SameInst(dinst[d], dinst'[d]) /\ dinst'[d].epoch = dinst[d].epoch
         /\ dinst'[d].st \in {"selected", "window"}
    BY <1>17, <1>19
  <1> HIDE DEF takeEntries, getStoreEntry
  <1> QED BY <1>11, <1>19, <1>20, <1>25, <1>26, <1>28, <1>29, <1>30, <1>31, <1>32, EntersROB

(* The order of instructions is the one before the oldest retires.         *)
LEMMA RetiredPlaces ==
  ASSUME NEW p \in Procs, cpu[p].rob \in Seq(Nat), cpu[p].rob # <<>>,
         NEW d, d = Head(cpu[p].rob), cpu'[p].rob = Tail(cpu[p].rob), fe' = fe
  PROVE  /\ robOf(p) = {d} \cup robOf(p)' /\ queueOf(p)' = queueOf(p)
         /\ inPipe(p)' = inPipe(p)
         /\ \A x, y : Before(p, x, y)' => Before(p, x, y)
         /\ \A y \in robOf(p)' \cup queueOf(p) \cup inPipe(p) : Before(p, d, y)
  <1>1. PICK pl, A, s, t :
          pl = fe[p].pipe /\ A = fe[p].instQueue /\ s = cpu[p].rob /\ t = cpu'[p].rob
    OBVIOUS
  <1>2. /\ Range(s) = {d} \cup Range(t)
        /\ \A x, y : Follows(s, x, y) <=> Follows(t, x, y) \/ (x = d /\ y \in Range(t))
    <2>1. s \in Seq(Nat) /\ s # <<>> /\ d = Head(s) /\ t = Tail(s)
      BY <1>1
    <2> QED BY <2>1, HeadItem
  <1>3. /\ robOf(p)' = Range(t) /\ robOf(p) = Range(s) /\ queueOf(p)' = Items(A)
        /\ queueOf(p) = Items(A) /\ inPipe(p) = PipeItems(pl) /\ inPipe(p)' = PipeItems(pl)
    BY <1>1, BeforeIs
  <1>4. ASSUME NEW x, NEW y
        PROVE  /\ Before(p, x, y) <=>
                    \/ Follows(s, x, y)
                    \/ x \in Range(s) /\ y \in Items(A) \cup PipeItems(pl)
                    \/ Precedes(A, x, y)
                    \/ x \in Items(A) /\ y \in PipeItems(pl)
                    \/ PipeBefore(pl, x, y)
               /\ Before(p, x, y)' <=>
                    \/ Follows(t, x, y)
                    \/ x \in Range(t) /\ y \in Items(A) \cup PipeItems(pl)
                    \/ Precedes(A, x, y)
                    \/ x \in Items(A) /\ y \in PipeItems(pl)
                    \/ PipeBefore(pl, x, y)
    BY <1>1, <1>3, BeforeIs
  <1>5. ASSUME NEW x, NEW y, Before(p, x, y)' PROVE Before(p, x, y)
    BY <1>2, <1>4, <1>5
  <1>6. ASSUME NEW y \in robOf(p)' \cup queueOf(p) \cup inPipe(p) PROVE Before(p, d, y)
    BY <1>2, <1>3, <1>4
  <1> QED BY <1>2, <1>3, <1>5, <1>6

(* What the step of d does to the count of stores on their way.            *)
FenceAt(d, c, e) ==
  /\ e.nOutsStores = c.nOutsStores + One(dinst'[d].st = "memory") - One(dinst[d].st = "memory")
  /\ dinst'[d].st = "memory" => dinst'[d].epoch = c.epoch /\ ~c.pendingFence /\ ~e.pendingFence
  /\ e.pendingFence => e.nOutsStores > 0
  /\ ~e.pendingFence => (~c.pendingFence /\ e.epoch = c.epoch) \/ e.nOutsStores = 0

LEMMA FencedStep ==
  ASSUME IInv, NEW d \in Slots, Moves({d}), dinst[d] \in DInst, NEW p \in Procs,
         p = dinst[d].proc, SameInst(dinst[d], dinst'[d]) \/ dinst'[d] = Free,
         \A q \in Procs \ {p} : cpu'[q] = cpu[q], FenceAt(d, cpu[p], cpu'[p])
  PROVE  Fenced'
  <1>1. dinst \in DInsts /\ dinst' \in DInsts /\ \A q \in Procs : cpu[q] \in Core
    BY TypedFacts DEF Moves
  <1>2. ASSUME NEW q \in Procs PROVE FencedOf(q)'
    <2>1. FencedOf(q)
      BY <1>1, FencedIs DEF IInv
    <2>2. /\ d \in outstanding(q) <=> q = p /\ dinst[d].st = "memory"
          /\ d \in outstanding(q)' <=> q = p /\ dinst'[d].st = "memory"
      BY ClosedStages, StageOf DEF Closed, outstanding
    <2>3. cpu[q].nOutsStores \in Int /\ cpu[q].pendingFence \in BOOLEAN
      BY <1>1, CoreTypes
    <2>4. CASE q = p
      <3>1. Taken(outstanding(q)', outstanding(q), d, cpu[q].nOutsStores, cpu'[q].nOutsStores)
        BY <2>2, <2>4 DEF Taken, FenceAt, One
      <3>2. d \in outstanding(q)' => /\ dinst'[d].epoch = cpu[q].epoch
                                     /\ ~cpu[q].pendingFence /\ ~cpu'[q].pendingFence
        BY <2>2, <2>4 DEF FenceAt
      <3>3. cpu'[q].pendingFence => cpu'[q].nOutsStores > 0
        BY <2>4 DEF FenceAt
      <3>4. ~cpu'[q].pendingFence =>
              (~cpu[q].pendingFence /\ cpu'[q].epoch = cpu[q].epoch) \/ cpu'[q].nOutsStores = 0
        BY <2>4 DEF FenceAt
      <3> QED BY <2>1, <3>1, <3>2, <3>3, <3>4, FencedMoved
    <2>5. CASE q # p
      <3>1. cpu'[q] = cpu[q] /\ d \notin outstanding(q) /\ d \notin outstanding(q)'
        BY <2>2, <2>5
      <3>2. Taken(outstanding(q)', outstanding(q), d, cpu[q].nOutsStores, cpu'[q].nOutsStores)
        BY <2>3, <3>1, NothingTaken
      <3>3. cpu[q].pendingFence => cpu[q].nOutsStores > 0
        BY <2>1 DEF FencedOf
      <3> QED BY <2>1, <3>1, <3>2, <3>3, FencedMoved
    <2> QED BY <2>4, <2>5
  <1> QED BY <1>1, <1>2, FencedIs

(* What an instruction gives back when it leaves the ROB.                  *)
Returned(d, c, e) ==
  /\ e \in Core /\ e.rob = Tail(c.rob) /\ e.rat = c.rat
  /\ e.retired = c.retired + One(~Fake(d))
  /\ e.freeLoads = c.freeLoads + One(Op(d) = "load" /\ ~Fake(d))
  /\ e.freeStores = c.freeStores + One(Op(d) = "store" /\ ~Fake(d))
  /\ e.freeBranches = c.freeBranches
  /\ e.regPool = c.regPool + One(~Fake(d) /\ dinst[d].inst.dest # InvalidOutput)

LEMMA ReturnedShifts ==
  ASSUME NEW d, NEW c \in Core, NEW e, Returned(d, c, e), dinst[d].st = "executed",
         dinst'[d].st \notin inROB
  PROVE  Shifts(d, c, e)
  <1>1. /\ dinst[d].st \in inROB /\ dinst[d].st \notin inROB \ {"executed"}
        /\ dinst'[d].st \notin inROB \ {"executed"}
    BY DEF inROB
  <1>2. ASSUME NEW S, dinst[d].st \in S, dinst'[d].st \notin S, NEW b \in BOOLEAN,
               NEW u \in Int, NEW v, v = u + One(b)
        PROVE  Shift(d, S, b, u, v)
    BY <1>2 DEF Shift, One
  <1>3. ASSUME NEW S, dinst[d].st \notin S, dinst'[d].st \notin S, NEW b \in BOOLEAN,
               NEW u \in Int
        PROVE  Shift(d, S, b, u, u)
    BY <1>3 DEF Shift, One
  <1>4. PICK b1 \in BOOLEAN, b2 \in BOOLEAN, b3 \in BOOLEAN, b4 \in BOOLEAN :
          /\ b1 = (Op(d) = "load" /\ ~Fake(d)) /\ b2 = (Op(d) = "store" /\ ~Fake(d))
          /\ b3 = (Op(d) = "branch") /\ b4 = (dinst[d].inst.dest # InvalidOutput /\ ~Fake(d))
    OBVIOUS
  <1>5. /\ c.freeLoads \in Int /\ c.freeStores \in Int
        /\ c.regPool \in Int /\ c.freeBranches \in Int
    BY CoreTypes
  <1>6. /\ e.freeLoads = c.freeLoads + One(b1) /\ e.freeStores = c.freeStores + One(b2)
        /\ e.freeBranches = c.freeBranches /\ e.regPool = c.regPool + One(b4)
    BY <1>4 DEF Returned, One
  <1>7. /\ Shift(d, inROB, b1, c.freeLoads, e.freeLoads)
        /\ Shift(d, inROB, b2, c.freeStores, e.freeStores)
        /\ Shift(d, inROB, b4, c.regPool, e.regPool)
    BY <1>1, <1>2, <1>5, <1>6
  <1>8. Shift(d, inROB \ {"executed"}, b3, c.freeBranches, e.freeBranches)
    BY <1>1, <1>3, <1>5, <1>6
  <1> QED BY <1>4, <1>7, <1>8 DEF Shifts

(* The oldest instruction leaves the ROB.                                  *)
LEMMA HeadIsNext ==
  ASSUME IInv, NEW p \in Procs, NEW d, atHead(p, d)
  PROVE  /\ d \in Live /\ d \in Slots /\ dinst[d] \in DInst /\ dinst[d].proc = p
         /\ cpu[p].rob \in Seq(Nat) /\ cpu[p].rob # <<>> /\ d = Head(cpu[p].rob)
         /\ dinst[d].st = "executed"
  <1>1. /\ cpu[p].rob # <<>> /\ d = Head(cpu[p].rob) /\ dinst[d].st = "executed"
    BY DEF atHead
  <1>2. cpu[p].rob \in Seq(Nat)
    BY TypedFacts, CoreTypes
  <1>3. d \in robOf(p)
    BY <1>1, <1>2, HeadItem DEF robOf
  <1>4. PlacedAt(p)
    BY PlacedIs DEF IInv
  <1>5. d \in InStage(p, inROB)
    BY <1>3, <1>4 DEF PlacedAt
  <1>6. d \in Live /\ d \in Slots /\ dinst[d].proc = p
    BY <1>1, <1>5 DEF InStage, Live, Free
  <1>7. dinst[d] \in DInst
    BY <1>6, TypedFacts
  <1> QED BY <1>1, <1>2, <1>6, <1>7

(* It is the next one of the program, or of a wrong path.                  *)
LEMMA NextRetired ==
  ASSUME IInv, NEW p \in Procs, NEW d, atHead(p, d), ~Fake(d), NEW R \in SUBSET Real(p),
         R = Real(p) \ {d}, \A x \in R : Before(p, d, x)
  PROVE  /\ {dinst[x].pos : x \in R} = cpu[p].retired + 2 .. fe[p].pc - 1
         /\ cpu[p].retired + 1 < fe[p].pc
  <1>1. PICK n \in Nat, m \in Nat : n = cpu[p].retired /\ m = fe[p].pc
    BY TypedFacts, CoreTypes, FrontEndTypes
  <1>2. SequentialAt(p)
    BY PlacedIs DEF IInv
  <1>3. d \in Real(p)
    BY HeadIsNext DEF Real, InStage, inROB, Fake
  <1>4. ASSUME NEW x \in R PROVE dinst[d].pos < dinst[x].pos
    BY <1>2, <1>3 DEF SequentialAt
  <1>5. {dinst[x].pos : x \in Real(p)} = n + 1 .. m - 1
    BY <1>1, <1>2 DEF SequentialAt
  <1>6. \A x \in Real(p) : dinst[x].pos \in n + 1 .. m - 1
    BY <1>5
  <1>7. \A k \in n + 1 .. m - 1 : \E x \in Real(p) : dinst[x].pos = k
    BY <1>5
  <1>8. dinst[d].pos = n + 1
    <2>1. dinst[d].pos \in n + 1 .. m - 1
      BY <1>3, <1>6
    <2>2. PICK k \in Int : k = dinst[d].pos
      BY <2>1
    <2>3. CASE k > n + 1
      <3>1. n + 1 \in n + 1 .. m - 1
        BY <2>1, <2>2, <2>3
      <3>2. PICK x \in Real(p) : dinst[x].pos = n + 1
        BY <1>7, <3>1
      <3>3. x # d
        BY <2>2, <2>3, <3>2
      <3>4. x \in R
        BY <3>3
      <3> QED BY <1>4, <2>2, <2>3, <3>2, <3>4
    <2> QED BY <2>1, <2>2, <2>3
  <1>9. n + 1 < m
    <2>1. n + 1 \in n + 1 .. m - 1
      BY <1>3, <1>6, <1>8
    <2> QED BY <2>1
  <1>10. ASSUME NEW x \in R PROVE dinst[x].pos \in n + 2 .. m - 1
    <2>1. dinst[x].pos \in n + 1 .. m - 1 /\ n + 1 < dinst[x].pos
      BY <1>4, <1>6, <1>8
    <2> QED BY <2>1
  <1>11. ASSUME NEW k \in n + 2 .. m - 1 PROVE \E x \in R : dinst[x].pos = k
    <2>1. k \in n + 1 .. m - 1 /\ k # n + 1
      OBVIOUS
    <2>2. PICK x \in Real(p) : dinst[x].pos = k
      BY <1>7, <2>1
    <2>3. x # d
      BY <1>8, <2>1, <2>2
    <2> QED BY <2>2, <2>3
  <1>12. {dinst[x].pos : x \in R} = n + 2 .. m - 1
    BY <1>10, <1>11
  <1> QED BY <1>1, <1>9, <1>12

LEMMA TakenOut ==
  ASSUME NEW A \in SUBSET Slots, NEW B \in SUBSET Slots, NEW d \in Slots, d \notin B,
         \A x \in Slots \ {d} : x \in B <=> x \in A
  PROVE  B = A \ {d} /\ (d \notin A => B = A)
  <1>1. \A x \in Slots : x \in B <=> x \in A /\ x # d
    OBVIOUS
  <1> QED BY <1>1

LEMMA LeavesROB ==
  ASSUME IInv, NEW p \in Procs, NEW d, atHead(p, d), Moves({d}), Wakeups',
         \/ dinst'[d] = Free
         \/ SameInst(dinst[d], dinst'[d]) /\ dinst'[d].st = "memory",
         NEW e, Returned(d, cpu[p], e), FenceAt(d, cpu[p], e), cpu' = [cpu EXCEPT ![p] = e],
         \/ Op(d) # "store" /\ stores' = stores
         \/ stores' = storeLocallyPerformed(d),
         UNCHANGED <<conf, fe>>
  PROVE  IInv'
  <1>1. /\ conf \in Confs /\ fe \in [Procs -> FrontEnd] /\ cpu \in [Procs -> Core]
        /\ dinst \in DInsts /\ dinst' \in DInsts /\ conf' = conf /\ fe' = fe
    BY TypedFacts DEF Moves
  <1>2. /\ d \in Live /\ d \in Slots /\ dinst[d] \in DInst /\ dinst[d].proc = p
        /\ cpu[p].rob \in Seq(Nat) /\ cpu[p].rob # <<>> /\ d = Head(cpu[p].rob)
        /\ dinst[d].st = "executed"
    BY HeadIsNext
  <1>3. PICK t : t = dinst'[d].st
    OBVIOUS
  <1>4. t \in {"free", "memory"} /\ t \notin inROB
    BY <1>3 DEF Free, inROB
  <1>5. /\ e \in Core /\ e.rob = Tail(cpu[p].rob) /\ e.rat = cpu[p].rat
        /\ e.retired = cpu[p].retired + One(~Fake(d))
    BY DEF Returned
  <1>6. cpu' \in [Procs -> Core] /\ cpu'[p] = e /\ \A q \in Procs \ {p} : cpu'[q] = cpu[q]
    BY <1>1, <1>5, CpuStep
  <1>7. /\ stores \in [Words \cup {NoWord} -> Slots \cup {0}]
        /\ stores' \in [Words \cup {NoWord} -> Slots \cup {0}]
        /\ \A w \in Words \cup {NoWord} :
             stores'[w] = 0 \/ (stores'[w] = stores[w] /\ stores'[w] # d)
    <2>1. stores \in [Words \cup {NoWord} -> Slots \cup {0}]
      BY DEF IInv, Typed
    <2>2. ASSUME NEW w \in Words \cup {NoWord}, stores[w] = d
          PROVE  Op(d) = "store" /\ dinst[d].inst.word = w
      <3>1. BufferedAs(w, stores[w])
        BY <2>1 DEF IInv, Buffered
      <3>2. d # 0
        BY <1>2, BucketsNested
      <3> QED BY <2>2, <3>1, <3>2 DEF BufferedAs
    <2>3. CASE Op(d) # "store" /\ stores' = stores
      BY <2>1, <2>2, <2>3
    <2>4. CASE stores' = storeLocallyPerformed(d)
      <3>1. PICK w : w = dinst[d].inst.word
        OBVIOUS
      <3>2. CASE stores[w] = d
        <4>1. stores' = [stores EXCEPT ![w] = 0]
          BY <2>4, <3>1, <3>2 DEF storeLocallyPerformed
        <4> QED BY <2>1, <2>2, <3>1, <4>1
      <3>3. CASE stores[w] # d
        <4>1. stores' = stores
          BY <2>4, <3>1, <3>3 DEF storeLocallyPerformed
        <4> QED BY <2>1, <2>2, <3>1, <3>3, <4>1
      <3> QED BY <3>2, <3>3
    <2> QED BY <2>1, <2>3, <2>4
  <1>8. Typed'
    BY <1>1, <1>6, <1>7 DEF Typed, DInsts
  <1>9. /\ robOf(p) = {d} \cup robOf(p)' /\ queueOf(p)' = queueOf(p)
        /\ inPipe(p)' = inPipe(p)
        /\ \A x, y : Before(p, x, y)' => Before(p, x, y)
        /\ \A y \in robOf(p)' \cup queueOf(p) \cup inPipe(p) : Before(p, d, y)
    BY <1>1, <1>2, <1>5, <1>6, RetiredPlaces
  <1>10. ASSUME NEW q \in Procs, q # p PROVE SamePlaces(q)
    BY <1>1, <1>6, <1>10, SamePlacesFrom
  <1>11. ASSUME NEW q \in Procs
         PROVE  /\ \A x, y : Before(q, x, y)' => Before(q, x, y)
                /\ queueOf(q)' = queueOf(q) /\ inPipe(q)' = inPipe(q)
    BY <1>9, <1>10 DEF SamePlaces
  <1>12. SameInst(dinst[d], dinst'[d]) \/ dinst'[d] = Free
    OBVIOUS
  <1>13. ASSUME NEW q \in Procs,
                NEW S \in {inROB, {"fetched"}, waiting, inROB \cup {"fetched"}}
         PROVE  /\ \A x \in Slots \ {d} : x \in InStage(q, S)' <=> x \in InStage(q, S)
                /\ d \in InStage(q, S) <=> q = p /\ "executed" \in S
                /\ d \notin InStage(q, S)'
                /\ InStage(q, S) \subseteq Slots /\ InStage(q, S)' \subseteq Slots
    <2>1. t \notin S
      BY <1>4 DEF inROB, waiting
    <2>2. S \in SUBSET Stages /\ Closed(S)
      BY ClosedStages DEF Closed
    <2>3. PICK z : z = S
      OBVIOUS
    <2>4. /\ \A x \in Slots \ {d} : x \in InStage(q, z)' <=> x \in InStage(q, z)
          /\ d \in InStage(q, z) <=> q = p /\ dinst[d].st \in z
          /\ d \in InStage(q, z)' <=> q = p /\ dinst'[d].st \in z
          /\ InStage(q, z) \subseteq Slots /\ InStage(q, z)' \subseteq Slots
      <3>1. z \in SUBSET Stages /\ Closed(z)
        BY <2>2, <2>3
      <3>2. /\ d \in Slots /\ dinst[d] \in DInst /\ p = dinst[d].proc
            /\ SameInst(dinst[d], dinst'[d]) \/ dinst'[d] = Free
        BY <1>2, <1>12
      <3> QED BY <3>1, <3>2, StageOf
    <2> QED BY <1>2, <1>3, <2>1, <2>3, <2>4
  <1>14. ASSUME NEW q \in Procs
         PROVE  /\ InStage(q, inROB)' = IF q = p THEN InStage(q, inROB) \ {d} ELSE InStage(q, inROB)
                /\ InStage(q, {"fetched"})' = InStage(q, {"fetched"})
    <2>1. PICK A \in SUBSET Slots, B \in SUBSET Slots, C \in SUBSET Slots, D \in SUBSET Slots :
            /\ A = InStage(q, inROB) /\ B = InStage(q, inROB)'
            /\ C = InStage(q, {"fetched"}) /\ D = InStage(q, {"fetched"})'
      BY <1>13
    <2>2. /\ \A x \in Slots \ {d} : (x \in B <=> x \in A) /\ (x \in D <=> x \in C)
          /\ d \in A <=> q = p
          /\ d \notin B /\ d \notin C /\ d \notin D
      BY <1>13, <2>1 DEF inROB
    <2>3. D = C
      BY <1>2, <2>2, TakenOut
    <2>4. B = A \ {d} /\ (d \notin A => B = A)
      BY <1>2, <2>2, TakenOut
    <2> QED BY <2>1, <2>2, <2>3, <2>4
  <1>15. ASSUME NEW q \in Procs PROVE PlacedAt(q)'
    <2>1. PlacedAt(q)
      BY PlacedIs DEF IInv
    <2>2. \A x \in Slots : ~Before(q, x, x)'
      BY <1>11, <2>1 DEF PlacedAt
    <2>3. (queueOf(q) \cup inPipe(q))' \ {0} = InStage(q, {"fetched"})'
      BY <1>11, <1>14, <2>1 DEF PlacedAt
    <2>4. robOf(q)' = InStage(q, inROB)'
      <3>1. CASE q = p
        <4>1. d \notin robOf(p)'
          BY <1>2, <1>9, <2>1, <3>1 DEF PlacedAt
        <4>2. robOf(p)' = robOf(p) \ {d}
          BY <1>9, <4>1
        <4> QED BY <1>14, <2>1, <3>1, <4>2 DEF PlacedAt
      <3>2. CASE q # p
        BY <1>10, <1>14, <2>1, <3>2 DEF PlacedAt, SamePlaces
      <3> QED BY <3>1, <3>2
    <2> QED BY <2>2, <2>3, <2>4 DEF PlacedAt
  <1>16. ASSUME NEW q \in Procs
         PROVE  /\ Real(q)' = Real(q) \ {d} /\ Blocking(q)' = Blocking(q)
                /\ Real(q) \subseteq Slots /\ Blocking(q) \subseteq Slots
                /\ d \in Real(q) <=> q = p /\ ~Fake(d)
                /\ \A x \in Real(q)' : dinst'[x].pos = dinst[x].pos
    <2>1. PICK A \in SUBSET Slots, B \in SUBSET Slots, C \in SUBSET Slots, D \in SUBSET Slots :
            /\ A = Real(q) /\ B = Real(q)' /\ C = Blocking(q) /\ D = Blocking(q)'
      <3>1. {Real(q), Real(q)', Blocking(q), Blocking(q)'} \subseteq SUBSET Slots
        BY DEF Real, Blocking, InStage
      <3> QED BY <3>1
    <2>2. \A x \in Slots \ {d} : (x \in B <=> x \in A) /\ (x \in D <=> x \in C)
      BY <2>1, DriftedSets DEF Moves
    <2>3. d \notin B /\ d \notin C /\ d \notin D
      BY <1>13, <2>1 DEF Real, Blocking, waiting
    <2>4. d \in A <=> q = p /\ ~Fake(d)
      BY <1>13, <2>1 DEF Real, inROB, Fake
    <2>5. B = A \ {d}
      BY <1>2, <2>2, <2>3, TakenOut
    <2>6. D = C
      BY <1>2, <2>2, <2>3, TakenOut
    <2>7. ASSUME NEW x \in B PROVE dinst'[x].pos = dinst[x].pos
      <3>1. x \in Slots \ {d} /\ x \in A
        BY <2>5, <2>7
      <3>2. x \in Live
        BY <2>1, <3>1 DEF Real, InStage, Live, Free, inROB
      <3>3. Alike(dinst[x], dinst'[x])
        BY <3>1, <3>2, Drifted DEF Moves
      <3> QED BY <3>3 DEF Alike
    <2> QED BY <2>1, <2>4, <2>5, <2>6, <2>7
  <1>17. ASSUME NEW q \in Procs PROVE SequentialAt(q)'
    <2>1. SequentialAt(q)
      BY PlacedIs DEF IInv
    <2>2. /\ \A x, y \in Real(q)' : Before(q, x, y)' => dinst'[x].pos < dinst'[y].pos
      BY <1>11, <1>16, <2>1 DEF SequentialAt
    <2>3. {dinst'[x].pos : x \in Real(q)'} = {dinst[x].pos : x \in Real(q)'}
      BY <1>16
    <2>4. CASE d \notin Real(q)
      <3>1. Real(q)' = Real(q)
        BY <1>16, <2>4
      <3>2. cpu'[q].retired = cpu[q].retired
        <4>1. CASE q = p
          <5>1. Fake(d) /\ cpu[p].retired \in Nat
            BY <1>1, <1>16, <2>4, <4>1, CoreTypes
          <5> QED BY <1>5, <1>6, <4>1, <5>1 DEF One
        <4>2. CASE q # p
          BY <1>6, <4>2
        <4> QED BY <4>1, <4>2
      <3> QED BY <1>1, <2>1, <2>2, <2>3, <3>1, <3>2 DEF SequentialAt
    <2>5. CASE d \in Real(q)
      <3>1. q = p /\ ~Fake(d)
        BY <1>16, <2>5
      <3>2. PICK R \in SUBSET Real(p) : R = Real(p) \ {d} /\ R = Real(q)'
        BY <1>16, <3>1
      <3>3. \A x \in R : Before(p, d, x)
        <4>1. PlacedAt(p)
          BY PlacedIs DEF IInv
        <4>2. ASSUME NEW x \in R PROVE x \in robOf(p) \cup queueOf(p) \cup inPipe(p) /\ x # d
          BY <3>2, <4>1 DEF Real, InStage, PlacedAt
        <4> QED BY <1>9, <4>2
      <3>4. /\ {dinst[x].pos : x \in R} = cpu[p].retired + 2 .. fe[p].pc - 1
            /\ cpu[p].retired + 1 < fe[p].pc
        BY <3>1, <3>2, <3>3, NextRetired
      <3>5. cpu'[q].retired = cpu[p].retired + 1 /\ fe'[q].pc = fe[p].pc /\ cpu[p].retired \in Nat
        <4>1. cpu[p].retired \in Nat
          BY <1>1, CoreTypes
        <4> QED BY <1>1, <1>5, <1>6, <3>1, <4>1 DEF One
      <3>6. cpu'[q].retired + 1 = cpu[p].retired + 2
        BY <3>5
      <3> QED BY <2>2, <2>3, <3>2, <3>4, <3>5, <3>6 DEF SequentialAt
    <2> QED BY <2>4, <2>5
  <1>18. Placed' /\ Sequential'
    BY <1>15, <1>17, PlacedIs
  <1>19. Origins'
    BY OriginsKept DEF IInv
  <1>20. Marked'
    <2>1. ASSUME NEW q \in Procs PROVE MarkedAt(q)'
      <3>1. MarkedAt(q)
        BY MarkedIs DEF IInv
      <3>2. 0 \in inPipe(q)' <=> 0 \in inPipe(q)
        BY <1>11
      <3>3. /\ fe'[q].missInstID = fe[q].missInstID /\ fe'[q].btac = fe[q].btac
            /\ fe'[q].pipe.nCleanMarks = fe[q].pipe.nCleanMarks
        BY <1>1
      <3>4. \A x, y \in Slots \cup {0} : Before(q, x, y)' => Before(q, x, y)
        BY <1>11
      <3> QED BY <1>16, <3>1, <3>2, <3>3, <3>4, MarkedKept
    <2> QED BY <2>1, MarkedIs
  <1>21. Buckets'
    BY <1>1, FrontKept
  <1>22. Resources'
    <2>1. Shifts(d, cpu[p], cpu'[p])
      BY <1>1, <1>2, <1>3, <1>4, <1>6, ReturnedShifts
    <2> QED BY <1>2, <1>6, <1>12, <2>1, ResourceStep
  <1>23. Fenced'
    BY <1>2, <1>6, <1>12, FencedStep
  <1>24. Renaming'
    <2>1. ASSUME NEW q \in Procs, NEW r \in Regs \cup {NoDependence}
          PROVE  RenamedNext(q, r, cpu'[q].rat[r], {d})
      <3>1. PICK x : x = cpu[q].rat[r]
        OBVIOUS
      <3>2. cpu'[q].rat[r] = x
        BY <1>5, <1>6, <3>1
      <3>3. RenamedAs(q, r, x)
        BY <3>1 DEF IInv, Renaming
      <3>4. x = 0 \/ x # d
        BY <1>2, <3>3 DEF RenamedAs, InStage
      <3> QED BY <3>1, <3>2, <3>4 DEF RenamedNext
    <2> QED BY <2>1, RenamingKept DEF IInv
  <1>25. Buffered'
    <2>1. ASSUME NEW w \in Words \cup {NoWord} PROVE BufferedNext(w, stores'[w], {d})
      <3>1. PICK x : x = stores'[w]
        OBVIOUS
      <3>2. x = 0 \/ (x = stores[w] /\ x # d)
        BY <1>7, <3>1
      <3> QED BY <3>1, <3>2 DEF BufferedNext
    <2> QED BY <1>7, <2>1, BufferedKept DEF IInv
  <1> QED BY <1>8, <1>18, <1>19, <1>20, <1>21, <1>22, <1>23, <1>24, <1>25 DEF IInv

(* The instruction at the head is recycled, or sent to memory.             *)
LEMMA HeadRecycled ==
  ASSUME IInv, NEW p \in Procs, NEW d, atHead(p, d), dinst' = destroy(d), conf' = conf
  PROVE  Moves({d}) /\ Wakeups' /\ dinst'[d] = Free /\ dinst'[d].st = "free"
  <1>1. /\ d \in Live /\ d \in Slots /\ dinst[d].st = "executed"
    BY HeadIsNext
  <1>2. dinst' \in DInsts /\ Drift({d}) /\ dinst'[d] = Free /\ Wakeups'
    <2> HIDE DEF destroy
    <2> QED BY <1>1, TypedFacts, DestroyedStep
  <1> QED BY <1>1, <1>2, TypedFacts DEF Moves, Free

LEMMA HeadSent ==
  ASSUME IInv, NEW p \in Procs, NEW d, atHead(p, d), NEW n \in Nat,
         dinst' = [dinst EXCEPT ![d].st = "memory", ![d].epoch = n], conf' = conf
  PROVE  /\ Moves({d}) /\ Wakeups' /\ SameInst(dinst[d], dinst'[d])
         /\ dinst'[d].st = "memory" /\ dinst'[d].epoch = n
  <1>1. /\ d \in Live /\ d \in Slots /\ dinst[d].st = "executed" /\ dinst[d] \in DInst
    BY HeadIsNext
  <1>2. PICK y : y = [dinst[d] EXCEPT !.st = "memory", !.epoch = n]
    OBVIOUS
  <1>3. /\ y \in DInst /\ y.st = "memory" /\ y.epoch = n
        /\ y.deps = dinst[d].deps /\ y.pend = dinst[d].pend /\ SameInst(dinst[d], y)
    <2>1. "memory" \in Stages
      BY DEF Stages
    <2> QED BY <1>1, <1>2, <2>1 DEF DInst, SameInst
  <1>4. dinst \in DInsts /\ conf \in Confs /\ Wakeups
    BY TypedFacts
  <1>5. dinst' = [dinst EXCEPT ![d] = y]
    BY <1>1, <1>2, <1>4 DEF DInsts
  <1>6. dinst' \in DInsts /\ Drift({d}) /\ dinst'[d] = y /\ Wakeups'
    BY <1>1, <1>3, <1>4, <1>5, StagedStep
  <1> QED BY <1>1, <1>3, <1>4, <1>6 DEF Moves

(* The entry of the window that is given back at retirement, or not.       *)
WindowBack(c, e, b) == e.windowSize = c.windowSize + One(b)

LEMMA RetiredWindow ==
  ASSUME IInv, NEW p \in Procs, NEW d, atHead(p, d), Moves({d}),
         \/ dinst'[d] = Free
         \/ SameInst(dinst[d], dinst'[d]) /\ dinst'[d].st = "memory",
         NEW e \in Core, cpu' = [cpu EXCEPT ![p] = e],
         WindowBack(cpu[p], e, conf.recycleAt = "Retire")
  PROVE  Window => Window'
  <1>1. cpu \in [Procs -> Core] /\ cpu[p].windowSize \in Int
    BY TypedFacts, CoreTypes
  <1>2. cpu' \in [Procs -> Core] /\ cpu'[p] = e /\ \A q \in Procs \ {p} : cpu'[q] = cpu[q]
    BY <1>1, CpuStep
  <1>3. d \in Live /\ p = dinst[d].proc /\ dinst[d].st = "executed"
    BY HeadIsNext
  <1>4. dinst'[d] = Free \/ dinst'[d].proc = p
    BY <1>3 DEF SameInst
  <1>5. PICK t : t = dinst'[d].st
    OBVIOUS
  <1>6. conf.recycleAt \in {"Issue", "Execute", "Retire"}
    BY TypedFacts, ProgramsAssumption
  <1>7. /\ "executed" \in holdsEntry[conf.recycleAt] <=> conf.recycleAt = "Retire"
        /\ t \notin holdsEntry[conf.recycleAt]
    <2>1. t \in {"free", "memory"}
      BY <1>5 DEF Free
    <2> QED BY <1>6, <2>1 DEF holdsEntry
  <1>8. WindowTaken(d, dinst[d].st, dinst'[d].st, cpu[p], cpu'[p])
    <2>1. One("executed" \in holdsEntry[conf.recycleAt]) = One(conf.recycleAt = "Retire")
      BY <1>7 DEF One
    <2>2. One(t \in holdsEntry[conf.recycleAt]) = 0
      BY <1>7 DEF One
    <2>3. One(conf.recycleAt = "Retire") \in Int
      BY OneInt
    <2> QED BY <1>1, <1>2, <1>3, <1>5, <2>1, <2>2, <2>3 DEF WindowTaken, WindowBack
  <1> QED BY <1>2, <1>3, <1>4, <1>8, WindowStep

(* The core c after d has left it, but for the window.                     *)
LeftAs(d, c, e) ==
  /\ e \in Core /\ e.rob = Tail(c.rob) /\ e.rat = c.rat
  /\ e.retired = c.retired + One(~Fake(d))
  /\ e.regPool = c.regPool + One(~Fake(d) /\ dinst[d].inst.dest # InvalidOutput)
  /\ e.freeLoads = c.freeLoads /\ e.freeStores = c.freeStores
  /\ e.freeBranches = c.freeBranches /\ e.epoch = c.epoch
  /\ e.pendingFence = c.pendingFence /\ e.nOutsStores = c.nOutsStores

LEMMA LeftWindow ==
  ASSUME NEW c \in Core, NEW d \in Slots, c.rob # <<>>, NEW e
  PROVE  /\ e = leave(c, d) =>
              LeftAs(d, c, e) /\ (conf.recycleAt # "Retire" => WindowBack(c, e, conf.recycleAt = "Retire"))
         /\ e = leave(delEntry(c, "Retire"), d) =>
              LeftAs(d, c, e) /\ WindowBack(c, e, conf.recycleAt = "Retire")
  <1>1. ASSUME e = leave(c, d)
        PROVE  LeftAs(d, c, e)
               /\ (conf.recycleAt # "Retire" => WindowBack(c, e, conf.recycleAt = "Retire"))
    <2>1. Leaves(c, d, e)
      BY <1>1, Leave
    <2>2. c.windowSize \in Int
      BY CoreTypes
    <2>3. LeftAs(d, c, e)
      BY <2>1 DEF Leaves, LeftAs
    <2>4. e.windowSize = c.windowSize
      BY <2>1 DEF Leaves
    <2> QED BY <2>2, <2>3, <2>4 DEF WindowBack, One
  <1>2. ASSUME e = leave(delEntry(c, "Retire"), d)
        PROVE  LeftAs(d, c, e) /\ WindowBack(c, e, conf.recycleAt = "Retire")
    <2>1. PICK b : b = delEntry(c, "Retire")
      OBVIOUS
    <2>2. Retimed(c, b)
      BY <2>1, DelEntry
    <2>3. b.windowSize = c.windowSize + One(conf.recycleAt = "Retire")
      BY <2>1, DelEntry
    <2>4. b \in Core /\ b.rob # <<>>
      BY <2>2 DEF Retimed
    <2>5. Leaves(b, d, e)
      BY <1>2, <2>1, <2>4, Leave
    <2>6. LeftAs(d, c, e)
      BY <2>2, <2>5 DEF Leaves, LeftAs, Retimed
    <2>7. e.windowSize = b.windowSize
      BY <2>5 DEF Leaves
    <2> QED BY <2>3, <2>6, <2>7 DEF WindowBack
  <1> QED BY <1>1, <1>2

(* Changes of a core that has left an instruction.                         *)
LeavesEntries(e, x, y, f) == f = [e EXCEPT !.freeLoads = x, !.freeStores = y]
LEMMA CoreWith ==
  ASSUME NEW e \in Core, NEW x \in Int, NEW y \in Int,
         NEW f, LeavesEntries(e, x, y, f)
  PROVE  /\ f \in Core /\ f.rob = e.rob /\ f.rat = e.rat /\ f.retired = e.retired
         /\ f.freeLoads = x /\ f.freeStores = y /\ f.freeBranches = e.freeBranches
         /\ f.regPool = e.regPool /\ f.windowSize = e.windowSize
         /\ f.epoch = e.epoch /\ f.pendingFence = e.pendingFence
         /\ f.nOutsStores = e.nOutsStores
  BY DEF Core, LeavesEntries

(* Nothing that was sent has changed.                                      *)
LEMMA FenceStill ==
  ASSUME IInv, NEW p \in Procs, NEW d, atHead(p, d), dinst'[d] = Free,
         NEW e, e.nOutsStores = cpu[p].nOutsStores, e.pendingFence = cpu[p].pendingFence,
         e.epoch = cpu[p].epoch
  PROVE  FenceAt(d, cpu[p], e)
  <1>1. dinst[d].st = "executed" /\ dinst'[d].st = "free"
    BY HeadIsNext DEF Free
  <1>2. FencedOf(p)
    BY TypedFacts, FencedIs DEF IInv
  <1>3. cpu[p].nOutsStores \in Int
    BY TypedFacts, CoreTypes
  <1> QED BY <1>1, <1>2, <1>3 DEF FenceAt, FencedOf, One

(* What FULoad, FUStore and FUMemory give back or count besides.           *)
Sends(e, n, b, k, f) ==
  f = [e EXCEPT !.nOutsStores = n, !.pendingFence = b, !.epoch = k]
LEMMA CoreSent ==
  ASSUME NEW e \in Core, NEW n \in Int, NEW b \in BOOLEAN, NEW k \in Nat,
         NEW f, Sends(e, n, b, k, f)
  PROVE  /\ f \in Core /\ f.rob = e.rob /\ f.rat = e.rat /\ f.retired = e.retired
         /\ f.freeLoads = e.freeLoads /\ f.freeStores = e.freeStores
         /\ f.freeBranches = e.freeBranches
         /\ f.regPool = e.regPool /\ f.windowSize = e.windowSize
         /\ f.epoch = k /\ f.pendingFence = b /\ f.nOutsStores = n
  BY DEF Core, Sends

LEMMA RetirePlainStep ==
  ASSUME IInv, NEW p \in Procs, NEW d \in Slots, retirePlain(p, d)
  PROVE  IInv' /\ (Window => Window')
  <1>1. /\ atHead(p, d) /\ Op(d) \in {"alu", "branch", "event", "load"}
        /\ dinst' = destroy(d) /\ UNCHANGED <<conf, fe, stores>>
    BY DEF retirePlain
  <1>2. /\ d \in Live /\ dinst[d] \in DInst /\ cpu[p].rob # <<>> /\ cpu[p] \in Core
    BY <1>1, HeadIsNext, TypedFacts
  <1>3. Moves({d}) /\ Wakeups' /\ dinst'[d] = Free
    BY <1>1, HeadRecycled
  <1>4. PICK g : g = leave(delEntry(cpu[p], "Retire"), d)
    OBVIOUS
  <1>5. LeftAs(d, cpu[p], g) /\ WindowBack(cpu[p], g, conf.recycleAt = "Retire")
    BY <1>2, <1>4, LeftWindow
  <1>6. PICK b \in {0, 1} : b = One(Op(d) = "load" /\ ~Fake(d))
    BY OneInt
  <1>7. PICK f : f = [g EXCEPT !.freeLoads = @ + b]
    OBVIOUS
  <1>8. cpu' = [cpu EXCEPT ![p] = f]
    BY <1>4, <1>6, <1>7 DEF retirePlain
  <1>9. g \in Core /\ g.freeLoads = cpu[p].freeLoads /\ g.freeStores \in Int /\ cpu[p].freeLoads \in Int
        /\ cpu[p].freeStores \in Int
    BY <1>2, <1>5, CoreTypes DEF LeftAs
  <1>10. f = [g EXCEPT !.freeLoads = g.freeLoads + b, !.freeStores = g.freeStores]
    BY <1>7, <1>9 DEF Core
  <1>11. /\ f \in Core /\ f.rob = g.rob /\ f.rat = g.rat /\ f.retired = g.retired
         /\ f.freeLoads = g.freeLoads + b /\ f.freeStores = g.freeStores
         /\ f.freeBranches = g.freeBranches
         /\ f.regPool = g.regPool /\ f.windowSize = g.windowSize
         /\ f.epoch = g.epoch /\ f.pendingFence = g.pendingFence
         /\ f.nOutsStores = g.nOutsStores
    <2>1. g.freeLoads + b \in Int /\ g.freeStores \in Int
      BY <1>9
    <2>2. PICK x \in Int : x = g.freeLoads + b
      BY <2>1
    <2>3. f = [g EXCEPT !.freeLoads = x, !.freeStores = g.freeStores]
      BY <1>10, <2>2
    <2>4. PICK z \in Int : z = g.freeStores
      BY <2>1
    <2>5. LeavesEntries(g, x, z, f)
      BY <2>3, <2>4 DEF LeavesEntries
    <2> QED BY <1>9, <2>2, <2>4, <2>5, CoreWith
  <1>12. Returned(d, cpu[p], f)
    <2>1. One(Op(d) = "store" /\ ~Fake(d)) = 0
      BY <1>1 DEF One
    <2>2. f.freeStores = cpu[p].freeStores + One(Op(d) = "store" /\ ~Fake(d))
      BY <1>5, <1>9, <1>11, <2>1 DEF LeftAs
    <2>3. f.freeLoads = cpu[p].freeLoads + One(Op(d) = "load" /\ ~Fake(d))
      BY <1>6, <1>9, <1>11
    <2> QED BY <1>5, <1>11, <2>2, <2>3 DEF LeftAs, Returned
  <1>13. FenceAt(d, cpu[p], f)
    <2>1. /\ f.nOutsStores = cpu[p].nOutsStores /\ f.pendingFence = cpu[p].pendingFence
          /\ f.epoch = cpu[p].epoch
      BY <1>5, <1>11 DEF LeftAs
    <2> QED BY <1>1, <1>3, <2>1, FenceStill
  <1>14. IInv'
    BY <1>1, <1>3, <1>8, <1>12, <1>13, LeavesROB
  <1>15. Window => Window'
    <2>1. WindowBack(cpu[p], f, conf.recycleAt = "Retire")
      BY <1>5, <1>11 DEF WindowBack
    <2> QED BY <1>1, <1>3, <1>8, <1>11, <2>1, RetiredWindow
  <1> QED BY <1>14, <1>15

(* A store or fetch&op is sent between the fences the processor counts.    *)
LEMMA FenceSent ==
  ASSUME IInv, NEW p \in Procs, NEW d, atHead(p, d), ~cpu[p].pendingFence,
         dinst'[d].st = "memory", dinst'[d].epoch = cpu[p].epoch,
         NEW e, e.nOutsStores = cpu[p].nOutsStores + 1, e.pendingFence = cpu[p].pendingFence,
         e.epoch = cpu[p].epoch
  PROVE  FenceAt(d, cpu[p], e)
  <1>1. dinst[d].st = "executed"
    BY HeadIsNext
  <1>2. cpu[p].nOutsStores \in Int
    BY TypedFacts, CoreTypes
  <1> QED BY <1>1, <1>2 DEF FenceAt, One

LEMMA RetireStoreStep ==
  ASSUME IInv, NEW p \in Procs, NEW d \in Slots, retireStore(p, d)
  PROVE  IInv' /\ (Window => Window')
  <1>1. /\ atHead(p, d) /\ Op(d) = "store" /\ UNCHANGED <<conf, fe>>
        /\ stores' = storeLocallyPerformed(d)
    BY DEF retireStore
  <1>2. /\ d \in Live /\ dinst[d] \in DInst /\ cpu[p].rob # <<>> /\ cpu[p] \in Core
    BY <1>1, HeadIsNext, TypedFacts
  <1>4. PICK g : g = leave(delEntry(cpu[p], "Retire"), d)
    OBVIOUS
  <1>5. LeftAs(d, cpu[p], g) /\ WindowBack(cpu[p], g, conf.recycleAt = "Retire")
    BY <1>2, <1>4, LeftWindow
  <1>6. /\ g \in Core /\ g.freeLoads = cpu[p].freeLoads /\ g.freeStores = cpu[p].freeStores
        /\ cpu[p].freeLoads \in Int /\ cpu[p].freeStores \in Int
        /\ g.nOutsStores = cpu[p].nOutsStores /\ cpu[p].nOutsStores \in Int
        /\ g.pendingFence = cpu[p].pendingFence /\ cpu[p].pendingFence \in BOOLEAN
        /\ g.epoch = cpu[p].epoch /\ cpu[p].epoch \in Nat
    BY <1>2, <1>5, CoreTypes DEF LeftAs
  <1>7. One(Op(d) = "load" /\ ~Fake(d)) = 0
    BY <1>1 DEF One
  <1>8. CASE Fake(d) /\ dinst' = destroy(d) /\ cpu' = [cpu EXCEPT ![p] = leave(delEntry(@, "Retire"), d)]
    <2>1. cpu' = [cpu EXCEPT ![p] = g]
      BY <1>4, <1>8
    <2>2. Moves({d}) /\ Wakeups' /\ dinst'[d] = Free
      BY <1>1, <1>8, HeadRecycled
    <2>3. Returned(d, cpu[p], g)
      <3>1. One(Op(d) = "store" /\ ~Fake(d)) = 0
        BY <1>8 DEF One
      <3> QED BY <1>5, <1>6, <1>7, <3>1 DEF LeftAs, Returned
    <2>4. FenceAt(d, cpu[p], g)
      BY <1>1, <1>6, <2>2, FenceStill
    <2>5. IInv'
      BY <1>1, <2>1, <2>2, <2>3, <2>4, LeavesROB
    <2> QED BY <1>1, <1>5, <1>6, <2>1, <2>2, <2>5, RetiredWindow
  <1>9. CASE /\ ~Fake(d) /\ ~cpu[p].pendingFence
             /\ dinst' = [dinst EXCEPT ![d].st = "memory", ![d].epoch = cpu[p].epoch]
             /\ cpu' = [cpu EXCEPT ![p] =
                     [leave(delEntry(cpu[p], "Retire"), d) EXCEPT
                        !.freeStores = @ + 1, !.nOutsStores = @ + 1]]
    <2>1. PICK x \in Int, n \in Int : x = g.freeStores + 1 /\ n = g.nOutsStores + 1
      BY <1>6
    <2>2. PICK h : h = [g EXCEPT !.freeLoads = g.freeLoads, !.freeStores = x]
      OBVIOUS
    <2>3. PICK f : f = [h EXCEPT !.nOutsStores = n, !.pendingFence = g.pendingFence, !.epoch = g.epoch]
      OBVIOUS
    <2>4. cpu' = [cpu EXCEPT ![p] = f]
      <3>1. f = [g EXCEPT !.freeStores = @ + 1, !.nOutsStores = @ + 1]
        BY <1>6, <2>1, <2>2, <2>3 DEF Core
      <3> QED BY <1>4, <1>9, <3>1
    <2>5. /\ h \in Core /\ h.rob = g.rob /\ h.rat = g.rat /\ h.retired = g.retired
          /\ h.freeLoads = g.freeLoads /\ h.freeStores = x /\ h.freeBranches = g.freeBranches
          /\ h.regPool = g.regPool /\ h.windowSize = g.windowSize
      <3>1. PICK z \in Int : z = g.freeLoads
        BY <1>6
      <3>2. LeavesEntries(g, z, x, h)
        BY <2>2, <3>1 DEF LeavesEntries
      <3> QED BY <1>6, <2>1, <3>1, <3>2, CoreWith
    <2>6. /\ f \in Core /\ f.rob = h.rob /\ f.rat = h.rat /\ f.retired = h.retired
          /\ f.freeLoads = h.freeLoads /\ f.freeStores = h.freeStores
          /\ f.freeBranches = h.freeBranches
          /\ f.regPool = h.regPool /\ f.windowSize = h.windowSize
          /\ f.epoch = g.epoch /\ f.pendingFence = g.pendingFence /\ f.nOutsStores = n
      <3>1. PICK b \in BOOLEAN, k \in Nat : b = g.pendingFence /\ k = g.epoch
        BY <1>6
      <3>2. Sends(h, n, b, k, f)
        BY <2>3, <3>1 DEF Sends
      <3> QED BY <2>1, <2>5, <3>1, <3>2, CoreSent
    <2>7. PICK k \in Nat : k = cpu[p].epoch
      BY <1>6
    <2>8. /\ Moves({d}) /\ Wakeups' /\ SameInst(dinst[d], dinst'[d])
          /\ dinst'[d].st = "memory" /\ dinst'[d].epoch = k
      <3>1. dinst' = [dinst EXCEPT ![d].st = "memory", ![d].epoch = k]
        BY <1>9, <2>7
      <3> QED BY <1>1, <3>1, HeadSent
    <2>9. Returned(d, cpu[p], f)
      <3>1. One(Op(d) = "store" /\ ~Fake(d)) = 1
        BY <1>1, <1>9 DEF One
      <3>2. f.freeStores = cpu[p].freeStores + One(Op(d) = "store" /\ ~Fake(d))
        BY <1>6, <2>1, <2>5, <2>6, <3>1
      <3>3. f.freeLoads = cpu[p].freeLoads + One(Op(d) = "load" /\ ~Fake(d))
        BY <1>6, <1>7, <2>5, <2>6
      <3> QED BY <1>5, <2>5, <2>6, <3>2, <3>3 DEF LeftAs, Returned
    <2>10. FenceAt(d, cpu[p], f)
      BY <1>1, <1>6, <1>9, <2>1, <2>6, <2>7, <2>8, FenceSent
    <2>11. IInv'
      BY <1>1, <2>4, <2>8, <2>9, <2>10, LeavesROB
    <2>12. WindowBack(cpu[p], f, conf.recycleAt = "Retire")
      BY <1>5, <2>5, <2>6 DEF WindowBack
    <2> QED BY <1>1, <2>4, <2>6, <2>8, <2>11, <2>12, RetiredWindow
  <1> QED BY <1>8, <1>9 DEF retireStore

(* FUMemory::retire gives no entry of the window back.  The window is      *)
(* exact where entries are not given back at retirement, or where there is *)
(* no fence.                                                               *)
FenceOps == {"fetchop", "memfence", "acquire"}
EntriesReturn ==
  \A c \in Confs : c.recycleAt = "Retire" =>
    /\ \A p \in Procs : \A i \in Range(c.prog[p]) : i.op \notin FenceOps
    /\ c.misPath => \A b \in FakeBuckets : \A i \in Range(b) : i.op \notin FenceOps

LEMMA FenceEntries ==
  ASSUME IInv, EntriesReturn, NEW d \in Live, isFence(d)
  PROVE  conf.recycleAt # "Retire"
  <1>1. conf \in Confs /\ dinst[d].proc \in Procs
    BY TypedFacts
  <1>2. OriginOf(d)
    BY DEF IInv, Origins
  <1>3. dinst[d].inst.op \in FenceOps
    BY DEF isFence, Op, FenceOps
  <1> QED BY <1>1, <1>2, <1>3 DEF OriginOf, EntriesReturn, Program

LEMMA RetireFenceStep ==
  ASSUME IInv, NEW p \in Procs, NEW d \in Slots, retireFence(p, d)
  PROVE  IInv' /\ (EntriesReturn /\ Window => Window')
  <1>1. /\ atHead(p, d) /\ isFence(d) /\ Op(d) \notin {"load", "store"}
        /\ UNCHANGED <<conf, fe, stores>>
    BY DEF retireFence, isFence
  <1>2. /\ d \in Live /\ dinst[d] \in DInst /\ cpu[p].rob # <<>> /\ cpu[p] \in Core
    BY <1>1, HeadIsNext, TypedFacts
  <1>4. PICK g : g = leave(cpu[p], d)
    OBVIOUS
  <1>5. LeftAs(d, cpu[p], g)
        /\ (conf.recycleAt # "Retire" => WindowBack(cpu[p], g, conf.recycleAt = "Retire"))
    BY <1>2, <1>4, LeftWindow
  <1>6. /\ g \in Core /\ g.freeLoads = cpu[p].freeLoads /\ g.freeStores = cpu[p].freeStores
        /\ cpu[p].freeLoads \in Int /\ cpu[p].freeStores \in Int
        /\ g.nOutsStores = cpu[p].nOutsStores /\ cpu[p].nOutsStores \in Int
        /\ g.pendingFence = cpu[p].pendingFence /\ cpu[p].pendingFence \in BOOLEAN
        /\ g.epoch = cpu[p].epoch /\ cpu[p].epoch \in Nat
    BY <1>2, <1>5, CoreTypes DEF LeftAs
  <1>7. One(Op(d) = "load" /\ ~Fake(d)) = 0 /\ One(Op(d) = "store" /\ ~Fake(d)) = 0
    BY <1>1 DEF One
  <1>8. ASSUME NEW n \in Int, NEW b \in BOOLEAN, NEW k \in Nat, NEW f, Sends(g, n, b, k, f),
               cpu' = [cpu EXCEPT ![p] = f], Moves({d}), Wakeups',
               \/ dinst'[d] = Free
               \/ SameInst(dinst[d], dinst'[d]) /\ dinst'[d].st = "memory",
               f \in Core /\ f.nOutsStores = n /\ f.pendingFence = b /\ f.epoch = k
                 => FenceAt(d, cpu[p], f)
        PROVE  IInv' /\ (EntriesReturn /\ Window => Window')
    <2>1. /\ f \in Core /\ f.rob = g.rob /\ f.rat = g.rat /\ f.retired = g.retired
          /\ f.freeLoads = g.freeLoads /\ f.freeStores = g.freeStores
          /\ f.freeBranches = g.freeBranches
          /\ f.regPool = g.regPool /\ f.windowSize = g.windowSize
          /\ f.epoch = k /\ f.pendingFence = b /\ f.nOutsStores = n
      BY <1>6, <1>8, CoreSent
    <2>2. Returned(d, cpu[p], f)
      BY <1>5, <1>6, <1>7, <2>1 DEF LeftAs, Returned
    <2>3. FenceAt(d, cpu[p], f)
      BY <1>8, <2>1
    <2>4. IInv'
      BY <1>1, <1>8, <2>2, <2>3, LeavesROB
    <2>5. ASSUME EntriesReturn, Window PROVE Window'
      <3>1. conf.recycleAt # "Retire"
        BY <1>1, <1>2, <2>5, FenceEntries
      <3>2. WindowBack(cpu[p], f, conf.recycleAt = "Retire")
        BY <1>5, <2>1, <3>1 DEF WindowBack
      <3> QED BY <1>1, <1>8, <2>1, <2>5, <3>2, RetiredWindow
    <2> QED BY <2>4, <2>5
  <1>9. CASE /\ Op(d) = "fetchop" /\ ~cpu[p].pendingFence
             /\ dinst' = [dinst EXCEPT ![d].st = "memory", ![d].epoch = cpu[p].epoch]
             /\ cpu' = [cpu EXCEPT ![p] = [leave(cpu[p], d) EXCEPT !.nOutsStores = @ + 1]]
    <2>1. PICK n \in Int, b \in BOOLEAN, k \in Nat :
            n = g.nOutsStores + 1 /\ b = g.pendingFence /\ k = g.epoch
      BY <1>6
    <2>2. PICK f : f = [g EXCEPT !.nOutsStores = n, !.pendingFence = b, !.epoch = k]
      OBVIOUS
    <2>3. f = [g EXCEPT !.nOutsStores = @ + 1]
      BY <1>6, <2>1, <2>2 DEF Core
    <2>4. cpu' = [cpu EXCEPT ![p] = f] /\ Sends(g, n, b, k, f)
      BY <1>4, <1>9, <2>2, <2>3 DEF Sends
    <2>5. /\ Moves({d}) /\ Wakeups' /\ SameInst(dinst[d], dinst'[d])
          /\ dinst'[d].st = "memory" /\ dinst'[d].epoch = k
      <3>1. dinst' = [dinst EXCEPT ![d].st = "memory", ![d].epoch = k]
        BY <1>6, <1>9, <2>1
      <3> QED BY <1>1, <3>1, HeadSent
    <2>6. ASSUME f \in Core, f.nOutsStores = n, f.pendingFence = b, f.epoch = k
          PROVE  FenceAt(d, cpu[p], f)
      BY <1>1, <1>6, <1>9, <2>1, <2>5, <2>6, FenceSent
    <2> QED BY <1>8, <2>4, <2>5, <2>6
  <1>10. CASE /\ Op(d) = "memfence" /\ dinst' = destroy(d)
              /\ cpu' = [cpu EXCEPT ![p] = [doFence(leave(cpu[p], d)) EXCEPT !.epoch = @ + 1]]
    <2>0. PICK b \in BOOLEAN : b = (g.pendingFence \/ g.nOutsStores > 0)
      BY Zenon
    <2>0a. g.nOutsStores \in Int /\ g.epoch + 1 \in Nat
      BY <1>6
    <2>1. PICK n \in Int, k \in Nat : n = g.nOutsStores /\ k = g.epoch + 1
      BY <2>0a
    <2>2. PICK f : f = [g EXCEPT !.nOutsStores = n, !.pendingFence = b, !.epoch = k]
      OBVIOUS
    <2>3. f = [doFence(g) EXCEPT !.epoch = @ + 1]
      BY <1>6, <2>0, <2>1, <2>2 DEF Core, doFence
    <2>4. cpu' = [cpu EXCEPT ![p] = f] /\ Sends(g, n, b, k, f)
      BY <1>4, <1>10, <2>2, <2>3 DEF Sends
    <2>5. Moves({d}) /\ Wakeups' /\ dinst'[d] = Free /\ dinst'[d].st = "free"
      BY <1>1, <1>10, HeadRecycled
    <2>6. ASSUME f \in Core, f.nOutsStores = n, f.pendingFence = b, f.epoch = k
          PROVE  FenceAt(d, cpu[p], f)
      <3>1. dinst[d].st = "executed"
        BY <1>1, HeadIsNext
      <3>2. FencedOf(p)
        BY TypedFacts, FencedIs DEF IInv
      <3>3. cpu[p].nOutsStores \in Nat
        <4>1. outstanding(p) \in SUBSET Slots
          BY DEF outstanding, InStage
        <4> QED BY <3>2, <4>1, SubsetsFinite DEF FencedOf
      <3>4. cpu[p].pendingFence => cpu[p].nOutsStores > 0
        BY <3>2 DEF FencedOf
      <3>5. b = TRUE <=> cpu[p].nOutsStores > 0
        BY <1>6, <2>0, <3>4
      <3>6. f.pendingFence <=> cpu[p].nOutsStores > 0
        BY <2>6, <3>5
      <3>7. f.nOutsStores = cpu[p].nOutsStores
        BY <1>6, <2>1, <2>6
      <3> QED BY <2>5, <3>1, <3>3, <3>6, <3>7 DEF FenceAt, One
    <2> QED BY <1>8, <2>4, <2>5, <2>6
  <1>11. CASE /\ Op(d) = "acquire" /\ dinst' = destroy(d)
              /\ cpu' = [cpu EXCEPT ![p] = leave(@, d)]
    <2>1. PICK n \in Int, b \in BOOLEAN, k \in Nat :
            n = g.nOutsStores /\ b = g.pendingFence /\ k = g.epoch
      BY <1>6
    <2>2. PICK f : f = [g EXCEPT !.nOutsStores = n, !.pendingFence = b, !.epoch = k]
      OBVIOUS
    <2>3. f = g
      BY <1>6, <2>1, <2>2 DEF Core
    <2>4. cpu' = [cpu EXCEPT ![p] = f] /\ Sends(g, n, b, k, f)
      BY <1>4, <1>11, <2>2, <2>3 DEF Sends
    <2>5. Moves({d}) /\ Wakeups' /\ dinst'[d] = Free
      BY <1>1, <1>11, HeadRecycled
    <2>6. FenceAt(d, cpu[p], f)
      BY <1>1, <1>6, <2>3, <2>5, FenceStill
    <2> QED BY <1>8, <2>4, <2>5, <2>6
  <1> QED BY <1>9, <1>10, <1>11 DEF retireFence

(* The memory answers a store or a fetch&op.                               *)
LEMMA StoreCompletedStep ==
  ASSUME IInv, NEW d \in Slots, storeCompleted(d)
  PROVE  IInv' /\ (Window => Window')
  <1>1. /\ conf \in Confs /\ fe \in [Procs -> FrontEnd] /\ cpu \in [Procs -> Core]
        /\ dinst \in DInsts /\ Wakeups
        /\ stores \in [Words \cup {NoWord} -> Slots \cup {0}]
    BY TypedFacts DEF IInv, Typed
  <1>2. /\ dinst[d].st = "memory" /\ dinst' = destroy(d) /\ conf' = conf /\ fe' = fe
        /\ stores' = stores
    BY DEF storeCompleted
  <1>3. d \in Live /\ dinst[d] \in DInst
    BY <1>1, <1>2, Lives DEF Stages
  <1>4. PICK p \in Procs : p = dinst[d].proc
    BY <1>3, TypedFacts
  <1>5. dinst' \in DInsts /\ Drift({d}) /\ dinst'[d] = Free /\ Wakeups'
    <2> HIDE DEF destroy
    <2> QED BY <1>1, <1>2, <1>3, DestroyedStep
  <1>6. Moves({d}) /\ dinst'[d].st = "free"
    BY <1>1, <1>2, <1>5 DEF Moves, Free
  <1>7. PICK c \in Core : c = cpu[p]
    BY <1>1
  <1>8. PICK n \in Int, b \in BOOLEAN, k \in Nat :
          n = c.nOutsStores - 1 /\ b = (c.pendingFence /\ c.nOutsStores # 1) /\ k = c.epoch
    <2>1. c.nOutsStores - 1 \in Int /\ c.epoch \in Nat
      BY <1>7, CoreTypes
    <2>2. (c.pendingFence /\ c.nOutsStores # 1) \in BOOLEAN
      BY Zenon
    <2> QED BY <2>1, <2>2
  <1>9. PICK e : e = [c EXCEPT !.nOutsStores = n, !.pendingFence = b, !.epoch = k]
    OBVIOUS
  <1>10. cpu' = [cpu EXCEPT ![p] = e]
    <2>1. e = [c EXCEPT !.nOutsStores = n, !.pendingFence = b]
      BY <1>7, <1>8, <1>9 DEF Core
    <2>2. cpu' = [cpu EXCEPT ![p].nOutsStores = @ - 1,
                             ![p].pendingFence = @ /\ cpu[p].nOutsStores # 1]
      BY <1>4 DEF storeCompleted
    <2>3. cpu' = [cpu EXCEPT ![p].nOutsStores = n, ![p].pendingFence = b]
      BY <1>1, <1>7, <1>8, <2>2
    <2> QED BY <1>1, <1>7, <2>1, <2>3
  <1>11. /\ e \in Core /\ e.rob = c.rob /\ e.rat = c.rat /\ e.retired = c.retired
         /\ e.freeLoads = c.freeLoads /\ e.freeStores = c.freeStores
         /\ e.freeBranches = c.freeBranches
         /\ e.regPool = c.regPool /\ e.windowSize = c.windowSize
         /\ e.epoch = k /\ e.pendingFence = b /\ e.nOutsStores = n
    <2>1. Sends(c, n, b, k, e)
      BY <1>9 DEF Sends
    <2> QED BY <2>1, CoreSent
  <1>12. cpu' \in [Procs -> Core] /\ cpu'[p] = e /\ \A q \in Procs \ {p} : cpu'[q] = cpu[q]
    BY <1>1, <1>10, <1>11, CpuStep
  <1>13. \A q \in Procs : cpu'[q].rob = cpu[q].rob /\ cpu'[q].rat = cpu[q].rat
                          /\ cpu'[q].retired = cpu[q].retired
    BY <1>7, <1>11, <1>12
  <1>14. Typed'
    BY <1>1, <1>2, <1>5, <1>12 DEF Typed, DInsts
  <1>15. ASSUME NEW q \in Procs
         PROVE  /\ NoNewPlaces(q) /\ fe'[q].pc = fe[q].pc
                /\ (Blocking(q)' \subseteq Blocking(q) => MarkedAt(q)')
    BY <1>2, <1>13, FrontKept
  <1>16. Placed' /\ Sequential'
    <2>1. \A x \in {d} : Unmoved(x)
      <3>1. {dinst[d].st, dinst'[d].st} \cap (inROB \cup {"fetched"}) = {}
        BY <1>2, <1>6 DEF inROB
      <3> QED BY <3>1 DEF Unmoved
    <2> QED BY <1>6, <1>13, <1>15, <2>1, AtRest DEF IInv
  <1>17. Origins'
    BY <1>5, <1>6, OriginsKept DEF IInv
  <1>18. Marked'
    <2>1. ASSUME NEW q \in Procs PROVE Blocking(q)' \subseteq Blocking(q)
      <3>1. d \notin Blocking(q)'
        BY <1>6 DEF Blocking, InStage, waiting, inROB
      <3>2. \A x \in Slots \ {d} : x \in Blocking(q)' <=> x \in Blocking(q)
        BY <1>6, DriftedSets DEF Moves
      <3>3. Blocking(q)' \subseteq Slots
        BY DEF Blocking, InStage
      <3> QED BY <3>1, <3>2, <3>3
    <2> QED BY <1>15, <2>1, MarkedIs
  <1>19. Buckets'
    BY <1>2, FrontKept
  <1>20. Resources'
    <2>1. Shifts(d, c, e)
      <3>1. /\ dinst[d].st \notin inROB /\ dinst'[d].st \notin inROB
            /\ dinst[d].st \notin inROB \ {"executed"} /\ dinst'[d].st \notin inROB \ {"executed"}
        BY <1>2, <1>6 DEF inROB
      <3>2. ASSUME NEW x, NEW m \in Int
            PROVE  /\ Shift(d, inROB, x, m, m)
                   /\ Shift(d, inROB \ {"executed"}, x, m, m)
        BY <3>1 DEF Shift, One
      <3>4. /\ c.freeLoads \in Int /\ c.freeStores \in Int /\ c.freeBranches \in Int
            /\ c.regPool \in Int
        BY <1>7, CoreTypes
      <3> QED BY <1>11, <3>2, <3>4 DEF Shifts
    <2>2. SameInst(dinst[d], dinst'[d]) \/ dinst'[d] = Free
      BY <1>5
    <2>3. Shifts(d, cpu[p], cpu'[p])
      BY <1>7, <1>12, <2>1
    <2> QED BY <1>3, <1>4, <1>6, <1>12, <2>2, <2>3, ResourceStep
  <1>21. Fenced'
    <2>1. FenceAt(d, cpu[p], cpu'[p])
      <3>1. c.nOutsStores \in Int /\ c.pendingFence \in BOOLEAN
        BY <1>7, CoreTypes
      <3>2. c.pendingFence => c.nOutsStores > 0
        <4>1. FencedOf(p)
          BY <1>1, FencedIs DEF IInv
        <4> QED BY <1>7, <4>1 DEF FencedOf
      <3>3. (b = TRUE => n > 0) /\ (b = FALSE => ~c.pendingFence \/ n = 0)
        <4>1. /\ b = TRUE => c.pendingFence /\ c.nOutsStores # 1
              /\ b = FALSE => ~c.pendingFence \/ c.nOutsStores = 1
          BY <1>8, Zenon
        <4> QED BY <1>8, <3>1, <3>2, <4>1
      <3>4. e.nOutsStores = c.nOutsStores + One(dinst'[d].st = "memory") - One(dinst[d].st = "memory")
        BY <1>2, <1>6, <1>8, <1>11, <3>1 DEF One
      <3>5. e.epoch = c.epoch /\ e.nOutsStores = n /\ e.pendingFence = b
        BY <1>8, <1>11
      <3> QED BY <1>6, <1>7, <1>12, <3>3, <3>4, <3>5 DEF FenceAt
    <2>2. SameInst(dinst[d], dinst'[d]) \/ dinst'[d] = Free
      BY <1>5
    <2> QED BY <1>3, <1>4, <1>6, <1>12, <2>1, <2>2, FencedStep
  <1>22. Renaming'
    <2>1. ASSUME NEW q \in Procs, NEW r \in Regs \cup {NoDependence}
          PROVE  RenamedNext(q, r, cpu'[q].rat[r], {d})
      <3>1. PICK x : x = cpu[q].rat[r]
        OBVIOUS
      <3>2. RenamedAs(q, r, x)
        BY <3>1 DEF IInv, Renaming
      <3>3. x = 0 \/ x # d
        BY <1>2, <3>2 DEF RenamedAs, InStage, inROB
      <3> QED BY <1>13, <3>1, <3>3 DEF RenamedNext
    <2> QED BY <1>6, <2>1, RenamingKept DEF IInv
  <1>23. Buffered'
    <2>1. ASSUME NEW w \in Words \cup {NoWord} PROVE BufferedNext(w, stores'[w], {d})
      <3>1. PICK x : x = stores[w]
        OBVIOUS
      <3>2. BufferedAs(w, x)
        BY <1>1, <3>1 DEF IInv, Buffered
      <3>3. x = 0 \/ x # d
        BY <1>2, <3>2 DEF BufferedAs, inROB
      <3> QED BY <1>2, <3>1, <3>3 DEF BufferedNext
    <2> QED BY <1>1, <1>2, <1>6, <2>1, BufferedKept DEF IInv
  <1>24. IInv'
    BY <1>5, <1>14, <1>16, <1>17, <1>18, <1>19, <1>20, <1>21, <1>22, <1>23 DEF IInv
  <1>25. Window => Window'
    <2>1. WindowTaken(d, dinst[d].st, dinst'[d].st, cpu[p], cpu'[p])
      <3>1. conf.recycleAt \in {"Issue", "Execute", "Retire"}
        BY <1>1, ProgramsAssumption
      <3>2. /\ "memory" \notin holdsEntry[conf.recycleAt]
            /\ "free" \notin holdsEntry[conf.recycleAt]
        BY <3>1 DEF holdsEntry
      <3>3. /\ One(dinst[d].st \in holdsEntry[conf.recycleAt]) = 0
            /\ One(dinst'[d].st \in holdsEntry[conf.recycleAt]) = 0
        BY <1>2, <1>6, <3>2 DEF One
      <3>4. c.windowSize \in Int
        BY <1>7, CoreTypes
      <3> QED BY <1>7, <1>11, <1>12, <3>3, <3>4 DEF WindowTaken
    <2> QED BY <1>3, <1>4, <1>5, <1>6, <1>12, <2>1, WindowStep
  <1> QED BY <1>24, <1>25
-----------------------------------------------------------------------------
(***************************************************************************)
(* The invariant holds                                                     *)
(***************************************************************************)
LEMMA InitPlaces ==
  ASSUME Init, NEW p \in Procs
  PROVE  /\ robOf(p) = {} /\ queueOf(p) = {} /\ inPipe(p) = {}
         /\ \A d, e : ~Before(p, d, e)
         /\ \A S \in SUBSET Stages : InStage(p, S) = {}
  <1>1. /\ cpu[p].rob = <<>> /\ fe[p].instQueue = <<>> /\ fe[p].pipe = NewPipeline
        /\ dinst = [d \in Slots |-> Free]
    BY DEF Init
  <1>2. fe[p].pipe.buffer = <<>> /\ fe[p].pipe.order = <<>>
    BY <1>1 DEF NewPipeline
  <1>3. DOMAIN Insts(<<>>) = {}
    BY DEF Insts
  <1>4. PICK A : A = Insts(<<>>)
    OBVIOUS
  <1>5. Items(A) = {} /\ \A d, e : ~Precedes(A, d, e)
    <2>1. DOMAIN A = {}
      BY <1>3, <1>4
    <2>2. \A d : d \notin Items(A)
      BY <2>1, ItemsIn
    <2> QED BY <2>1, <2>2 DEF Precedes
  <1>6. robOf(p) = {}
    BY <1>1, NoItem DEF robOf
  <1>7. queueOf(p) = {}
    BY <1>1, NoBucket DEF queueOf
  <1>8. PipeItems(fe[p].pipe) = {}
    BY <1>2, <1>4, <1>5, NoBucket DEF PipeItems
  <1>9. inPipe(p) = {}
    BY <1>8, BeforeIs
  <1>10. ASSUME NEW d, NEW e PROVE ~Before(p, d, e)
    <2>1. ~PipeBefore(fe[p].pipe, d, e)
      BY <1>2, <1>4, <1>5, NoBucket DEF PipeBefore
    <2>2. ~Follows(cpu[p].rob, d, e) /\ ~Precedes(fe[p].instQueue, d, e)
      BY <1>1, NoItem, NoBucket
    <2> QED BY <1>6, <1>7, <2>1, <2>2, BeforeIs
  <1>11. ASSUME NEW S \in SUBSET Stages PROVE InStage(p, S) = {}
    BY <1>1 DEF InStage, Free, Stages
  <1> QED BY <1>6, <1>7, <1>9, <1>10, <1>11

LEMMA InitTyped ==
  ASSUME Init
  PROVE  Typed
  <1>1. ASSUME NEW p \in Procs PROVE fe[p] \in FrontEnd
    <2>1. fe[p] = [pc |-> 1, missInstID |-> FALSE, btac |-> FALSE, pipe |-> NewPipeline,
                   instQueue |-> <<>>, spaceInInstQueue |-> InstQueueSize]
      BY DEF Init
    <2>2. /\ bucketPoolMaxSize \in Int /\ MaxIRequests \in Int /\ InstQueueSize \in Int
      BY PipelineAssumption, SizeAssumption DEF bucketPoolMaxSize
    <2>3. <<>> \in Orders /\ <<>> \in Buffers /\ <<>> \in Queues
      BY DEF Orders, Buffers, Queues
    <2>4. NewPipeline \in PipelineRec
      BY <2>2, <2>3 DEF NewPipeline, PipelineRec
    <2> QED BY <2>1, <2>2, <2>3, <2>4 DEF FrontEnd
  <1>2. ASSUME NEW p \in Procs PROVE cpu[p] \in Core
    <2>1. PICK t : t = [r \in Regs \cup {NoDependence, InvalidOutput} |-> 0]
      OBVIOUS
    <2>2. t \in Rats
      BY <2>1 DEF Rats, AllRegs
    <2>3. /\ {WinSize, MaxLoads, MaxStores, MaxBranches, MaxRegs} \subseteq Int
      BY SizeAssumption
    <2>4. <<>> \in Robs
      BY DEF Robs
    <2>5. cpu[p] = [rob |-> <<>>, retired |-> 0, epoch |-> 0, rat |-> t,
               windowSize |-> WinSize, freeLoads |-> MaxLoads, misLoads |-> 0,
               freeStores |-> MaxStores, misStores |-> 0,
               freeBranches |-> MaxBranches, regPool |-> MaxRegs,
               misRegPool |-> 0, pendingFence |-> FALSE, nOutsStores |-> 0]
      BY <2>1 DEF Init
    <2> QED BY <2>2, <2>3, <2>4, <2>5 DEF Core
  <1>3. /\ conf \in Confs /\ dinst \in [Slots -> DInst \cup {Free}]
        /\ stores \in [Words \cup {NoWord} -> Slots \cup {0}]
        /\ fe = [p \in Procs |-> fe[p]] /\ cpu = [p \in Procs |-> cpu[p]]
    BY DEF Init
  <1> QED BY <1>1, <1>2, <1>3 DEF Typed

LEMMA InitHolds ==
  ASSUME Init
  PROVE  IInv /\ Window
  <1>1. Typed
    BY InitTyped
  <1>2. dinst = [d \in Slots |-> Free] /\ Live = {}
    BY DEF Init, Live
  <1>3. /\ inROB \in SUBSET Stages /\ {"fetched"} \in SUBSET Stages /\ {"memory"} \in SUBSET Stages
        /\ waiting \in SUBSET Stages /\ inROB \ {"executed"} \in SUBSET Stages
        /\ inROB \cup {"fetched"} \in SUBSET Stages
        /\ \A at \in {"Issue", "Execute", "Retire"} : holdsEntry[at] \in SUBSET Stages
    BY ClosedStages DEF Closed
  <1>4. ASSUME NEW p \in Procs
        PROVE  /\ Real(p) = {} /\ Blocking(p) = {} /\ loads(p) = {} /\ storesOf(p) = {}
               /\ branches(p) = {} /\ renamed(p) = {} /\ windowed(p) = {} /\ outstanding(p) = {}
    <2>1. conf.recycleAt \in {"Issue", "Execute", "Retire"}
      BY <1>1, ProgramsAssumption DEF Typed
    <2> QED BY <1>3, <2>1, InitPlaces DEF Real, Blocking, loads, storesOf, branches, renamed, windowed, outstanding
  <1>5. ASSUME NEW p \in Procs
        PROVE  /\ fe[p].pc = 1 /\ ~fe[p].missInstID /\ fe[p].pipe = NewPipeline
               /\ fe[p].instQueue = <<>> /\ fe[p].spaceInInstQueue = InstQueueSize
               /\ cpu[p].retired = 0 /\ cpu[p].windowSize = WinSize
               /\ cpu[p].freeLoads = MaxLoads /\ cpu[p].freeStores = MaxStores
               /\ cpu[p].freeBranches = MaxBranches /\ cpu[p].regPool = MaxRegs
               /\ ~cpu[p].pendingFence /\ cpu[p].nOutsStores = 0
               /\ \A r \in AllRegs : cpu[p].rat[r] = 0
    BY DEF Init, AllRegs
  <1>6. Placed
    <2>1. ASSUME NEW p \in Procs PROVE PlacedAt(p)
      BY <1>3, InitPlaces DEF PlacedAt
    <2> QED BY <2>1, PlacedIs
  <1>7. Sequential
    <2>1. ASSUME NEW p \in Procs PROVE SequentialAt(p)
      BY <1>4, <1>5 DEF SequentialAt
    <2> QED BY <2>1, PlacedIs
  <1>8. Origins
    BY <1>2 DEF Origins
  <1>9. Marked
    <2>1. ASSUME NEW p \in Procs PROVE MarkedAt(p)
      <3>1. fe[p].pipe.nCleanMarks = 0
        BY <1>5 DEF NewPipeline
      <3> QED BY <1>4, <3>1, InitPlaces DEF MarkedAt, One
    <2> QED BY <2>1, MarkedIs
  <1>10. Cardinality({}) = 0
    BY FS_EmptySet
  <1>11. Buckets
    <2>1. ASSUME NEW p \in Procs PROVE BucketsAt(p)
      <3>1. /\ Len(fe[p].pipe.buffer) = 0 /\ fe[p].pipe.order = <<>>
            /\ Len(fe[p].instQueue) = 0 /\ Len(fe[p].pipe.order) = 0
            /\ fe[p].pipe.bucketPool = bucketPoolMaxSize
            /\ fe[p].pipe.cleanBucketPool = bucketPoolMaxSize
            /\ fe[p].pipe.nIRequests = MaxIRequests /\ fe[p].pipe.nCleanMarks = 0
        BY <1>5 DEF NewPipeline
      <3>2. unready(fe[p].pipe.order) = {}
        BY <3>1 DEF unready
      <3>3. queueOf(p) = {}
        BY InitPlaces
      <3>4. /\ bucketPoolMaxSize \in Int /\ MaxIRequests \in Int /\ InstQueueSize \in Int
        BY PipelineAssumption, SizeAssumption DEF bucketPoolMaxSize
      <3>5. Cardinality(unready(fe[p].pipe.order)) = 0 /\ Cardinality(queueOf(p)) = 0
        BY <1>10, <3>2, <3>3
      <3>6. fe[p].spaceInInstQueue = InstQueueSize
        BY <1>5
      <3> HIDE DEF bucketPoolMaxSize
      <3> QED BY <3>1, <3>4, <3>5, <3>6 DEF BucketsAt, poolOf, requestsOf, cleanOf
    <2> QED BY <2>1, BucketsIs
  <1>12. {MaxLoads, MaxStores, MaxBranches, MaxRegs, WinSize} \subseteq Int
    BY SizeAssumption
  <1>13. Resources
    <2>1. \A x \in Int : x = x - 0
      OBVIOUS
    <2>2. ASSUME NEW p \in Procs
          PROVE  /\ Cardinality(loads(p)) = 0 /\ Cardinality(storesOf(p)) = 0
                 /\ Cardinality(branches(p)) = 0 /\ Cardinality(renamed(p)) = 0
      BY <1>4, <1>10
    <2> QED BY <1>5, <1>12, <2>1, <2>2 DEF Resources
  <1>14. Fenced
    <2>1. ASSUME NEW p \in Procs PROVE FencedOf(p)
      BY <1>4, <1>5, <1>10 DEF FencedOf
    <2>2. dinst \in DInsts
      BY <1>1 DEF Typed, DInsts
    <2> QED BY <2>1, <2>2, FencedIs
  <1>15. Wakeups
    BY <1>2 DEF Wakeups
  <1>16. Renaming
    BY <1>5 DEF Renaming, RenamedAs, AllRegs
  <1>17. Buffered
    BY DEF Buffered, BufferedAs, Init
  <1>18. Window
    <2>1. \A p \in Procs : Cardinality(windowed(p)) = 0
      BY <1>4, <1>10
    <2> QED BY <1>5, <1>12, <2>1 DEF Window
  <1> QED BY <1>1, <1>6, <1>7, <1>8, <1>9, <1>11, <1>13, <1>14, <1>15, <1>16, <1>17, <1>18 DEF IInv

LEMMA Stutter ==
  ASSUME UNCHANGED vars
  PROVE  (IInv => IInv') /\ (Window => Window')
  <1>1. conf' = conf /\ fe' = fe /\ cpu' = cpu /\ dinst' = dinst /\ stores' = stores
    BY DEF vars
  <1>2. Typed => Typed'
    BY <1>1 DEF Typed
  <1>3. ASSUME NEW p
        PROVE  /\ robOf(p)' = robOf(p) /\ queueOf(p)' = queueOf(p)
               /\ bufferOf(p)' = bufferOf(p) /\ orderOf(p)' = orderOf(p)
               /\ \A d, e : Before(p, d, e)' <=> Before(p, d, e)
    BY <1>1 DEF robOf, queueOf, bufferOf, orderOf, Before
  <1>4. ASSUME NEW p, NEW S PROVE InStage(p, S)' = InStage(p, S)
    BY <1>1 DEF InStage
  <1>5. ASSUME NEW p
        PROVE  /\ Real(p)' = Real(p) /\ Blocking(p)' = Blocking(p) /\ loads(p)' = loads(p)
               /\ storesOf(p)' = storesOf(p) /\ branches(p)' = branches(p)
               /\ renamed(p)' = renamed(p) /\ windowed(p)' = windowed(p)
               /\ outstanding(p)' = outstanding(p)
    BY <1>1, <1>4 DEF Real, Blocking, loads, storesOf, branches, renamed, windowed, outstanding, Op, Fake
  <1>6. Live' = Live /\ \A x, d, n : wakes(x, d, n)' <=> wakes(x, d, n)
    BY <1>1 DEF Live, wakes
  <1>7. Placed => Placed'
    BY <1>3, <1>4 DEF Placed
  <1>8. Sequential => Sequential'
    BY <1>1, <1>3, <1>5 DEF Sequential
  <1>9. Origins => Origins'
    BY <1>1, <1>6 DEF Origins, OriginOf, Op, Fake, Program
  <1>10. Marked => Marked'
    BY <1>1, <1>3, <1>5 DEF Marked
  <1>11. Buckets => Buckets'
    BY <1>1, <1>3 DEF Buckets
  <1>12. Resources => Resources'
    BY <1>1, <1>5 DEF Resources
  <1>13. Fenced => Fenced'
    BY <1>1, <1>5, <1>6 DEF Fenced, FenceOrder
  <1>14. Wakeups => Wakeups'
    BY <1>1, <1>6 DEF Wakeups
  <1>15. Renaming => Renaming'
    BY <1>1, <1>4 DEF Renaming, RenamedAs
  <1>16. Buffered => Buffered'
    BY <1>1, <1>6 DEF Buffered, BufferedAs, Op
  <1>17. Window => Window'
    BY <1>1, <1>5 DEF Window
  <1> QED BY <1>2, <1>7, <1>8, <1>9, <1>10, <1>11, <1>12, <1>13, <1>14, <1>15, <1>16, <1>17 DEF IInv

(* One step for each action of Next.                                       *)
LEMMA NextStep ==
  ASSUME IInv, [Next]_vars
  PROVE  IInv' /\ (EntriesReturn /\ Window => Window')
  <1>1. ASSUME NEW p \in Procs, Fetch(p) PROVE IInv' /\ (Window => Window')
    <2>1. ASSUME NEW n \in 0 .. FetchWidth, NEW miss \in {"no", "resolve", "btac"},
                 realFetch(p, n, miss)
          PROVE  IInv' /\ (Window => Window')
      BY <2>1, RealFetchStep
    <2>2. ASSUME NEW insts \in {<<>>} \cup FakeBuckets, fakeFetch(p, insts)
          PROVE  IInv' /\ (Window => Window')
      BY <2>2, FakeFetchStep
    <2> QED BY <1>1, <2>1, <2>2 DEF Fetch
  <1>2. ASSUME NEW p \in Procs, unBlockFetch(p) PROVE IInv' /\ (Window => Window')
    BY <1>2, UnBlockFetchStep
  <1>3. ASSUME NEW p \in Procs, Decode(p) PROVE IInv' /\ (Window => Window')
    BY <1>3, DecodeMark, DecodeBucket
  <1>4. ASSUME NEW p \in Procs, Issue(p) PROVE IInv' /\ (Window => Window')
    BY <1>4, IssueStep
  <1>5. ASSUME NEW p \in Procs, Retire(p) PROVE IInv' /\ (EntriesReturn /\ Window => Window')
    <2>1. PICK d \in Slots : retirePlain(p, d) \/ retireStore(p, d) \/ retireFence(p, d)
      BY <1>5 DEF Retire
    <2> QED BY <2>1, RetirePlainStep, RetireStoreStep, RetireFenceStep
  <1>6. ASSUME NEW p \in Procs, NEW k, markFetched(p, k) PROVE IInv' /\ (Window => Window')
    BY <1>6, MarkFetchedStep
  <1>7. ASSUME NEW d \in Slots, Callback(d) PROVE IInv' /\ (Window => Window')
    BY <1>7, EventStep, FenceTimeStep, IssuedAtPortStep, PortAndAckStep, DoAtExecutedStep,
       StoreCompletedStep DEF Callback
  <1>8. CASE Finished
    BY <1>8, Stutter DEF Finished
  <1>9. CASE UNCHANGED vars
    BY <1>9, Stutter
  <1> QED BY <1>1, <1>2, <1>3, <1>4, <1>5, <1>6, <1>7, <1>8, <1>9 DEF Next

THEOREM Invariance == Spec => []IInv
  <1>1. Init => IInv
    BY InitHolds
  <1>2. IInv /\ [Next]_vars => IInv'
    BY NextStep
  <1> QED BY <1>1, <1>2, PTL DEF Spec
-----------------------------------------------------------------------------
(***************************************************************************)
(* What the invariant says                                                 *)
(***************************************************************************)
LEMMA FlightIs ==
  ASSUME IInv, NEW p \in Procs
  PROVE  /\ Items(InFlight(p)) = robOf(p) \cup queueOf(p) \cup inPipe(p)
         /\ \A d, e : Precedes(InFlight(p), d, e) <=> Before(p, d, e)
  <1>1. cpu[p] \in Core /\ fe[p] \in FrontEnd
    BY TypedFacts
  <1>2. PICK s : s = cpu[p].rob
    OBVIOUS
  <1>3. PICK A, B, C : A = fe[p].instQueue /\ B = fe[p].pipe.buffer /\ C = Insts(fe[p].pipe.order)
    OBVIOUS
  <1>4. s \in Seq(Nat) /\ A \in Nested /\ B \in Nested /\ C \in Nested
    BY <1>1, <1>2, <1>3, CoreTypes, FrontEndTypes, PipelineTypes
  <1>5. PICK S, X, Y, Z : S = <<s>> /\ X = S \o A /\ Y = X \o B /\ Z = Y \o C
    OBVIOUS
  <1>6. InFlight(p) = Z
    BY <1>2, <1>3, <1>5 DEF InFlight
  <1>7. S \in Nested /\ Items(S) = Range(s) /\ \A d, e : Precedes(S, d, e) <=> Follows(s, d, e)
    BY <1>4, <1>5, OneBucket
  <1>8. /\ X \in Nested /\ Items(X) = Items(S) \cup Items(A)
        /\ \A d, e : Precedes(X, d, e) <=>
             Precedes(S, d, e) \/ Precedes(A, d, e) \/ (d \in Items(S) /\ e \in Items(A))
    BY <1>4, <1>5, <1>7, ConcatNested, ItemsConcat, PrecedesConcat
  <1>9. /\ Y \in Nested /\ Items(Y) = Items(X) \cup Items(B)
        /\ \A d, e : Precedes(Y, d, e) <=>
             Precedes(X, d, e) \/ Precedes(B, d, e) \/ (d \in Items(X) /\ e \in Items(B))
    BY <1>4, <1>5, <1>8, ConcatNested, ItemsConcat, PrecedesConcat
  <1>10. /\ Items(Z) = Items(Y) \cup Items(C)
         /\ \A d, e : Precedes(Z, d, e) <=>
              Precedes(Y, d, e) \/ Precedes(C, d, e) \/ (d \in Items(Y) /\ e \in Items(C))
    BY <1>4, <1>5, <1>9, ItemsConcat, PrecedesConcat
  <1>11. robOf(p) = Range(s) /\ queueOf(p) = Items(A) /\ bufferOf(p) = Items(B) /\ orderOf(p) = Items(C)
    BY <1>2, <1>3 DEF robOf, queueOf, bufferOf, orderOf
  <1>12. ASSUME NEW d, NEW e
         PROVE  Before(p, d, e) <=>
                  \/ Follows(s, d, e)
                  \/ d \in Range(s) /\ e \in Items(A) \cup Items(B) \cup Items(C)
                  \/ Precedes(A, d, e)
                  \/ d \in Items(A) /\ e \in Items(B) \cup Items(C)
                  \/ Precedes(B, d, e)
                  \/ (d \in Items(B) /\ e \in Items(C))
                  \/ Precedes(C, d, e)
    BY <1>2, <1>3, <1>11 DEF Before
  <1>13. ASSUME NEW d, NEW e PROVE Precedes(Z, d, e) <=> Before(p, d, e)
    BY <1>7, <1>8, <1>9, <1>10, <1>12
  <1>14. Items(Z) = robOf(p) \cup queueOf(p) \cup inPipe(p)
    BY <1>7, <1>8, <1>9, <1>10, <1>11 DEF inPipe
  <1> QED BY <1>6, <1>13, <1>14

LEMMA InOrder == IInv => InProgramOrder
  <1> SUFFICES ASSUME IInv, NEW p \in Procs
               PROVE  LET bs == InFlight(p)
                          real == {d \in Items(bs) \ {0} : ~Fake(d)}
                      IN  /\ {dinst[d].pos : d \in real} = cpu[p].retired + 1 .. fe[p].pc - 1
                          /\ \A i, j \in DOMAIN bs : \A k \in DOMAIN bs[i], l \in DOMAIN bs[j] :
                               /\ i < j \/ (i = j /\ k < l)
                               /\ {bs[i][k], bs[j][l]} \subseteq real
                               => dinst[bs[i][k]].pos < dinst[bs[j][l]].pos
    BY Zenon DEF InProgramOrder
  <1>0. PICK bs : bs = InFlight(p)
    OBVIOUS
  <1>0a. PICK real : real = {d \in Items(bs) \ {0} : ~Fake(d)}
    OBVIOUS
  <1>1. PlacedAt(p) /\ SequentialAt(p)
    BY PlacedIs DEF IInv
  <1>2. /\ Items(bs) = robOf(p) \cup queueOf(p) \cup inPipe(p)
        /\ \A d, e : Precedes(bs, d, e) <=> Before(p, d, e)
    BY <1>0, FlightIs
  <1>3. real = Real(p)
    <2>1. 0 \notin robOf(p)
      BY PlaceTypes
    <2>2. Items(bs) \ {0} = InStage(p, inROB) \cup InStage(p, {"fetched"})
      BY <1>1, <1>2, <2>1 DEF PlacedAt
    <2>3. InStage(p, inROB) \cup InStage(p, {"fetched"}) = InStage(p, inROB \cup {"fetched"})
      BY DEF InStage
    <2> QED BY <1>0a, <2>2, <2>3 DEF Real, Fake
  <1>4. ASSUME NEW i \in DOMAIN bs, NEW j \in DOMAIN bs, NEW k \in DOMAIN bs[i], NEW l \in DOMAIN bs[j],
               i < j \/ (i = j /\ k < l), {bs[i][k], bs[j][l]} \subseteq real
        PROVE  dinst[bs[i][k]].pos < dinst[bs[j][l]].pos
    <2>1. Precedes(bs, bs[i][k], bs[j][l])
      BY <1>4 DEF Precedes
    <2> QED BY <1>1, <1>2, <1>3, <1>4, <2>1 DEF SequentialAt
  <1>5. {dinst[d].pos : d \in real} = cpu[p].retired + 1 .. fe[p].pc - 1
    BY <1>1, <1>3 DEF SequentialAt
  <1> QED BY <1>0, <1>0a, <1>4, <1>5

(* At most one bucket of a pipeline is a clean mark.                       *)
LEMMA MarksOf ==
  ASSUME NEW A \in Seq(Bucket), ~Precedes(A, 0, 0)
  PROVE  Marks(A) = One(0 \in Items(A))
  <1>1. A \in Seq(Seq(Nat)) /\ Len(A) \in Nat /\ DOMAIN A = 1 .. Len(A)
    BY BucketsNested DEF Nested
  <1>2. ASSUME NEW k \in DOMAIN A PROVE A[k] = cleanItem <=> \E l \in DOMAIN A[k] : A[k][l] = 0
    <2>1. A[k] \in Bucket
      BY <1>1
    <2>2. CASE A[k] = cleanItem
      BY <2>2 DEF cleanItem
    <2>3. CASE A[k] \in Seq(Slots)
      <3>1. \A l \in DOMAIN A[k] : A[k][l] # 0
        BY <2>3, BucketsNested
      <3>2. cleanItem[1] = 0 /\ 1 \in DOMAIN cleanItem
        BY DEF cleanItem
      <3> QED BY <3>1, <3>2
    <2> QED BY <2>1, <2>2, <2>3 DEF Bucket
  <1>3. PICK K : K = {k \in DOMAIN A : A[k] = cleanItem}
    OBVIOUS
  <1>4. 0 \in Items(A) <=> K # {}
    BY <1>2, <1>3, ItemsIn
  <1>5. ASSUME NEW i \in K, NEW j \in K PROVE i = j
    <2>1. /\ i \in DOMAIN A /\ j \in DOMAIN A
          /\ \E l \in DOMAIN A[i] : A[i][l] = 0
          /\ \E l \in DOMAIN A[j] : A[j][l] = 0
      BY <1>2, <1>3
    <2>2. ~(i < j) /\ ~(j < i)
      BY <2>1 DEF Precedes
    <2> QED BY <1>1, <2>1, <2>2
  <1>6. CASE K = {}
    BY <1>3, <1>4, <1>6, FS_EmptySet DEF Marks, One
  <1>7. CASE K # {}
    <2>0. PICK k : k \in K
      BY <1>7
    <2>1. K = {k}
      BY <1>5, <2>0
    <2>2. Cardinality(K) = 1
      BY <2>1, FS_Singleton
    <2> QED BY <1>3, <1>4, <1>7, <2>2 DEF Marks, One
  <1> QED BY <1>6, <1>7

Held(pl, h, m, q, total) == pl.bucketPool + h - m + q = total
LEMMA HeldCount ==
  ASSUME NEW pl \in PipelineRec, NEW q \in Nat, NEW total, poolOf(pl) + q = total,
         NEW h, h = Len(pl.buffer) + Len(pl.order), NEW m, m = pl.nCleanMarks
  PROVE  Held(pl, h, m, q, total)
  <1>1. PICK u \in Int, v \in Int, w \in Int, x \in Int :
          u = pl.bucketPool /\ v = pl.nCleanMarks /\ w = Len(pl.buffer) /\ x = Len(pl.order)
    BY PipelineTypes
  <1>2. ((u + w + x) - v) + q = total
    BY <1>1 DEF poolOf
  <1>3. h = w + x /\ m = v
    BY <1>1
  <1>4. \A i, j, k, l, n \in Int : i + (j + k) - l + n = ((i + j + k) - l) + n
    OBVIOUS
  <1>5. u + (w + x) - v + q = ((u + w + x) - v) + q
    BY <1>4
  <1>6. u + h - m + q = total
    BY <1>2, <1>3, <1>5
  <1> QED BY <1>1, <1>6 DEF Held

LEMMA BucketsHeld == IInv => BucketsExact
  <1> SUFFICES ASSUME IInv, NEW p \in Procs, NEW pl, pl = fe[p].pipe,
                      NEW held, held = pl.buffer \o Insts(pl.order)
               PROVE  /\ pl.bucketPool + Len(held) - Marks(held) + Len(fe[p].instQueue)
                            = bucketPoolMaxSize
                      /\ pl.nIRequests + Cardinality({k \in DOMAIN pl.order : ~pl.order[k].ready})
                            = MaxIRequests
                      /\ pl.nCleanMarks = Marks(held) /\ pl.nCleanMarks <= 1
                      /\ pl.cleanBucketPool + pl.nCleanMarks = bucketPoolMaxSize
                      /\ fe[p].spaceInInstQueue + Cardinality(Items(fe[p].instQueue)) = InstQueueSize
    BY DEF BucketsExact
  <1>1. fe[p] \in FrontEnd /\ pl \in PipelineRec
    BY TypedFacts, FrontEndTypes
  <1>2. PICK B, C : B = pl.buffer /\ C = Insts(pl.order)
    OBVIOUS
  <1>3. B \in Seq(Bucket) /\ C \in Seq(Bucket) /\ B \in Nested /\ C \in Nested /\ Len(C) = Len(pl.order)
    <2>1. B \in Seq(Bucket \ {<<>>})
      BY <1>1, <1>2, PipelineTypes
    <2>2. B \in Seq(Bucket)
      BY <2>1
    <2> QED BY <1>1, <1>2, <2>2, PipelineTypes, InstsOf
  <1>4. held \in Seq(Bucket) /\ Len(held) = Len(pl.buffer) + Len(pl.order)
    <2>1. PICK S : S = Bucket
      OBVIOUS
    <2>2. B \in Seq(S) /\ C \in Seq(S) /\ held = B \o C
      BY <1>2, <1>3, <2>1
    <2>3. held \in Seq(S) /\ Len(held) = Len(B) + Len(C)
      BY ONLY <2>2
    <2> QED BY <1>2, <1>3, <2>1, <2>3
  <1>5. MarkedAt(p)
    BY MarkedIs DEF IInv
  <1>6. Items(held) = inPipe(p)
    BY <1>2, <1>3, ItemsConcat DEF inPipe, bufferOf, orderOf
  <1>7. ~Precedes(held, 0, 0)
    <2>1. ~PipeBefore(pl, 0, 0)
      BY <1>5, BeforeIs DEF MarkedAt
    <2> QED BY <1>2, <1>3, <2>1, PrecedesConcat DEF PipeBefore
  <1>8. pl.nCleanMarks = Marks(held)
    BY <1>4, <1>5, <1>6, <1>7, MarksOf DEF MarkedAt
  <1>9. pl.nCleanMarks <= 1
    BY <1>5 DEF MarkedAt, One
  <1>10. BucketsAt(p)
    BY BucketsIs DEF IInv
  <1>11. /\ pl.bucketPool \in Int /\ pl.nCleanMarks \in Int /\ Len(pl.buffer) \in Nat
         /\ Len(pl.order) \in Nat /\ Len(fe[p].instQueue) \in Nat
    BY <1>1, PipelineTypes, FrontEndTypes DEF Nested
  <1>12. pl.bucketPool + Len(held) - Marks(held) + Len(fe[p].instQueue) = bucketPoolMaxSize
    <2>1. poolOf(pl) + Len(fe[p].instQueue) = bucketPoolMaxSize
      BY <1>10 DEF BucketsAt
    <2>2. PICK q, total : q \in Nat /\ q = Len(fe[p].instQueue) /\ total = bucketPoolMaxSize
      BY <1>11
    <2>3. poolOf(pl) + q = total
      BY <2>1, <2>2
    <2> HIDE DEF bucketPoolMaxSize
    <2>4. PICK h, m : h = Len(held) /\ m = Marks(held)
      OBVIOUS
    <2>5. Held(pl, h, m, q, total)
      BY <1>1, <1>4, <1>8, <2>2, <2>3, <2>4, HeldCount
    <2> QED BY <2>2, <2>4, <2>5 DEF Held
  <1> QED BY <1>8, <1>9, <1>10, <1>12 DEF BucketsAt, requestsOf, cleanOf, unready, queueOf

LEMMA Counters == IInv /\ Window => CountersExact
  <1> SUFFICES ASSUME IInv, Window, NEW p \in Procs,
                      NEW c, c = cpu[p], NEW rob, rob = Range(c.rob)
               PROVE  /\ c.windowSize = WinSize
                           - Cardinality({d \in rob : dinst[d].st \in holdsEntry[conf.recycleAt]})
                      /\ c.freeLoads = MaxLoads - Cardinality({d \in rob : Op(d) = "load" /\ ~Fake(d)})
                      /\ c.freeStores = MaxStores - Cardinality({d \in rob : Op(d) = "store" /\ ~Fake(d)})
                      /\ c.freeBranches = MaxBranches
                           - Cardinality({d \in rob : Op(d) = "branch" /\ ~isExecuted(d)})
                      /\ c.regPool = MaxRegs
                           - Cardinality({d \in rob : dinst[d].inst.dest # InvalidOutput /\ ~Fake(d)})
                      /\ c.nOutsStores = Cardinality({d \in Live : dinst[d].proc = p /\ dinst[d].st = "memory"})
                      /\ c.pendingFence => c.nOutsStores > 0
    BY BucketsHeld DEF CountersExact
  <1>1. rob = InStage(p, inROB)
    BY PlacedIs DEF IInv, PlacedAt, robOf
  <1>2. conf.recycleAt \in {"Issue", "Execute", "Retire"}
    BY TypedFacts, ProgramsAssumption
  <1>3. {d \in rob : dinst[d].st \in holdsEntry[conf.recycleAt]} = windowed(p)
    <2>1. holdsEntry[conf.recycleAt] \subseteq inROB
      BY <1>2 DEF holdsEntry, inROB
    <2> QED BY <1>1, <2>1 DEF windowed, InStage
  <1>4. {d \in rob : Op(d) = "load" /\ ~Fake(d)} = loads(p)
    BY <1>1 DEF loads
  <1>5. {d \in rob : Op(d) = "store" /\ ~Fake(d)} = storesOf(p)
    BY <1>1 DEF storesOf
  <1>6. {d \in rob : Op(d) = "branch" /\ ~isExecuted(d)} = branches(p)
    BY <1>1 DEF branches, InStage, isExecuted, inROB
  <1>7. {d \in rob : dinst[d].inst.dest # InvalidOutput /\ ~Fake(d)} = renamed(p)
    BY <1>1 DEF renamed
  <1>8. {d \in Live : dinst[d].proc = p /\ dinst[d].st = "memory"} = outstanding(p)
    BY DEF outstanding, InStage, Live, Free
  <1>9. /\ c.freeLoads = MaxLoads - Cardinality(loads(p))
        /\ c.freeStores = MaxStores - Cardinality(storesOf(p))
        /\ c.freeBranches = MaxBranches - Cardinality(branches(p))
        /\ c.regPool = MaxRegs - Cardinality(renamed(p))
    BY DEF IInv, Resources
  <1>10. c.windowSize = WinSize - Cardinality(windowed(p))
    BY DEF Window
  <1>11. FencedOf(p)
    BY TypedFacts, FencedIs DEF IInv
  <1> QED BY <1>3, <1>4, <1>5, <1>6, <1>7, <1>8, <1>9, <1>10, <1>11 DEF FencedOf

LEMMA Dependences == IInv => DependencesExact
  <1> SUFFICES ASSUME IInv PROVE DependencesExact
    OBVIOUS
  <1>1. Wakeups /\ \A d \in Live : d \in Slots /\ dinst[d] \in DInst /\ dinst[d].proc \in Procs
    BY TypedFacts
  <1>2. ASSUME NEW d \in Live, NEW n \in {1, 2}
        PROVE  Cardinality({x \in Live : [d |-> d, src |-> n] \in dinst[x].pend})
                 = One(n \in dinst[d].deps)
    <2>1. PICK K : K = {x \in Live : [d |-> d, src |-> n] \in dinst[x].pend}
      OBVIOUS
    <2>2. n \in dinst[d].deps <=> K # {}
      BY <1>1, <2>1 DEF Wakeups, wakes
    <2>3. \A x, y \in K : x = y
      BY <1>1, <2>1 DEF Wakeups, wakes
    <2>4. CASE K = {}
      BY <2>1, <2>2, <2>4, FS_EmptySet DEF One
    <2>5. CASE K # {}
      <3>1. PICK x : K = {x}
        BY <2>3, <2>5
      <3>2. Cardinality(K) = 1
        BY <3>1, FS_Singleton
      <3> QED BY <2>1, <2>2, <2>5, <3>2 DEF One
    <2> QED BY <2>4, <2>5
  <1>3. ASSUME NEW d \in Live
        PROVE  /\ \A e \in dinst[d].pend : e.d \in Live
               /\ dinst[d].st = "window" <=> dinst[d].deps # {}
    BY <1>1 DEF Wakeups
  <1>4. ASSUME NEW p \in Procs, NEW r \in Regs \cup {NoDependence}, cpu[p].rat[r] # 0
        PROVE  cpu[p].rat[r] \in Range(cpu[p].rob) /\ ~isExecuted(cpu[p].rat[r])
    <2>1. cpu[p].rat[r] \in InStage(p, inROB \ {"executed"})
      BY <1>4 DEF IInv, Renaming, RenamedAs
    <2>2. Range(cpu[p].rob) = InStage(p, inROB)
      BY PlacedIs DEF IInv, PlacedAt, robOf
    <2> QED BY <2>1, <2>2 DEF InStage, isExecuted, inROB
  <1>5. ASSUME NEW w \in DOMAIN stores, stores[w] # 0
        PROVE  \E p \in Procs : stores[w] \in Range(cpu[p].rob)
    <2>1. stores[w] \in Live /\ dinst[stores[w]].st \in inROB
      BY <1>5 DEF IInv, Buffered, BufferedAs
    <2>2. PICK p \in Procs : p = dinst[stores[w]].proc
      BY <1>1, <2>1
    <2>3. stores[w] \in InStage(p, inROB)
      BY <1>1, <2>1, <2>2 DEF InStage
    <2>4. Range(cpu[p].rob) = InStage(p, inROB)
      BY PlacedIs DEF IInv, PlacedAt, robOf
    <2> QED BY <2>3, <2>4
  <1> QED BY <1>2, <1>3, <1>4, <1>5 DEF DependencesExact
-----------------------------------------------------------------------------
(***************************************************************************)
(* The theorems                                                            *)
(***************************************************************************)
(* Every variable keeps its type; in particular the counters of registers, *)
(* queues and buckets, and the lists of what waits for an instruction,     *)
(* stay what the other theorems speak of.                                  *)
THEOREM TypeCorrect == Spec => []Typed
  <1>1. IInv => Typed
    BY DEF IInv
  <1> QED BY <1>1, Invariance, PTL

(* Between fetch and retirement are the next instructions of the program,  *)
(* each once and in order, for every order of answers of the instruction   *)
(* cache, of branches that resolve and of wrong paths that are swallowed.  *)
THEOREM ProgramOrderAlways == Spec => []InProgramOrder
  <1> QED BY InOrder, Invariance, PTL

(* No bucket, request or clean mark of the front end is lost or given back *)
(* twice, whatever the units do with the entries of the window.            *)
THEOREM BucketsAlways == Spec => []BucketsExact
  <1> QED BY BucketsHeld, Invariance, PTL

(* No wake-up is lost or comes twice, and no list of waiting instructions, *)
(* no rename table and no load/store buffer names an instruction that is   *)
(* gone, although objects are recycled at retirement (DInst::destroy).     *)
THEOREM DependencesAlways == Spec => []DependencesExact
  <1> QED BY Dependences, Invariance, PTL

(* No store or fetch&op overtakes a fence.                                 *)
THEOREM FenceOrderAlways == Spec => []FenceOrder
  <1>1. IInv => FenceOrder
    BY DEF IInv, Fenced
  <1> QED BY <1>1, Invariance, PTL

(* Every counter of a resource is exact, where no fence can keep an entry  *)
(* of the window: FUMemory::retire gives none back, so with the entries    *)
(* recycled at retirement a fence would leave the window smaller.          *)
THEOREM CountersAlways ==
  ASSUME EntriesReturn
  PROVE  Spec => []CountersExact
  <1>1. Init => IInv /\ Window
    BY InitHolds
  <1>2. (IInv /\ Window) /\ [Next]_vars => (IInv /\ Window)'
    BY NextStep
  <1>3. IInv /\ Window => CountersExact
    BY Counters
  <1> QED BY <1>1, <1>2, <1>3, PTL DEF Spec
-----------------------------------------------------------------------------
(***************************************************************************)
(* Loads and the stores before them                                        *)
(***************************************************************************)
(* What is in the pipelines of p can write the words of the stores of its  *)
(* program and, where there is a program to leave, of the wrong paths.     *)
Writers(c, p) ==
  {i \in Range(c.prog[p]) \cup UNION {Range(b) : b \in {f \in FakeBuckets : c.misPath}} :
     i.op = "store" /\ c.prog[p] # <<>>}
WordsApart ==
  \A c \in Confs : \A p, q \in Procs : p # q =>
    \A i \in Writers(c, p), j \in Writers(c, q) : i.word # j.word
(* A wrong path leaves a program.                                          *)
FakesRun == \A d \in Live : Fake(d) => Program(dinst[d].proc) # <<>>

(* The map names the last store of a processor to a word, and a load is in *)
(* the list of the last one before it.                                     *)
Writes(s, w) == Op(s) = "store" /\ dinst[s].inst.word = w
Reads(d, w) == Op(d) = "load" /\ dinst[d].inst.word = w
LastIn(p, s, w) ==
  /\ s \in robOf(p) /\ Writes(s, w)
  /\ \A e \in robOf(p) : Follows(cpu[p].rob, s, e) => ~Writes(e, w)
LastBefore(p, s, d, w) ==
  /\ s \in robOf(p) /\ Writes(s, w) /\ Follows(cpu[p].rob, s, d)
  /\ \A e \in robOf(p) :
       Follows(cpu[p].rob, s, e) /\ Follows(cpu[p].rob, e, d) => ~Writes(e, w)
Latest ==
  \A p \in Procs : \A s \in robOf(p) : \A w \in Words \cup {NoWord} :
    LastIn(p, s, w) => stores[w] = s
Waits ==
  \A p \in Procs : \A s, d \in robOf(p) : \A w \in Words \cup {NoWord} :
    LastBefore(p, s, d, w) /\ Reads(d, w) /\ ~isExecuted(s) => wakes(s, d, 2)
Ordered == FakesRun /\ Latest /\ Waits
LEMMA FollowsIn ==
  ASSUME NEW s, NEW d, NEW e, Follows(s, d, e)
  PROVE  d \in Range(s) /\ e \in Range(s)
  BY DEF Follows, Range

(* A step that takes at most a first instruction from each ROB, wakes      *)
(* nobody up but by an execution, and forgets no store that stays.         *)
KeptAs(x) ==
  /\ dinst'[x].inst = dinst[x].inst
  /\ dinst'[x].st \notin {"executed", "memory"} =>
       dinst[x].st \notin {"executed", "memory"} /\ dinst[x].pend \subseteq dinst'[x].pend
KeptOrder(p) ==
  /\ robOf(p)' \subseteq robOf(p)
  /\ \A s \in robOf(p)' : \A d : Follows(cpu'[p].rob, s, d) <=> Follows(cpu[p].rob, s, d)
Persists ==
  \A p \in Procs :
    /\ KeptOrder(p)
    /\ \A x \in robOf(p)' : KeptAs(x) /\ \A w \in Words \cup {NoWord} : stores[w] = x => stores'[w] = x

LEMMA WordsKept ==
  ASSUME Persists, Latest, Waits
  PROVE  Latest' /\ Waits'
  <1>1. ASSUME NEW p \in Procs, NEW x \in robOf(p)', NEW w
        PROVE  /\ Writes(x, w)' <=> Writes(x, w)
               /\ Reads(x, w)' <=> Reads(x, w)
    <2>1. dinst'[x].inst = dinst[x].inst
      BY DEF Persists, KeptAs
    <2> QED BY <2>1 DEF Writes, Reads, Op
  <1>2. ASSUME NEW p \in Procs, NEW s \in robOf(p)', NEW d, Follows(cpu'[p].rob, s, d) \/ Follows(cpu[p].rob, s, d)
        PROVE  /\ Follows(cpu'[p].rob, s, d) /\ Follows(cpu[p].rob, s, d) /\ d \in robOf(p)'
               /\ s \in robOf(p) /\ d \in robOf(p)
    <2>1. Follows(cpu'[p].rob, s, d) /\ Follows(cpu[p].rob, s, d)
      BY <1>2 DEF Persists, KeptOrder
    <2>2. d \in robOf(p)'
      BY <2>1, FollowsIn DEF robOf
    <2> QED BY <2>1, <2>2 DEF Persists, KeptOrder
  <1>3. ASSUME NEW p \in Procs, NEW s \in robOf(p)', NEW w \in Words \cup {NoWord}, LastIn(p, s, w)'
        PROVE  stores'[w] = s
    <2>1. s \in robOf(p) /\ Writes(s, w)
      BY <1>1, <1>3 DEF LastIn, Persists, KeptOrder
    <2>2. ASSUME NEW e \in robOf(p), Follows(cpu[p].rob, s, e) PROVE ~Writes(e, w)
      BY <1>1, <1>2, <1>3, <2>2 DEF LastIn
    <2>3. stores[w] = s
      BY <2>1, <2>2 DEF LastIn, Latest
    <2> QED BY <2>3 DEF Persists
  <1>4. ASSUME NEW p \in Procs, NEW s \in robOf(p)', NEW d \in robOf(p)', NEW w \in Words \cup {NoWord},
               LastBefore(p, s, d, w)', Reads(d, w)', ~isExecuted(s)'
        PROVE  wakes(s, d, 2)'
    <2>1. /\ s \in robOf(p) /\ d \in robOf(p) /\ Writes(s, w) /\ Reads(d, w)
          /\ Follows(cpu[p].rob, s, d)
      BY <1>1, <1>2, <1>4 DEF LastBefore
    <2>2. ASSUME NEW e \in robOf(p), Follows(cpu[p].rob, s, e), Follows(cpu[p].rob, e, d)
          PROVE  ~Writes(e, w)
      <3>1. e \in robOf(p)' /\ Follows(cpu'[p].rob, s, e)
        BY <1>2, <2>2
      <3>2. Follows(cpu'[p].rob, e, d)
        BY <1>2, <2>2, <3>1
      <3> QED BY <1>1, <1>4, <3>1, <3>2 DEF LastBefore
    <2>3. ~isExecuted(s) /\ dinst[s].pend \subseteq dinst'[s].pend
      BY <1>4 DEF Persists, KeptAs, isExecuted
    <2>4. wakes(s, d, 2)
      BY <2>1, <2>2, <2>3 DEF LastBefore, Waits
    <2> QED BY <2>3, <2>4 DEF wakes
  <1> QED BY <1>3, <1>4 DEF Latest, Waits

(* x is the instruction it was.                                            *)
Remains(x) ==
  /\ dinst'[x].inst = dinst[x].inst /\ dinst'[x].proc = dinst[x].proc
  /\ dinst'[x].fake = dinst[x].fake

LEMMA RunsKept ==
  ASSUME FakesRun, conf' = conf,
         \A x \in Live' : \/ x \in Live /\ Remains(x)
                          \/ dinst'[x].fake => conf.prog[dinst'[x].proc] # <<>>
  PROVE  FakesRun'
  <1>1. ASSUME NEW x \in Live', dinst'[x].fake PROVE conf'.prog[dinst'[x].proc] # <<>>
    <2>1. CASE x \in Live /\ Remains(x)
      BY <1>1, <2>1 DEF FakesRun, Fake, Program, Remains
    <2> QED BY <1>1, <2>1
  <1> QED BY <1>1 DEF FakesRun, Fake, Program

LEMMA StoresApart ==
  ASSUME IInv, FakesRun, WordsApart, NEW s \in Live, NEW e \in Live, NEW w,
         Writes(s, w), Writes(e, w)
  PROVE  dinst[s].proc = dinst[e].proc
  <1>1. ASSUME NEW x \in Live, Writes(x, w)
        PROVE  dinst[x].inst \in Writers(conf, dinst[x].proc) /\ dinst[x].inst.word = w
    <2>1. OriginOf(x) /\ dinst[x].proc \in Procs /\ conf \in Confs
      BY TypedFacts DEF IInv, Origins
    <2>2. /\ dinst[x].inst.op = "store" /\ dinst[x].inst.word = w
      BY <1>1 DEF Writes, Op
    <2>3. CASE Fake(x)
      <3>1. conf.misPath /\ \E b \in FakeBuckets : dinst[x].inst \in Range(b)
        BY <2>1, <2>3 DEF OriginOf
      <3> QED BY <2>1, <2>2, <2>3, <3>1 DEF Writers, FakesRun, Program
    <2>4. CASE ~Fake(x)
      <3>1. dinst[x].inst \in Range(conf.prog[dinst[x].proc])
        BY <2>1, <2>4 DEF OriginOf, Program
      <3>2. conf.prog[dinst[x].proc] # <<>>
        BY <3>1 DEF Range
      <3> QED BY <2>2, <3>1, <3>2 DEF Writers
    <2> QED BY <2>3, <2>4
  <1>2. conf \in Confs /\ dinst[s].proc \in Procs /\ dinst[e].proc \in Procs
    BY TypedFacts
  <1> QED BY <1>1, <1>2 DEF WordsApart

(* d goes from the queue of p to its ROB.                                  *)
Entering(p, d) ==
  /\ d \in Live /\ dinst[d].st = "fetched" /\ dinst[d].proc = p /\ dinst[d].pend = {}
  /\ cpu'[p].rob = Append(cpu[p].rob, d) /\ \A q \in Procs \ {p} : cpu'[q].rob = cpu[q].rob
  /\ stores' = getStoreEntry(d, dinst[d].inst)
  /\ conf' = conf /\ Live' \subseteq Live /\ \A x \in Live : Remains(x)
  /\ \A x \in Live \ {d} : dinst'[x].st = dinst[x].st /\ dinst[x].pend \subseteq dinst'[x].pend
  /\ \A s \in Live \ {d} : getLoadEntry(p, dinst[d].inst) = s => wakes(s, d, 2)'

LEMMA Enters ==
  ASSUME IInv, NEW p \in Procs, Issue(p)
  PROVE  \E d : Entering(p, d)
  <1>1. PICK A, b, d, i : A = fe[p].instQueue /\ b = Head(A) /\ d = Head(b) /\ i = dinst[d].inst
    OBVIOUS
  <1>2. PICK s, src1, src2 :
          /\ s = getLoadEntry(p, i) /\ src1 = cpu[p].rat[i.src1]
          /\ src2 = IF s # 0 THEN s ELSE cpu[p].rat[i.src2]
    OBVIOUS
  <1>3. /\ A # <<>> /\ conf' = conf /\ stores' = getStoreEntry(d, i)
        /\ cpu' = [cpu EXCEPT ![p] = takeEntries(cpu[p], d, i, Fake(d))]
        /\ dinst' = IssuedInsts(p, d, s, src1, src2)
    <2> HIDE DEF getLoadEntry, getStoreEntry, takeEntries, canIssue, doneItem
    <2>1. A # <<>> /\ conf' = conf /\ stores' = getStoreEntry(d, i)
      BY <1>1 DEF Issue
    <2>2. cpu' = [cpu EXCEPT ![p] = takeEntries(cpu[p], d, i, Fake(d))]
      BY <1>1 DEF Issue
    <2>3. PICK D, E, F, G : /\ D = Head(Head(fe[p].instQueue))
                            /\ E = getLoadEntry(p, dinst[D].inst)
                            /\ F = cpu[p].rat[dinst[D].inst.src1]
                            /\ G = IF E # 0 THEN E ELSE cpu[p].rat[dinst[D].inst.src2]
      OBVIOUS
    <2>4. dinst' = IssuedInsts(p, Head(Head(fe[p].instQueue)),
             getLoadEntry(p, dinst[Head(Head(fe[p].instQueue))].inst),
             cpu[p].rat[dinst[Head(Head(fe[p].instQueue))].inst.src1],
             IF getLoadEntry(p, dinst[Head(Head(fe[p].instQueue))].inst) # 0
             THEN getLoadEntry(p, dinst[Head(Head(fe[p].instQueue))].inst)
             ELSE cpu[p].rat[dinst[Head(Head(fe[p].instQueue))].inst.src2])
      BY DEF Issue, IssuedInsts
    <2>5. D = d /\ E = s /\ F = src1 /\ G = src2
      BY <1>1, <1>2, <2>3
    <2> QED BY <2>1, <2>2, <2>3, <2>4, <2>5
  <1>4. d \in Live /\ dinst[d].st = "fetched" /\ dinst[d].proc = p /\ dinst[d].pend = {}
    <2>1. A \in Seq(Seq(Slots) \ {<<>>}) /\ Wakeups
      BY <1>1, TypedFacts, FrontEndTypes
    <2>2. PICK B : B = Rest(A, b)
      OBVIOUS
    <2>3. d \in Slots /\ Left(A, d, B)
      BY ONLY <1>1, <1>3, <2>1, <2>2, FirstLeaves
    <2>4. d \in queueOf(p) /\ d # 0
      BY <1>1, <2>3, BucketsNested DEF Left, queueOf
    <2>5. d \in InStage(p, {"fetched"})
      BY <2>4, PlacedIs DEF IInv, PlacedAt
    <2> QED BY <2>1, <2>5 DEF InStage, Live, Free, Wakeups
  <1>5. /\ cpu'[p].rob = Append(cpu[p].rob, d)
        /\ \A q \in Procs \ {p} : cpu'[q].rob = cpu[q].rob
    <2>1. cpu \in [Procs -> Core] /\ d \in Slots /\ i \in Instruction /\ Fake(d) \in BOOLEAN
      BY <1>1, <1>4, TypedFacts DEF DInst, Fake
    <2>2. PICK e : e = takeEntries(cpu[p], d, i, Fake(d))
      OBVIOUS
    <2>3. Takes(cpu[p], d, i, Fake(d), e)
      BY <2>1, <2>2, TakeEntries
    <2>4. e \in Core /\ e.rob = Append(cpu[p].rob, d)
      BY <2>3 DEF Takes
    <2> QED BY <1>3, <2>1, <2>2, <2>4
  <1>6. /\ dinst \in DInsts /\ Live \subseteq Slots /\ 0 \notin Slots
        /\ \A x \in Live : dinst[x] \in DInst
    BY TypedFacts, SlotsAssumption DEF Live
  <1>7. ASSUME NEW x \in Slots \ {d}
        PROVE  dinst'[x] = IF x \in {src1, src2}
                           THEN [dinst[x] EXCEPT
                                   !.pend = @ \cup {[d |-> d, src |-> n] :
                                       n \in {m \in {1, 2} : <<src1, src2>>[m] = x}}]
                           ELSE dinst[x]
    BY <1>3 DEF IssuedInsts
  <1>8. ASSUME NEW x \in Live \ {d}
        PROVE  /\ Remains(x) /\ dinst'[x].st = dinst[x].st /\ dinst[x].pend \subseteq dinst'[x].pend
               /\ x = src2 => wakes(x, d, 2)'
    <2>1. PICK K : K = {[d |-> d, src |-> n] : n \in {m \in {1, 2} : <<src1, src2>>[m] = x}}
      OBVIOUS
    <2>2. x = src2 => [d |-> d, src |-> 2] \in K
      BY <2>1
    <2>3. dinst'[x] = IF x \in {src1, src2} THEN [dinst[x] EXCEPT !.pend = dinst[x].pend \cup K] ELSE dinst[x]
      BY <1>6, <1>7, <2>1
    <2> QED BY <1>6, <2>2, <2>3 DEF DInst, Remains, wakes
  <1>9. Remains(d)
    <2>1. PICK t, D, r, g :
            dinst'[d] = [dinst[d] EXCEPT !.st = t, !.deps = D, !.depsAtRetire = r, !.forwarded = g]
      BY <1>3, <1>4, <1>6 DEF IssuedInsts
    <2> QED BY <1>4, <1>6, <2>1 DEF DInst, Remains
  <1>10. ASSUME NEW x \in Live \ {d}, s = x PROVE wakes(x, d, 2)'
    BY <1>2, <1>6, <1>8, <1>10
  <1>11. Live' \subseteq Live
    <2>1. ASSUME NEW x \in Slots \ {d}, x \notin Live PROVE dinst'[x] = Free
      BY <1>6, <1>7, <2>1, Lives DEF Free
    <2> QED BY <1>4, <2>1 DEF Live
  <1>12. getLoadEntry(p, dinst[d].inst) = s /\ stores' = getStoreEntry(d, dinst[d].inst) /\ conf' = conf
    BY <1>1, <1>2, <1>3
  <1>13. Entering(p, d)
    <2>1. \A x \in Live : Remains(x)
      BY <1>8, <1>9
    <2>2. \A x \in Live \ {d} : dinst'[x].st = dinst[x].st /\ dinst[x].pend \subseteq dinst'[x].pend
      BY <1>8
    <2>3. \A x \in Live \ {d} : getLoadEntry(p, dinst[d].inst) = x => wakes(x, d, 2)'
      BY <1>10, <1>12
    <2> QED BY <1>4, <1>5, <1>11, <1>12, <2>1, <2>2, <2>3, Zenon DEF Entering
  <1> QED BY <1>13

LEMMA IssueOrdered ==
  ASSUME IInv, Ordered, WordsApart, NEW p \in Procs, Issue(p)
  PROVE  Ordered'
  <1>1. FakesRun /\ Latest /\ Waits
    BY DEF Ordered
  <1>2. PICK d : Entering(p, d)
    BY Enters
  <1>3. /\ d \in Live /\ dinst[d].st = "fetched" /\ dinst[d].proc = p
        /\ conf' = conf /\ Live' \subseteq Live /\ \A x \in Live : Remains(x)
        /\ \A q \in Procs \ {p} : cpu'[q].rob = cpu[q].rob
    BY <1>2 DEF Entering
  <1>4. FakesRun'
    BY <1>1, <1>3, RunsKept
  <1>5. /\ d \notin robOf(p) /\ d \in Slots /\ d # 0 /\ 0 \notin Slots
        /\ \A q \in Procs : robOf(q) \subseteq Live /\ robOf(q) \subseteq InStage(q, inROB)
    <2>1. ASSUME NEW q \in Procs PROVE robOf(q) = InStage(q, inROB)
      BY PlacedIs DEF IInv, PlacedAt
    <2>2. \A q \in Procs : InStage(q, inROB) \subseteq Live
      BY DEF InStage, inROB, Live, Free
    <2> QED BY <1>3, <2>1, <2>2, SlotsAssumption DEF InStage, inROB, Live
  <1>6. /\ robOf(p)' = robOf(p) \cup {d}
        /\ \A x, y : Follows(cpu'[p].rob, x, y) <=> Follows(cpu[p].rob, x, y) \/ (x \in robOf(p) /\ y = d)
    <2>1. cpu[p].rob \in Seq(Nat) /\ d \in Nat
      BY <1>5, TypedFacts, CoreTypes, SlotsAssumption
    <2>2. PICK s, t : s = cpu[p].rob /\ t = cpu'[p].rob
      OBVIOUS
    <2>3. s \in Seq(Nat) /\ d \in Nat /\ t = Append(s, d)
      BY <1>2, <2>1, <2>2 DEF Entering
    <2>4. /\ Range(t) = Range(s) \cup {d}
          /\ \A x, y : Follows(t, x, y) <=> Follows(s, x, y) \/ (x \in Range(s) /\ y = d)
      <3>1. PICK u : u = Append(s, d)
        OBVIOUS
      <3>2. /\ Range(u) = Range(s) \cup {d}
            /\ \A x, y : Follows(u, x, y) <=> Follows(s, x, y) \/ (x \in Range(s) /\ y = d)
        BY <2>3, <3>1, AppendItem
      <3> QED BY <2>3, <3>1, <3>2
    <2> QED BY <2>2, <2>4, Zenon DEF robOf
  <1>7. ASSUME NEW x, NEW y, Follows(cpu[p].rob, x, y) PROVE y # d /\ x \in robOf(p) /\ y \in robOf(p)
    BY <1>5, <1>7, FollowsIn DEF robOf
  <1>8. ASSUME NEW q \in Procs \ {p}
        PROVE  robOf(q)' = robOf(q) /\ cpu'[q].rob = cpu[q].rob
    BY <1>3 DEF robOf
  <1>9. ASSUME NEW x \in Live, NEW w
        PROVE  (Writes(x, w)' <=> Writes(x, w)) /\ (Reads(x, w)' <=> Reads(x, w))
    BY <1>3 DEF Remains, Writes, Reads, Op
  <1>10. ASSUME NEW w \in Words \cup {NoWord}
         PROVE  stores'[w] = IF Writes(d, w) THEN d ELSE stores[w]
    <2>1. stores' = getStoreEntry(d, dinst[d].inst)
      BY <1>2 DEF Entering
    <2>2. stores \in [Words \cup {NoWord} -> Slots \cup {0}]
      BY DEF IInv, Typed
    <2> QED BY <2>1, <2>2 DEF getStoreEntry, Writes, Op
  <1>11. Latest'
    <2>1. ASSUME NEW q \in Procs, NEW s \in robOf(q)', NEW w \in Words \cup {NoWord}, LastIn(q, s, w)'
          PROVE  stores'[w] = s
      <3>1. CASE q # p
        <4>1. s \in robOf(q) /\ Writes(s, w) /\ s \in Live /\ dinst[s].proc = q
          BY <1>5, <1>8, <1>9, <2>1, <3>1 DEF LastIn, InStage
        <4>2. LastIn(q, s, w)
          BY <1>5, <1>8, <1>9, <2>1, <3>1, <4>1 DEF LastIn
        <4>3. stores[w] = s
          BY <1>1, <4>1, <4>2 DEF Latest
        <4>4. ~Writes(d, w)
          BY <1>1, <1>3, <3>1, <4>1, StoresApart
        <4> QED BY <1>10, <4>3, <4>4
      <3>2. CASE q = p /\ s = d
        BY <1>3, <1>9, <1>10, <2>1, <3>2 DEF LastIn
      <3>3. CASE q = p /\ s # d
        <4>1. s \in robOf(p) /\ s \in Live /\ Writes(s, w)
          BY <1>5, <1>6, <1>9, <2>1, <3>3 DEF LastIn
        <4>2. ~Writes(d, w)
          BY <1>3, <1>6, <1>9, <2>1, <3>3, <4>1 DEF LastIn
        <4>3. ASSUME NEW e \in robOf(p), Follows(cpu[p].rob, s, e) PROVE ~Writes(e, w)
          BY <1>5, <1>6, <1>9, <2>1, <3>3, <4>3 DEF LastIn
        <4>4. stores[w] = s
          BY <1>1, <4>1, <4>3 DEF LastIn, Latest
        <4> QED BY <1>10, <4>2, <4>4
      <3> QED BY <3>1, <3>2, <3>3
    <2> QED BY <2>1 DEF Latest
  <1>12. ASSUME NEW q \in Procs, NEW s \in robOf(q), s # d, ~isExecuted(s)'
         PROVE  ~isExecuted(s) /\ dinst[s].pend \subseteq dinst'[s].pend
    <2>1. dinst'[s].st = dinst[s].st /\ dinst[s].pend \subseteq dinst'[s].pend
      BY <1>2, <1>5, <1>12 DEF Entering
    <2> QED BY <1>12, <2>1 DEF isExecuted
  <1>13. Waits'
    <2>1. ASSUME NEW q \in Procs, NEW s \in robOf(q)', NEW x \in robOf(q)', NEW w \in Words \cup {NoWord},
                 LastBefore(q, s, x, w)', Reads(x, w)', ~isExecuted(s)'
          PROVE  wakes(s, x, 2)'
      <3>1. CASE q # p
        <4>1. /\ s \in robOf(q) /\ x \in robOf(q) /\ s \in Live /\ x \in Live /\ s # d
              /\ Writes(s, w) /\ Reads(x, w)
          BY <1>3, <1>5, <1>8, <1>9, <2>1, <3>1 DEF LastBefore, InStage
        <4>2. LastBefore(q, s, x, w)
          BY <1>5, <1>8, <1>9, <2>1, <3>1, <4>1 DEF LastBefore
        <4>3. ~isExecuted(s) /\ dinst[s].pend \subseteq dinst'[s].pend
          BY <1>12, <2>1, <4>1
        <4>4. wakes(s, x, 2)
          BY <1>1, <2>1, <4>1, <4>2, <4>3 DEF Waits
        <4> QED BY <4>3, <4>4 DEF wakes
      <3>2. CASE q = p
        <4>1. /\ s \in robOf(p) /\ s \in Live /\ s # d /\ Writes(s, w) /\ s # 0
          <5>1. Follows(cpu'[p].rob, s, x) /\ Writes(s, w)'
            BY <2>1, <3>2 DEF LastBefore
          <5>2. s \in robOf(p)
            BY <1>6, <1>7, <5>1
          <5>3. s \in Live /\ s # d /\ s # 0
            BY <1>5, <5>2 DEF Live
          <5> QED BY <1>9, <5>1, <5>2, <5>3
        <4>2. ~isExecuted(s) /\ dinst[s].pend \subseteq dinst'[s].pend
          BY <1>12, <2>1, <3>2, <4>1
        <4>3. CASE x # d
          <5>1. x \in robOf(p) /\ x \in Live /\ Reads(x, w) /\ Follows(cpu[p].rob, s, x)
            BY <1>5, <1>6, <1>9, <2>1, <3>2, <4>3 DEF LastBefore
          <5>2. ASSUME NEW e \in robOf(p), Follows(cpu[p].rob, s, e), Follows(cpu[p].rob, e, x)
                PROVE  ~Writes(e, w)
            BY <1>5, <1>6, <1>9, <2>1, <3>2, <5>2 DEF LastBefore
          <5>3. wakes(s, x, 2)
            BY <1>1, <4>1, <4>2, <5>1, <5>2 DEF LastBefore, Waits
          <5> QED BY <4>2, <5>3 DEF wakes
        <4>4. CASE x = d
          <5>1. ASSUME NEW e \in robOf(p), Follows(cpu[p].rob, s, e) PROVE ~Writes(e, w)
            BY <1>5, <1>6, <1>9, <2>1, <3>2, <4>4, <5>1 DEF LastBefore
          <5>2. stores[w] = s
            BY <1>1, <4>1, <5>1 DEF LastIn, Latest
          <5>3. Reads(d, w)
            BY <1>3, <1>9, <2>1, <4>4
          <5>4. getLoadEntry(p, dinst[d].inst) = s
            BY <4>1, <4>2, <5>2, <5>3 DEF Reads, Op, getLoadEntry
          <5> QED BY <1>2, <4>1, <4>4, <5>4 DEF Entering
        <4> QED BY <4>3, <4>4
      <3> QED BY <3>1, <3>2
    <2> QED BY <2>1 DEF Waits
  <1> QED BY <1>4, <1>11, <1>13 DEF Ordered

(* The ROBs stay, and nothing in them is executed or changes its list.     *)
LEMMA OrderedRests ==
  ASSUME Ordered, IInv, \A p \in Procs : cpu'[p].rob = cpu[p].rob, stores' = stores, conf' = conf,
         \A p \in Procs : \A x \in robOf(p) : KeptAs(x), FakesRun'
  PROVE  Ordered'
  <1>1. ASSUME NEW p \in Procs
        PROVE  robOf(p)' = robOf(p) /\ KeptOrder(p)
    BY DEF robOf, KeptOrder
  <1>2. Persists
    BY <1>1 DEF Persists
  <1> QED BY <1>2, WordsKept DEF Ordered

(* The first instruction of the ROB of p, which is not another store's     *)
(* entry, is gone.                                                         *)
LEMMA HeadGone ==
  ASSUME Ordered, IInv, NEW p \in Procs, NEW d, atHead(p, d),
         cpu'[p].rob = Tail(cpu[p].rob), \A q \in Procs \ {p} : cpu'[q].rob = cpu[q].rob,
         \A w \in Words \cup {NoWord} : stores[w] # d => stores'[w] = stores[w],
         \A q \in Procs : \A x \in robOf(q) \ {d} : KeptAs(x), FakesRun'
  PROVE  Ordered'
  <1>1. /\ cpu[p].rob \in Seq(Nat) /\ cpu[p].rob # <<>> /\ d = Head(cpu[p].rob) /\ dinst[d].proc = p
        /\ d \in Slots
    BY HeadIsNext
  <1>2. /\ robOf(p) = {d} \cup robOf(p)'
        /\ \A x, y : Follows(cpu[p].rob, x, y) <=>
                       Follows(cpu'[p].rob, x, y) \/ (x = d /\ y \in robOf(p)')
    BY <1>1, HeadItem DEF robOf
  <1>3. d \notin robOf(p)'
    <2>1. ~Before(p, d, d)
      BY <1>1, PlacedIs DEF IInv, PlacedAt
    <2>2. ~Follows(cpu[p].rob, d, d)
      BY <2>1, BeforeIs
    <2> QED BY <1>2, <2>2
  <1>4. ASSUME NEW q \in Procs \ {p} PROVE robOf(q)' = robOf(q) /\ d \notin robOf(q) /\ cpu'[q].rob = cpu[q].rob
    <2>1. robOf(q) = InStage(q, inROB)
      BY PlacedIs DEF IInv, PlacedAt
    <2>2. d \notin robOf(q)
      BY <1>1, <2>1 DEF InStage
    <2> QED BY <2>2 DEF robOf
  <1>5. ASSUME NEW q \in Procs
        PROVE  KeptOrder(q) /\ \A x \in robOf(q)' : x # d /\ x \in robOf(q)
    <2>1. CASE q = p
      BY <1>2, <1>3, <2>1 DEF KeptOrder
    <2>2. CASE q # p
      BY <1>4, <2>2 DEF KeptOrder
    <2> QED BY <2>1, <2>2
  <1>6. Persists
    BY <1>5 DEF Persists
  <1> QED BY <1>6, WordsKept DEF Ordered

LEMMA RobsLive ==
  ASSUME IInv, NEW p \in Procs, NEW x \in robOf(p)
  PROVE  x \in Live /\ x \in Slots /\ dinst[x] \in DInst /\ dinst[x].st \in inROB /\ dinst[x].proc = p
  <1>1. x \in InStage(p, inROB)
    BY PlacedIs DEF IInv, PlacedAt
  <1>2. x \in Live
    BY <1>1 DEF InStage, inROB, Live, Free
  <1> QED BY <1>1, <1>2, TypedFacts DEF InStage

LEMMA RobsRest ==
  ASSUME IInv, NEW p \in Procs, NEW e, cpu' = [cpu EXCEPT ![p] = e], e.rob = cpu[p].rob
  PROVE  \A q \in Procs : cpu'[q].rob = cpu[q].rob
  BY TypedFacts

(* Instructions but d at most leave the window.                            *)
LEMMA OthersRest ==
  ASSUME IInv, FakesRun, conf' = conf, dinst' \in DInsts, NEW d, Drift({d}),
         \A x \in Live \ {d} : dinst'[x].pend = dinst[x].pend,
         d \in Live' => d \in Live /\ Remains(d)
  PROVE  FakesRun' /\ \A x \in Live \ {d} : KeptAs(x)
  <1>1. ASSUME NEW x \in Slots \ {d}
        PROVE  /\ x \in Live' <=> x \in Live
               /\ x \in Live => Remains(x) /\ KeptAs(x)
    <2>1. (x \in Live' <=> x \in Live) /\ (x \in Live => Alike(dinst[x], dinst'[x]))
      BY TypedFacts, Drifted
    <2>2. ASSUME x \in Live
          PROVE  Remains(x) /\ KeptAs(x)
      <3>1. Alike(dinst[x], dinst'[x]) /\ dinst'[x].pend = dinst[x].pend
        BY <2>1, <2>2
      <3> QED BY <3>1 DEF Alike, Remains, KeptAs
    <2> QED BY <2>1, <2>2
  <1>2. Live' \subseteq Slots
    BY DEF Live
  <1>3. \A x \in Live' : x \in Live /\ Remains(x)
    BY <1>1, <1>2
  <1>4. FakesRun'
    BY <1>3, RunsKept
  <1> QED BY <1>1, <1>4 DEF Live

(* A callback that takes d to its next stage.                              *)
LEMMA StagedOrdered ==
  ASSUME IInv, Ordered, NEW d \in Live, NEW t, t \notin {"executed", "memory", "free"},
         dinst[d].st \notin {"executed", "memory"}, dinst' = [dinst EXCEPT ![d].st = t],
         conf' = conf, stores' = stores, \A p \in Procs : cpu'[p].rob = cpu[p].rob
  PROVE  Ordered'
  <1>1. dinst \in DInsts /\ d \in Slots /\ \A x \in Live : dinst[x] \in DInst
    BY TypedFacts
  <1>2. /\ \A x \in Slots \ {d} : dinst'[x] = dinst[x]
        /\ dinst'[d] = [dinst[d] EXCEPT !.st = t]
    BY <1>1 DEF DInsts
  <1>3. Remains(d) /\ KeptAs(d)
    BY <1>1, <1>2 DEF Remains, KeptAs, DInst
  <1>4. \A x \in Live : Remains(x) /\ KeptAs(x)
    BY <1>2, <1>3 DEF Remains, KeptAs, Live
  <1>5. Live' \subseteq Live
    BY <1>2 DEF Live
  <1>6. FakesRun'
    BY <1>4, <1>5, RunsKept DEF Ordered
  <1>7. \A p \in Procs : robOf(p) \subseteq Live
    BY RobsLive
  <1> QED BY <1>4, <1>6, <1>7, OrderedRests

LEMMA ExecutedOrdered ==
  ASSUME IInv, Ordered, NEW d \in Live, dinst[d].st \notin {"window", "fetched"}, dinst' = executed(d),
         conf' = conf, stores' = stores, \A p \in Procs : cpu'[p].rob = cpu[p].rob
  PROVE  Ordered'
  <1>1. dinst \in DInsts /\ d \in Slots /\ Wakeups /\ \A x \in Live : dinst[x] \in DInst /\ x \in Slots
    BY TypedFacts
  <1>2. /\ dinst' \in DInsts /\ Drift({d})
        /\ Alike([dinst[d] EXCEPT !.st = "executed"], dinst'[d])
    BY <1>1, ExecutedStep
  <1>3. Remains(d) /\ dinst'[d].st = "executed"
    BY <1>1, <1>2 DEF Alike, Remains, DInst
  <1>4. ASSUME NEW x \in Live \ {d} PROVE dinst'[x].pend = dinst[x].pend
    <2>1. PICK D, t : \/ dinst'[x] = [dinst[x] EXCEPT !.deps = D, !.st = t]
                      \/ dinst'[x] = dinst[x]
      BY <1>1 DEF executed
    <2> QED BY <1>1, <2>1 DEF DInst
  <1>5. FakesRun' /\ \A x \in Live \ {d} : KeptAs(x)
    BY <1>2, <1>3, <1>4, OthersRest DEF Ordered
  <1>6. KeptAs(d)
    BY <1>3 DEF KeptAs, Remains
  <1>7. \A p \in Procs : robOf(p) \subseteq Live
    BY RobsLive
  <1> QED BY <1>5, <1>6, <1>7, OrderedRests

LEMMA DestroyedLists ==
  ASSUME IInv, FakesRun, NEW d \in Live, dinst[d].st \in {"executed", "memory"}, dinst' = destroy(d),
         conf' = conf
  PROVE  FakesRun' /\ \A x \in Live \ {d} : KeptAs(x)
  <1>1. dinst \in DInsts /\ d \in Slots /\ Wakeups /\ \A x \in Live : dinst[x] \in DInst /\ x \in Slots
    BY TypedFacts
  <1>2. dinst' \in DInsts /\ Drift({d}) /\ dinst'[d] = Free
    BY <1>1, DestroyedStep
  <1>3. ASSUME NEW x \in Live \ {d} PROVE dinst'[x].pend = dinst[x].pend
    <2>1. dinst'[x] = awakeRemoteInstructions(d)[x]
      BY <1>1, <1>3 DEF destroy, awakeRemoteInstructions
    <2>2. PICK D, t : /\ D = dinst[x].deps \ Fed(d, x)
                      /\ t = IF D = {} THEN "port" ELSE dinst[x].st
      OBVIOUS
    <2>3. \/ dinst'[x] = [dinst[x] EXCEPT !.deps = D, !.depsAtRetire = FALSE, !.st = t]
          \/ dinst'[x] = dinst[x]
      BY <1>1, <2>1, <2>2 DEF awakeRemoteInstructions
    <2> QED BY <1>1, <2>3 DEF DInst
  <1>4. d \notin Live'
    BY <1>2 DEF Live
  <1> QED BY <1>2, <1>3, <1>4, OthersRest

LEMMA FetchOrdered ==
  ASSUME IInv, Ordered, NEW p \in Procs, NEW n \in Nat, NEW slots \in [1 .. n -> Slots \ Live],
         IsInjective(slots), NEW insts, \A i \in 1 .. n : Fresh(insts[i]),
         \A i \in 1 .. n : insts[i].fake => conf.prog[insts[i].proc] # <<>>,
         dinst' = Fill(slots, insts), UNCHANGED <<conf, cpu, stores>>
  PROVE  Ordered'
  <1>1. dinst \in DInsts /\ Wakeups /\ \A x \in Live : x \in Slots
    BY TypedFacts
  <1>2. \A i \in 1 .. n : dinst'[slots[i]] = insts[i]
    BY <1>1, FilledStep
  <1>3. Range(slots) \subseteq Slots \ Live /\ \A x \in Range(slots) : \E i \in 1 .. n : x = slots[i]
    BY DEF Range
  <1>4. \A x \in Slots \ Range(slots) : dinst'[x] = dinst[x]
    BY DEF Fill
  <1>5. \A x \in Live : dinst'[x] = dinst[x]
    BY <1>1, <1>3, <1>4
  <1>6. FakesRun'
    <2>1. ASSUME NEW x \in Live'
          PROVE  \/ x \in Live /\ Remains(x)
                 \/ dinst'[x].fake => conf.prog[dinst'[x].proc] # <<>>
      <3>1. CASE x \in Range(slots)
        BY <1>2, <1>3, <3>1
      <3>2. CASE x \notin Range(slots)
        BY <1>4, <3>2 DEF Live, Remains
      <3> QED BY <3>1, <3>2
    <2> QED BY <2>1, RunsKept DEF Ordered
  <1>7. ASSUME NEW q \in Procs, NEW x \in robOf(q) PROVE KeptAs(x)
    BY <1>5, <1>7, RobsLive DEF KeptAs
  <1> QED BY <1>6, <1>7, OrderedRests

LEMMA RealFetchOrdered ==
  ASSUME IInv, Ordered, NEW p \in Procs, NEW n \in 0 .. FetchWidth,
         NEW miss \in {"no", "resolve", "btac"}, realFetch(p, n, miss)
  PROVE  Ordered'
  <1>1. PICK slots, insts :
          /\ slots = outOfPool(n)
          /\ insts = [i \in 1 .. n |->
                        createDInst(p, fe[p].pc + i - 1, Program(p)[fe[p].pc + i - 1],
                                    FALSE, i = n /\ miss = "resolve")]
    OBVIOUS
  <1>2. /\ fe[p].pc + n - 1 <= Len(Program(p)) /\ n <= Cardinality(Slots \ Live)
        /\ dinst' = Fill(slots, insts) /\ UNCHANGED <<conf, cpu, stores>>
    BY <1>1 DEF realFetch
  <1>3. n \in Nat
    BY SizeAssumption
  <1>4. PICK c \in Nat \ {0} : c = fe[p].pc
    BY TypedFacts, FrontEndTypes
  <1>5. slots \in [1 .. n -> Slots \ Live] /\ IsInjective(slots)
    BY <1>1, <1>2, <1>3, OutOfPool
  <1>6. Program(p) \in Seq(Instruction)
    <2>1. conf.prog \in [Procs -> Seq(Instruction)]
      BY TypedFacts, ProgramsAssumption
    <2> QED BY <2>1 DEF Program
  <1>7. ASSUME NEW i \in 1 .. n PROVE Fresh(insts[i]) /\ ~insts[i].fake
    <2>1. PICK k : k = c + i - 1
      OBVIOUS
    <2>2. k \in DOMAIN Program(p) /\ k \in Nat
      BY <1>2, <1>3, <1>4, <1>6, <2>1
    <2>3. Program(p)[k] \in Instruction
      BY <1>6, <2>2
    <2>4. PICK b \in BOOLEAN : b <=> (i = n /\ miss = "resolve")
      OBVIOUS
    <2>5. insts[i] = createDInst(p, k, Program(p)[k], FALSE, b)
      BY <1>1, <1>4, <2>1, <2>4
    <2> QED BY <2>2, <2>3, <2>5 DEF createDInst, Fresh, DInst, Stages, Deps, Pends
  <1> QED BY <1>2, <1>3, <1>5, <1>7, FetchOrdered

LEMMA FakeFetchOrdered ==
  ASSUME IInv, Ordered, NEW p \in Procs, NEW bucket \in {<<>>} \cup FakeBuckets, fakeFetch(p, bucket)
  PROVE  Ordered'
  <1>1. PICK n, slots, insts :
          /\ n = Len(bucket) /\ slots = outOfPool(n)
          /\ insts = [i \in DOMAIN bucket |-> createDInst(p, 0, bucket[i], TRUE, FALSE)]
    OBVIOUS
  <1>2. /\ fe[p].pc <= Len(Program(p)) /\ n <= Cardinality(Slots \ Live)
        /\ dinst' = Fill(slots, insts) /\ UNCHANGED <<conf, cpu, stores>>
    BY <1>1 DEF fakeFetch
  <1>3. bucket \in Seq(Instruction) /\ DOMAIN bucket = 1 .. n /\ n \in Nat
    <2>1. bucket \in Seq(Instruction)
      <3>1. FakeBuckets \subseteq Seq(Instruction)
        BY ProgramsAssumption, Zenon
      <3>2. <<>> \in Seq(Instruction)
        OBVIOUS
      <3> QED BY <3>1, <3>2
    <2> QED BY <1>1, <2>1
  <1>4. PICK c \in Nat \ {0} : c = fe[p].pc
    BY TypedFacts, FrontEndTypes
  <1>5. slots \in [1 .. n -> Slots \ Live] /\ IsInjective(slots)
    BY <1>1, <1>2, <1>3, OutOfPool
  <1>6. conf.prog[p] # <<>>
    <2>1. conf.prog \in [Procs -> Seq(Instruction)]
      BY TypedFacts, ProgramsAssumption
    <2>2. c <= Len(conf.prog[p])
      BY <1>2, <1>4 DEF Program
    <2>3. Len(<<>>) = 0
      OBVIOUS
    <2> QED BY <2>2, <2>3
  <1>7. ASSUME NEW i \in 1 .. n PROVE Fresh(insts[i]) /\ insts[i].proc = p
    <2>1. bucket[i] \in Instruction /\ insts[i] = createDInst(p, 0, bucket[i], TRUE, FALSE)
      BY <1>1, <1>3
    <2> QED BY <2>1 DEF createDInst, Fresh, DInst, Stages, Deps, Pends
  <1> QED BY <1>2, <1>3, <1>5, <1>6, <1>7, FetchOrdered

(* Swallowed instructions are not in the ROB.                              *)
LEMMA DecodeOrdered ==
  ASSUME IInv, IInv', Ordered, NEW p \in Procs, Decode(p)
  PROVE  Ordered'
  <1>1. /\ \A x \in Slots : dinst'[x] = Free \/ dinst'[x] = dinst[x]
        /\ UNCHANGED <<conf, cpu, stores>>
    BY DEF Decode
  <1>2. \A x \in Live' : x \in Live /\ dinst'[x] = dinst[x]
    BY <1>1 DEF Live
  <1>3. FakesRun'
    BY <1>1, <1>2, RunsKept DEF Remains, Ordered
  <1>4. ASSUME NEW q \in Procs, NEW x \in robOf(q) PROVE KeptAs(x)
    <2>1. x \in robOf(q)'
      BY <1>1 DEF robOf
    <2>2. robOf(q)' = InStage(q, inROB)'
      BY PlacedIs DEF IInv, PlacedAt
    <2>3. x \in Live'
      BY <2>1, <2>2 DEF InStage, inROB, Live, Free
    <2> QED BY <1>2, <2>3 DEF KeptAs
  <1> QED BY <1>1, <1>3, <1>4, OrderedRests

(* The instruction at the head of the ROB leaves.                          *)
LEMMA HeadRecycledOrdered ==
  ASSUME IInv, Ordered, NEW p \in Procs, NEW d, atHead(p, d), dinst' = destroy(d), conf' = conf,
         NEW e, cpu' = [cpu EXCEPT ![p] = e], e.rob = Tail(cpu[p].rob),
         \A w \in Words \cup {NoWord} : stores[w] # d => stores'[w] = stores[w]
  PROVE  Ordered'
  <1>1. d \in Live /\ dinst[d].st = "executed"
    BY HeadIsNext
  <1>2. FakesRun' /\ \A x \in Live \ {d} : KeptAs(x)
    BY <1>1, DestroyedLists DEF Ordered
  <1>3. \A q \in Procs : \A x \in robOf(q) \ {d} : KeptAs(x)
    BY <1>2, RobsLive
  <1>4. cpu'[p].rob = Tail(cpu[p].rob) /\ \A q \in Procs \ {p} : cpu'[q].rob = cpu[q].rob
    BY TypedFacts
  <1> QED BY <1>2, <1>3, <1>4, HeadGone

LEMMA HeadSentOrdered ==
  ASSUME IInv, Ordered, NEW p \in Procs, NEW d, atHead(p, d), NEW n \in Nat,
         dinst' = [dinst EXCEPT ![d].st = "memory", ![d].epoch = n], conf' = conf,
         NEW e, cpu' = [cpu EXCEPT ![p] = e], e.rob = Tail(cpu[p].rob),
         \A w \in Words \cup {NoWord} : stores[w] # d => stores'[w] = stores[w]
  PROVE  Ordered'
  <1>1. d \in Live /\ dinst[d] \in DInst /\ dinst \in DInsts /\ d \in Slots
    BY HeadIsNext, TypedFacts
  <1>2. /\ \A x \in Slots \ {d} : dinst'[x] = dinst[x]
        /\ dinst'[d] = [dinst[d] EXCEPT !.st = "memory", !.epoch = n]
    BY <1>1 DEF DInsts
  <1>3. Remains(d)
    <2>1. SameInst(dinst[d], dinst'[d])
      BY HeadSent, Zenon
    <2> QED BY <2>1, Zenon DEF SameInst, Remains
  <1>4. \A x \in Live' : x \in Live /\ Remains(x)
    BY <1>1, <1>2, <1>3 DEF Remains, Live
  <1>5. FakesRun'
    BY <1>4, RunsKept DEF Ordered
  <1>6. \A q \in Procs : \A x \in robOf(q) \ {d} : KeptAs(x)
    BY <1>2, RobsLive DEF KeptAs
  <1>7. cpu'[p].rob = Tail(cpu[p].rob) /\ \A q \in Procs \ {p} : cpu'[q].rob = cpu[q].rob
    BY TypedFacts
  <1> QED BY <1>5, <1>6, <1>7, HeadGone

LEMMA RetireOrdered ==
  ASSUME IInv, Ordered, NEW p \in Procs, NEW d \in Slots,
         retirePlain(p, d) \/ retireStore(p, d) \/ retireFence(p, d)
  PROVE  Ordered'
  <1>1. atHead(p, d)
    BY DEF retirePlain, retireStore, retireFence
  <1>2. d \in Live /\ dinst[d] \in DInst /\ cpu[p].rob # <<>> /\ cpu[p] \in Core
    BY <1>1, HeadIsNext, TypedFacts
  <1>3. cpu[p].epoch \in Nat
    BY <1>2, CoreTypes
  <1>4. PICK g, h : g = leave(delEntry(cpu[p], "Retire"), d) /\ h = leave(cpu[p], d)
    OBVIOUS
  <1>5. g \in Core /\ g.rob = Tail(cpu[p].rob) /\ h \in Core /\ h.rob = Tail(cpu[p].rob)
    BY <1>2, <1>4, LeftWindow DEF LeftAs
  <1>6. ASSUME NEW v \in {g, h}, NEW x, NEW y, NEW z, NEW k
        PROVE  /\ [v EXCEPT !.freeLoads = x].rob = v.rob
               /\ [v EXCEPT !.freeStores = y, !.nOutsStores = z].rob = v.rob
               /\ [v EXCEPT !.nOutsStores = z].rob = v.rob
               /\ [v EXCEPT !.pendingFence = y].rob = v.rob
               /\ [v EXCEPT !.epoch = z].rob = v.rob
               /\ [[v EXCEPT !.pendingFence = y] EXCEPT !.epoch = z].rob = v.rob
    BY <1>5 DEF Core
  <1>7. CASE retirePlain(p, d)
    <2>1. dinst' = destroy(d) /\ conf' = conf /\ stores' = stores
      BY <1>7 DEF retirePlain
    <2>2. PICK n : n = g.freeLoads + One(Op(d) = "load" /\ ~Fake(d))
      OBVIOUS
    <2>3. cpu' = [cpu EXCEPT ![p] = [g EXCEPT !.freeLoads = n]]
      <3> HIDE DEF leave, delEntry
      <3> QED BY <1>4, <1>7, <2>2 DEF retirePlain
    <2>4. PICK e : e = [g EXCEPT !.freeLoads = n]
      OBVIOUS
    <2>5. e.rob = Tail(cpu[p].rob) /\ cpu' = [cpu EXCEPT ![p] = e]
      BY <1>5, <1>6, <2>3, <2>4
    <2> QED BY <1>1, <2>1, <2>5, HeadRecycledOrdered
  <1>8. CASE retireStore(p, d)
    <2>1. stores' = storeLocallyPerformed(d) /\ conf' = conf
      BY <1>8 DEF retireStore
    <2>2. ASSUME NEW w \in Words \cup {NoWord}, stores[w] # d PROVE stores'[w] = stores[w]
      <3>1. stores \in [Words \cup {NoWord} -> Slots \cup {0}]
        BY DEF IInv, Typed
      <3> QED BY <2>1, <2>2, <3>1 DEF storeLocallyPerformed
    <2>3. CASE dinst' = destroy(d) /\ cpu' = [cpu EXCEPT ![p] = g]
      BY <1>1, <1>5, <2>1, <2>2, <2>3, HeadRecycledOrdered
    <2>4. CASE /\ dinst' = [dinst EXCEPT ![d].st = "memory", ![d].epoch = cpu[p].epoch]
               /\ cpu' = [cpu EXCEPT ![p] = [g EXCEPT !.freeStores = g.freeStores + 1,
                                                     !.nOutsStores = g.nOutsStores + 1]]
      <3>1. PICK e, y, z : /\ e = [g EXCEPT !.freeStores = y, !.nOutsStores = z]
                           /\ y = g.freeStores + 1 /\ z = g.nOutsStores + 1
        OBVIOUS
      <3>2. e.rob = Tail(cpu[p].rob) /\ cpu' = [cpu EXCEPT ![p] = e]
        BY <1>5, <1>6, <2>4, <3>1
      <3> QED BY <1>1, <1>3, <2>1, <2>2, <2>4, <3>2, HeadSentOrdered
    <2>5. \/ dinst' = destroy(d) /\ cpu' = [cpu EXCEPT ![p] = g]
          \/ /\ dinst' = [dinst EXCEPT ![d].st = "memory", ![d].epoch = cpu[p].epoch]
             /\ cpu' = [cpu EXCEPT ![p] = [g EXCEPT !.freeStores = g.freeStores + 1,
                                                   !.nOutsStores = g.nOutsStores + 1]]
      <3> HIDE DEF leave, delEntry
      <3> QED BY <1>4, <1>8 DEF retireStore
    <2> QED BY <2>3, <2>4, <2>5
  <1>9. CASE retireFence(p, d)
    <2>1. conf' = conf /\ stores' = stores
      BY <1>9 DEF retireFence
    <2>2. PICK z, y, k : z = h.nOutsStores + 1 /\ y = (h.pendingFence \/ h.nOutsStores > 0) /\ k = h.epoch + 1
      OBVIOUS
    <2>3. \/ /\ dinst' = [dinst EXCEPT ![d].st = "memory", ![d].epoch = cpu[p].epoch]
             /\ cpu' = [cpu EXCEPT ![p] = [h EXCEPT !.nOutsStores = z]]
          \/ /\ dinst' = destroy(d)
             /\ cpu' = [cpu EXCEPT ![p] = [doFence(h) EXCEPT !.epoch = doFence(h).epoch + 1]]
          \/ dinst' = destroy(d) /\ cpu' = [cpu EXCEPT ![p] = h]
      <3> HIDE DEF leave, doFence
      <3> QED BY <1>4, <1>9, <2>2 DEF retireFence
    <2>4. PICK e : \/ /\ dinst' = [dinst EXCEPT ![d].st = "memory", ![d].epoch = cpu[p].epoch]
                      /\ e = [h EXCEPT !.nOutsStores = z] /\ cpu' = [cpu EXCEPT ![p] = e]
                   \/ /\ dinst' = destroy(d) /\ cpu' = [cpu EXCEPT ![p] = e]
                      /\ e = [doFence(h) EXCEPT !.epoch = doFence(h).epoch + 1]
                   \/ dinst' = destroy(d) /\ cpu' = [cpu EXCEPT ![p] = e] /\ e = h
      BY <2>3
    <2>5. doFence(h) = [h EXCEPT !.pendingFence = y]
      BY <2>2 DEF doFence
    <2>6. e.rob = Tail(cpu[p].rob)
      <3>1. PICK v : v = doFence(h).epoch + 1
        OBVIOUS
      <3>2. \/ e = [h EXCEPT !.nOutsStores = z]
            \/ e = [[h EXCEPT !.pendingFence = y] EXCEPT !.epoch = v]
            \/ e = h
        BY <2>4, <2>5, <3>1, Zenon
      <3>3. [h EXCEPT !.nOutsStores = z].rob = h.rob
        BY <1>6
      <3>4. [[h EXCEPT !.pendingFence = y] EXCEPT !.epoch = v].rob = h.rob
        BY <1>6
      <3> QED BY <1>5, <3>2, <3>3, <3>4
    <2> QED BY <1>1, <1>3, <2>1, <2>4, <2>6, HeadRecycledOrdered, HeadSentOrdered
  <1> QED BY <1>7, <1>8, <1>9

(* d is not in a ROB any more when the memory answers.                     *)
LEMMA StoreCompletedOrdered ==
  ASSUME IInv, Ordered, NEW d \in Slots, storeCompleted(d)
  PROVE  Ordered'
  <1>1. /\ dinst[d].st = "memory" /\ dinst' = destroy(d) /\ conf' = conf /\ stores' = stores
    BY DEF storeCompleted
  <1>2. d \in Live
    BY <1>1 DEF Live, Free
  <1>3. FakesRun' /\ \A x \in Live \ {d} : KeptAs(x)
    BY <1>1, <1>2, DestroyedLists DEF Ordered
  <1>4. ASSUME NEW q \in Procs, NEW x \in robOf(q) PROVE KeptAs(x)
    <2>1. x \in Live /\ dinst[x].st \in inROB
      BY RobsLive
    <2>2. x # d
      BY <1>1, <2>1 DEF inROB
    <2> QED BY <1>3, <2>1, <2>2
  <1>5. \A q \in Procs : cpu'[q].rob = cpu[q].rob
    <2>1. dinst[d].proc \in Procs /\ cpu \in [Procs -> Core]
      BY <1>2, TypedFacts
    <2>2. PICK p, y, z : p = dinst[d].proc /\ y = cpu[p].nOutsStores - 1
                         /\ z = (cpu[p].pendingFence /\ cpu[p].nOutsStores # 1)
      OBVIOUS
    <2>3. cpu' = [cpu EXCEPT ![p].nOutsStores = y, ![p].pendingFence = z]
      BY <2>2 DEF storeCompleted
    <2>4. cpu[p] \in Core /\ p \in Procs
      BY <2>1, <2>2
    <2>5. [[cpu[p] EXCEPT !.nOutsStores = y] EXCEPT !.pendingFence = z].rob = cpu[p].rob
      BY <2>4 DEF Core
    <2>6. PICK e : e = [[cpu[p] EXCEPT !.nOutsStores = y] EXCEPT !.pendingFence = z]
      OBVIOUS
    <2>7. cpu' = [cpu EXCEPT ![p] = e]
      BY <2>1, <2>2, <2>3, <2>6
    <2> QED BY <2>4, <2>5, <2>6, <2>7, RobsRest
  <1> QED BY <1>1, <1>3, <1>4, <1>5, OrderedRests

LEMMA CallbackOrdered ==
  ASSUME IInv, Ordered, NEW d \in Slots, Callback(d)
  PROVE  Ordered'
  <1>1. ASSUME NEW p \in Procs, NEW c, c = cpu[p], NEW at
        PROVE  delEntry(c, at).rob = c.rob /\ delEntry(c, at) \in Core
    BY <1>1, TypedFacts, DelEntry DEF Retimed
  <1>2. CASE storeCompleted(d)
    BY <1>2, StoreCompletedOrdered
  <1>3. ASSUME dinst[d].st \in {"selected", "port", "cache", "unit"}
        PROVE  d \in Live /\ dinst[d].proc \in Procs
    <2>1. d \in Live
      BY <1>3 DEF Live, Free
    <2> QED BY <2>1, TypedFacts
  <1>4. CASE simTimeEvent(d)
    <2>1. /\ dinst[d].st = "selected" /\ dinst' = executed(d) /\ conf' = conf /\ stores' = stores
          /\ cpu' = [cpu EXCEPT ![dinst[d].proc] = delEntry(delEntry(cpu[dinst[d].proc], "Issue"), "Execute")]
      BY <1>4 DEF simTimeEvent
    <2>2. d \in Live /\ dinst[d].proc \in Procs
      BY <1>3, <2>1
    <2>3. PICK p, c, e : /\ p = dinst[d].proc /\ c = delEntry(cpu[p], "Issue") /\ e = delEntry(c, "Execute")
      OBVIOUS
    <2>4. c.rob = cpu[p].rob /\ c \in Core
      BY <1>1, <2>2, <2>3
    <2>5. e.rob = c.rob
      BY <2>3, <2>4, DelEntry DEF Retimed
    <2>6. \A q \in Procs : cpu'[q].rob = cpu[q].rob
      BY <2>1, <2>2, <2>3, <2>4, <2>5, RobsRest
    <2> QED BY <2>1, <2>2, <2>6, ExecutedOrdered
  <1>5. CASE simTimeFence(d) \/ issued(d)
    <2>1. PICK t \in {"unit", "cache"} :
            /\ dinst[d].st \in {"selected", "port"} /\ dinst' = [dinst EXCEPT ![d].st = t]
            /\ conf' = conf /\ stores' = stores
            /\ cpu' = [cpu EXCEPT ![dinst[d].proc] = delEntry(cpu[dinst[d].proc], "Issue")]
      BY <1>5 DEF simTimeFence, issued
    <2>2. d \in Live /\ dinst[d].proc \in Procs
      BY <1>3, <2>1
    <2>3. PICK p, e : p = dinst[d].proc /\ e = delEntry(cpu[p], "Issue")
      OBVIOUS
    <2>4. e.rob = cpu[p].rob /\ cpu' = [cpu EXCEPT ![p] = e]
      BY <1>1, <2>1, <2>2, <2>3
    <2>5. \A q \in Procs : cpu'[q].rob = cpu[q].rob
      BY <2>2, <2>3, <2>4, RobsRest
    <2>6. t \notin {"executed", "memory", "free"} /\ dinst[d].st \notin {"executed", "memory"}
      BY <2>1
    <2> QED BY <2>1, <2>2, <2>5, <2>6, StagedOrdered
  <1>6. CASE simTimePort(d) \/ loadAck(d)
    <2>1. PICK t \in {"port", "unit"} :
            /\ dinst[d].st \in {"selected", "cache"} /\ dinst' = [dinst EXCEPT ![d].st = t]
            /\ conf' = conf /\ stores' = stores /\ cpu' = cpu
      BY <1>6 DEF simTimePort, loadAck
    <2>2. t \notin {"executed", "memory", "free"} /\ dinst[d].st \notin {"executed", "memory"}
      BY <2>1
    <2> QED BY <1>3, <2>1, <2>2, StagedOrdered
  <1>7. CASE doAtExecuted(d)
    <2>1. PICK p, restore, c, b, e :
            /\ p = dinst[d].proc /\ restore = (dinst[d].fetch /\ conf.misPath)
            /\ b = (Op(d) = "branch") /\ c = Results(delEntry(cpu[p], "Execute"), dinst[d].inst.dest, d, b)
            /\ e = IF restore THEN misBranchRestore(c) ELSE c
      OBVIOUS
    <2>2. /\ dinst[d].st = "unit" /\ dinst' = executed(d) /\ conf' = conf /\ stores' = stores
      BY <1>7 DEF doAtExecuted
    <2>3. cpu' = [cpu EXCEPT ![p] = e]
      <3> HIDE DEF delEntry, misBranchRestore
      <3> QED BY <1>7, <2>1 DEF doAtExecuted, Results, cleared
    <2>4. d \in Live /\ p \in Procs
      BY <1>3, <2>1, <2>2
    <2>5. PICK k : k = delEntry(cpu[p], "Execute")
      OBVIOUS
    <2>6. k \in Core /\ k.rob = cpu[p].rob
      BY <1>1, <2>4, <2>5
    <2>7. PICK r, n : c = [k EXCEPT !.rat = r, !.freeBranches = n]
      BY <2>1, <2>5 DEF Results
    <2>8. c.rob = k.rob /\ misBranchRestore(c).rob = c.rob
      BY <2>6, <2>7 DEF Core, misBranchRestore
    <2>9. e.rob = cpu[p].rob
      BY <2>1, <2>6, <2>8
    <2>10. \A q \in Procs : cpu'[q].rob = cpu[q].rob
      BY <2>3, <2>4, <2>9, RobsRest
    <2>11. dinst[d].st \notin {"window", "fetched"}
      BY <2>2
    <2> QED BY <2>2, <2>4, <2>10, <2>11, ExecutedOrdered
  <1> QED BY <1>2, <1>4, <1>5, <1>6, <1>7 DEF Callback
LEMMA SameOrdered ==
  ASSUME IInv, Ordered, UNCHANGED <<conf, cpu, dinst, stores>>
  PROVE  Ordered'
  <1>1. Live' = Live
    BY DEF Live
  <1>2. FakesRun'
    BY <1>1 DEF Ordered, FakesRun, Fake, Program
  <1>3. ASSUME NEW x PROVE KeptAs(x)
    BY DEF KeptAs
  <1> QED BY <1>2, <1>3, OrderedRests

LEMMA InitOrdered ==
  ASSUME Init
  PROVE  Ordered
  <1>1. Live = {}
    BY DEF Init, Live
  <1>2. ASSUME NEW p \in Procs PROVE robOf(p) = {}
    <2>1. cpu[p].rob = <<>>
      BY DEF Init
    <2> QED BY <2>1 DEF robOf, Range
  <1> QED BY <1>1, <1>2 DEF Ordered, FakesRun, Latest, Waits

(* One step for each action of Next.                                       *)
LEMMA NextOrdered ==
  ASSUME IInv, IInv', Ordered, WordsApart, [Next]_vars
  PROVE  Ordered'
  <1>1. ASSUME NEW p \in Procs, Fetch(p) PROVE Ordered'
    BY <1>1, RealFetchOrdered, FakeFetchOrdered DEF Fetch
  <1>2. ASSUME NEW p \in Procs, unBlockFetch(p) PROVE Ordered'
    BY <1>2, SameOrdered DEF unBlockFetch
  <1>3. ASSUME NEW p \in Procs, Decode(p) PROVE Ordered'
    BY <1>3, DecodeOrdered
  <1>4. ASSUME NEW p \in Procs, Issue(p) PROVE Ordered'
    BY <1>4, IssueOrdered
  <1>5. ASSUME NEW p \in Procs, Retire(p) PROVE Ordered'
    <2>1. PICK d \in Slots : retirePlain(p, d) \/ retireStore(p, d) \/ retireFence(p, d)
      BY <1>5 DEF Retire
    <2> QED BY <2>1, RetireOrdered
  <1>6. ASSUME NEW p \in Procs, NEW k, markFetched(p, k) PROVE Ordered'
    BY <1>6, SameOrdered DEF markFetched
  <1>7. ASSUME NEW d \in Slots, Callback(d) PROVE Ordered'
    BY <1>7, CallbackOrdered
  <1>8. CASE Finished \/ UNCHANGED vars
    BY <1>8, SameOrdered DEF Finished, vars
  <1> QED BY <1>1, <1>2, <1>3, <1>4, <1>5, <1>6, <1>7, <1>8 DEF Next

(* An instruction has one place in the ROB.                                *)
LEMMA OnePlace ==
  ASSUME IInv, NEW p \in Procs
  PROVE  /\ cpu[p].rob \in Seq(Nat) /\ DOMAIN cpu[p].rob \subseteq Nat
         /\ \A i, j \in DOMAIN cpu[p].rob : i < j => cpu[p].rob[i] # cpu[p].rob[j]
  <1>1. cpu[p] \in Core
    BY TypedFacts
  <1>2. cpu[p].rob \in Seq(Slots) /\ cpu[p].rob \in Seq(Nat)
    BY <1>1, CoreTypes
  <1>3. DOMAIN cpu[p].rob \subseteq Nat
    BY <1>2
  <1>4. ASSUME NEW i \in DOMAIN cpu[p].rob, NEW j \in DOMAIN cpu[p].rob, i < j,
               cpu[p].rob[i] = cpu[p].rob[j]
        PROVE  FALSE
    <2>1. PICK d \in Slots : d = cpu[p].rob[i]
      BY <1>2
    <2>2. Follows(cpu[p].rob, d, d)
      BY <1>4, <2>1 DEF Follows
    <2>3. Before(p, d, d)
      BY <2>2, BeforeIs
    <2>4. ~Before(p, d, d)
      BY <2>1, PlacedIs DEF IInv, PlacedAt
    <2> QED BY <2>3, <2>4
  <1> QED BY <1>2, <1>3, <1>4

LEMMA LoadWaits ==
  ASSUME IInv, Ordered
  PROVE  LoadWaitsForStore
  <1>1. SUFFICES ASSUME NEW p \in Procs, NEW j \in DOMAIN cpu[p].rob, NEW older,
                        older = {i \in 1 .. j - 1 :
                                   /\ Op(cpu[p].rob[i]) = "store"
                                   /\ dinst[cpu[p].rob[i]].inst.word = dinst[cpu[p].rob[j]].inst.word},
                        Op(cpu[p].rob[j]) = "load", older # {},
                        ~isExecuted(cpu[p].rob[Max(older)])
                 PROVE  dinst[cpu[p].rob[j]].st = "window"
    BY DEF LoadWaitsForStore
  <1>2. PICK rob : rob = cpu[p].rob
    OBVIOUS
  <1>3. PICK m, s, d, w : m = Max(older) /\ s = rob[m] /\ d = rob[j] /\ w = dinst[d].inst.word
    OBVIOUS
  <1>4. /\ rob \in Seq(Nat) /\ j \in Nat /\ j \in 1 .. Len(rob) /\ DOMAIN rob = 1 .. Len(rob)
        /\ Len(rob) \in Nat
    <2>1. rob \in Seq(Nat) /\ j \in DOMAIN rob
      BY <1>1, <1>2, OnePlace
    <2>2. DOMAIN rob = 1 .. Len(rob) /\ Len(rob) \in Nat
      BY <2>1
    <2> QED BY <2>1, <2>2
  <1>5. m \in older /\ \A i \in older : m >= i
    <2>1. older \subseteq 1 .. j - 1
      BY <1>1
    <2>2. older \in SUBSET Nat /\ \A i \in older : i <= j
      BY <1>4, <2>1
    <2> QED BY <1>1, <1>3, <1>4, <2>2, GreatestNatural
  <1>6. /\ m \in Nat /\ m < j /\ m \in DOMAIN rob /\ Op(s) = "store" /\ dinst[s].inst.word = w
    <2>1. m \in 1 .. j - 1 /\ Op(s) = "store" /\ dinst[s].inst.word = w
      BY <1>1, <1>2, <1>3, <1>5
    <2> QED BY <1>4, <2>1
  <1>7. s \in robOf(p) /\ d \in robOf(p) /\ Follows(rob, s, d)
    BY <1>1, <1>2, <1>3, <1>6 DEF robOf, Range, Follows
  <1>8. ASSUME NEW e \in robOf(p), Follows(rob, s, e), Follows(rob, e, d)
        PROVE  ~Writes(e, w)
    <2>1. PICK k, l \in DOMAIN rob : k < l /\ rob[k] = s /\ rob[l] = e
      BY <1>8 DEF Follows
    <2>2. PICK f, g \in DOMAIN rob : f < g /\ rob[f] = e /\ rob[g] = d
      BY <1>8 DEF Follows
    <2>3. \A x, y \in DOMAIN rob : x < y => rob[x] # rob[y]
      BY <1>2, OnePlace
    <2>4. \A x, y \in DOMAIN rob : rob[x] = rob[y] => x = y
      <3>1. \A x, y \in DOMAIN rob : x < y \/ y < x \/ x = y
        BY <1>4
      <3> QED BY <2>3, <3>1
    <2>5. k = m /\ g = j /\ f = l
      BY <1>1, <1>2, <1>3, <1>6, <2>1, <2>2, <2>4
    <2>6. l \in Nat /\ m < l /\ l < j
      BY <1>4, <2>1, <2>2, <2>5
    <2>7. l \notin older
      BY <1>5, <1>6, <2>6
    <2>8. l \in 1 .. j - 1
      BY <1>4, <1>6, <2>6
    <2> QED BY <1>1, <1>2, <1>3, <2>1, <2>7, <2>8 DEF Writes
  <1>9. /\ d \in Live /\ s \in Live /\ dinst[d].inst \in Instruction
    BY <1>7, RobsLive, TypedFacts
  <1>10. w \in Words \cup {NoWord}
    BY <1>3, <1>9 DEF Instruction
  <1>11. LastBefore(p, s, d, w) /\ Reads(d, w)
    BY <1>1, <1>2, <1>3, <1>6, <1>7, <1>8 DEF LastBefore, Writes, Reads
  <1>12. wakes(s, d, 2)
    BY <1>1, <1>2, <1>3, <1>7, <1>10, <1>11 DEF Ordered, Waits
  <1>13. 2 \in dinst[d].deps
    BY <1>9, <1>12 DEF IInv, Wakeups
  <1> QED BY <1>2, <1>3, <1>9, <1>13 DEF IInv, Wakeups
-----------------------------------------------------------------------------
(* Where no two processors store to the same word, a load never leaves the *)
(* window before the youngest older store of its processor to its word is  *)
(* executed.  LDSTBuffer has one map for all processors, so without the    *)
(* hypothesis a store of another one can hide it.                          *)
THEOREM LoadWaitsAlways ==
  ASSUME WordsApart
  PROVE  Spec => []LoadWaitsForStore
  <1>1. Init => IInv /\ Ordered
    BY InitHolds, InitOrdered
  <1>2. (IInv /\ Ordered) /\ [Next]_vars => (IInv /\ Ordered)'
    BY NextStep, NextOrdered
  <1>3. IInv /\ Ordered => LoadWaitsForStore
    BY LoadWaits
  <1> QED BY <1>1, <1>2, <1>3, PTL DEF Spec
=============================================================================
