-------------------------- MODULE SescThreadProofs --------------------------
(***************************************************************************)
(* The native threads, for any set of pids and any size of the table: each *)
(* thread in its routine has one entry, its own, and sesc_wait returns no  *)
(* more often than threads end.                                            *)
(***************************************************************************)
EXTENDS SescThread, FiniteSetTheorems, FunctionTheorems, WellFoundedInduction, TLAPS

Where == {"none", "start", "free", "run", "count", "create", "register",
          "return", "block", "find", "awake", "drop", "done"}
Routine == {"run", "count", "create", "register", "return", "block"}
Past == {"find", "awake", "drop", "done"}

Others == Pids \ {Root}
unfinished == {c \in Others : pc[c] \in {"start", "free"} \cup Routine}
creating == {p \in Pids : pc[p] = "create"}
children(p) == {c \in Others : pc[c] # "none" /\ parent[c] = p}
ended(p) == {c \in children(p) : pc[c] \in Past}
joined(p) == {c \in children(p) : pc[c] \in {"drop", "done"}}

Typed ==
  /\ table \in [Slots -> Entry]
  /\ nConcurrentThreads \in Int
  /\ pc \in [Pids -> Where]
  /\ tf \in [Pids -> Slots \cup {NoSlot}]
  /\ own \in [Pids -> Slots \cup {NoSlot}]
  /\ arg \in [Pids -> Slots \cup {NoSlot}]
  /\ aborted \in BOOLEAN
  /\ parent \in [Pids -> Pids]
  /\ spawned \in [Pids -> Nat] /\ finished \in [Pids -> Nat]
  /\ returned \in [Pids -> Nat]

(* Whose entries are in the table.                                         *)
hasEntry(p) == pc[p] \in Routine \cup {"free", "find", "awake", "drop"}
Entries ==
  /\ \A p \in Pids : hasEntry(p) => entriesOf(p) = {own[p]} /\ table[own[p]].ppid = parent[p]
  /\ \A p \in Pids : pc[p] = "none" => entriesOf(p) = {}
  /\ \A c \in Pids : pc[c] = "start" =>
       \A s \in entriesOf(c) : entriesOf(c) = {s} /\ table[s].ppid = parent[c]

(* Entries that carry arguments: of a thread about to create another, and  *)
(* of the one created; no two are the same.                                *)
Passing(s, p) == s \in Slots /\ table[s].inUse /\ table[s].nPid \notin Pids /\ table[s].ppid = p
spawning == {p \in Pids : pc[p] \in {"count", "create"}}
starting == {c \in Pids : pc[c] \in {"start", "free"}}
Arguments ==
  /\ \A p \in spawning : Passing(tf[p], p)
  /\ \A c \in starting : Passing(arg[c], parent[c])
  /\ \A p, q \in spawning : tf[p] = tf[q] => p = q
  /\ \A c, e \in starting : arg[c] = arg[e] => c = e
  /\ \A p \in spawning, c \in starting : tf[p] # arg[c]
  /\ \A s \in Slots : pc[table[s].thr] # "none"
  /\ \A s \in Slots : pc[table[s].thr] = "start" => s = arg[table[s].thr]

(* What the current call of a thread works on.                             *)
CallStacks ==
  /\ \A p \in Pids : pc[p] \in {"register", "return"} => tf[p] \in Slots
  /\ \A p \in Pids : pc[p] = "block" => tf[p] = own[p]
  /\ \A c \in Pids : pc[c] = "awake" =>
       /\ tf[c] \in Slots
       /\ pc[Root] # "done" \/ parent[c] # Root => tf[c] = own[parent[c]]

(* A thread outlives its children, but for the main one, which outlives    *)
(* their routines.                                                         *)
Family ==
  /\ pc[Root] \in Routine \cup {"done"} /\ parent[Root] = Root
  /\ \A c \in Others : pc[c] # "none" => pc[parent[c]] # "none"
  /\ \A c \in Others : pc[c] \notin {"none", "drop", "done"} =>
       inRoutine(parent[c]) \/ parent[c] = Root
  /\ pc[Root] = "done" => unfinished = {}
  /\ \A S \in SUBSET {c \in Others : pc[c] # "none"} :
       S # {} => \E c \in S : parent[c] \notin S

Counts ==
  /\ nConcurrentThreads = 1 + Cardinality(unfinished) + Cardinality(creating)
  /\ \A p \in Pids : spawned[p] = Cardinality(children(p))
                     /\ finished[p] = Cardinality(ended(p))
  /\ Cardinality(spawning) <= Cardinality({c \in Pids : pc[c] = "none"})

(* The entry of a thread that waits for nobody, and that of one in its     *)
(* routine: nWaiting is how many calls of sesc_wait are ahead of the       *)
(* threads that have ended.                                                *)
fresh(e) == e.nWaiting = 0 /\ ~e.doWait /\ e.locked
one(b) == IF b THEN 1 ELSE 0
waits(p, e) ==
  /\ e.nWaiting = returned[p] + one(pc[p] = "block") - Cardinality(joined(p))
  /\ pc[p] # "block" => ~e.doWait /\ e.locked
  /\ pc[p] = "block" => (e.doWait <=> e.locked) /\ (~e.locked => e.nWaiting <= 0)

Waiting ==
  /\ \A p \in Pids : pc[p] \in {"none", "start", "free"} => returned[p] = 0 /\ children(p) = {}
  /\ \A c \in Pids : pc[c] = "start" => \A s \in entriesOf(c) : fresh(table[s])
  /\ \A c \in Pids : pc[c] = "free" => fresh(table[own[c]])
  /\ ~aborted => \A p \in Pids : inRoutine(p) => waits(p, table[own[p]])
  /\ \A p \in Others : returned[p] <= Cardinality(joined(p))
  /\ \A p \in Others : pc[p] \in Past => joined(p) = children(p)

IInv == Typed /\ Entries /\ Arguments /\ CallStacks /\ Family /\ Counts /\ Waiting /\ WaitJoins
-----------------------------------------------------------------------------
(***************************************************************************)
(* Searching the table                                                     *)
(***************************************************************************)
(* A set of naturals has a least element.                                  *)
LEMMA LeastNatural ==
  ASSUME NEW S \in SUBSET Nat, S # {}
  PROVE  \E x \in S : \A y \in S : x <= y
  <1>1. PICK x \in S : \A y \in S : <<y, x>> \notin OpToRel(<, Nat)
    BY NatLessThanWellFounded, WFMin
  <1>2. ASSUME NEW y \in S, y < x
        PROVE  <<y, x>> \in OpToRel(<, Nat)
    <2>1. <<y, x>> \in Nat \X Nat /\ <<y, x>>[1] = y /\ <<y, x>>[2] = x
      OBVIOUS
    <2> QED BY <1>2, <2>1 DEF OpToRel
  <1>3. \A y \in S : ~(y < x)
    BY <1>1, <1>2
  <1> QED BY <1>3

(* Every slot is tried.                                                    *)
LEMMA ProbeReaches ==
  ASSUME Parameters, NEW p \in Nat, NEW s \in Slots
  PROVE  \E i \in Slots : probe(p, i) = s
  <1> DEFINE n == SESC_TABLESIZE
             q == p \div n
             r == p % n
             i == IF s >= r THEN s - r ELSE s - r + n
  <1>1. n \in Nat \ {0} /\ s \in 0 .. n - 1
    BY DEF Parameters, Slots
  <1>2. q \in Nat /\ r \in 0 .. n - 1 /\ p = n * q + r
    BY <1>1
  <1>3. i \in 0 .. n - 1 /\ (p + i = n * q + s \/ p + i = n * (q + 1) + s)
    BY <1>1, <1>2
  <1>4. ASSUME NEW m \in Nat, NEW k \in Nat, m = n * k + s PROVE m % n = s
    BY <1>1, <1>4
  <1>5. (p + i) % n = s
    <2>1. p + i \in Nat /\ q + 1 \in Nat
      BY <1>1, <1>2, <1>3
    <2> HIDE DEF n, q, r, i
    <2> QED BY <1>2, <1>3, <1>4, <2>1
  <1> HIDE DEF i
  <1> QED BY <1>3, <1>5 DEF probe, Slots

(* A search ends at one of the entries looked for, if there is one.        *)
LEMMA FirstOf ==
  ASSUME Parameters, NEW p \in Nat, NEW good \in SUBSET Slots
  PROVE  /\ good = {} => firstOf(p, good) = NoSlot
         /\ good # {} => firstOf(p, good) \in good
         /\ firstOf(p, good) \in Slots \cup {NoSlot} /\ NoSlot \notin Slots
  <1> DEFINE S == {i \in Slots : probe(p, i) \in good}
             Q(i) == probe(p, i) \in good /\ \A j \in 0 .. i - 1 : probe(p, j) \notin good
  <1>1. NoSlot \notin Slots /\ Slots \in SUBSET Nat
    BY DEF NoSlot, Slots, Parameters
  <1>2. ASSUME good # {} PROVE firstOf(p, good) \in good
    <2>1. S # {}
      BY <1>2, ProbeReaches
    <2>2. PICK i \in S : \A j \in S : i <= j
      BY <1>1, <2>1, LeastNatural
    <2>3. i \in Slots /\ \A j \in 0 .. i - 1 : j \in Slots
      BY <2>2 DEF Slots, Parameters
    <2>4. Q(i)
      BY <1>1, <2>2, <2>3
    <2>5. Q(CHOOSE k \in Slots : Q(k))
      <3> HIDE DEF Q
      <3> QED BY <2>3, <2>4
    <2> QED BY <1>2, <2>5 DEF firstOf
  <1>3. good = {} => firstOf(p, good) = NoSlot
    BY DEF firstOf
  <1> QED BY <1>1, <1>2, <1>3

(* There are more pids to try than slots, so one of them is in no entry.   *)
LEMMA FakePid ==
  ASSUME Parameters, Typed, NEW p \in Pids
  PROVE  fakePid(p) \in Nat \ Pids
  <1> DEFINE I == 1 .. SESC_TABLESIZE + 1
             new(i) == entriesOf(p + Offset + i) = {}
             S == {i \in I : new(i)}
             slot == [i \in I |-> CHOOSE s \in Slots : s \in entriesOf(p + Offset + i)]
  <1>1. SESC_TABLESIZE \in Nat \ {0} /\ p \in Nat /\ Offset \in Nat
    BY DEF Parameters
  <1>2. S # {}
    <2> SUFFICES ASSUME S = {} PROVE FALSE
      OBVIOUS
    <2>1. \A i \in I : slot[i] \in Slots /\ slot[i] \in entriesOf(p + Offset + i)
      BY DEF entriesOf
    <2>2. slot \in [I -> Slots]
      BY <2>1
    <2>3. /\ IsFiniteSet(I) /\ Cardinality(I) = SESC_TABLESIZE + 1
          /\ IsFiniteSet(Slots) /\ Cardinality(Slots) = SESC_TABLESIZE
      <3>1. IsFiniteSet(I) /\ Cardinality(I) = SESC_TABLESIZE + 1
        BY <1>1, FS_Interval
      <3>2. IsFiniteSet(Slots) /\ Cardinality(Slots) = SESC_TABLESIZE
        BY <1>1, FS_Interval DEF Slots
      <3> QED BY <3>1, <3>2
    <2> HIDE DEF slot
    <2>4. PICK i, j \in I : i # j /\ slot[i] = slot[j]
      BY <1>1, <2>2, <2>3, FS_PigeonHole
    <2>5. table[slot[i]].nPid = p + Offset + i /\ table[slot[j]].nPid = p + Offset + j
      BY <2>1 DEF entriesOf
    <2> QED BY <1>1, <2>4, <2>5
  <1>3. PICK i \in S : \A j \in S : i <= j
    <2>1. S \in SUBSET Nat
      BY <1>1
    <2> QED BY <1>2, <2>1, LeastNatural
  <1>4. i \in I /\ new(i) /\ \A j \in 1 .. i - 1 : ~new(j)
    BY <1>1, <1>3
  <1>5. PICK k \in I : fakePid(p) = p + Offset + k
    <2>1. \E k \in I : new(k) /\ \A j \in 1 .. k - 1 : ~new(j)
      BY <1>4
    <2> QED BY <2>1 DEF fakePid
  <1> QED BY <1>1, <1>5 DEF Parameters
-----------------------------------------------------------------------------
(***************************************************************************)
(* What a change of the table does to its entries                          *)
(***************************************************************************)
(* The fields that say whose entry it is stay.                             *)
sameOwner(x) ==
  /\ table'[x].inUse = table[x].inUse /\ table'[x].nPid = table[x].nPid
  /\ table'[x].ppid = table[x].ppid /\ table'[x].thr = table[x].thr

LEMMA OwnersStay ==
  ASSUME \A x \in Slots : sameOwner(x)
  PROVE  \A q : entriesOf(q)' = entriesOf(q)
  BY DEF entriesOf, sameOwner

(* An entry is given back.                                                 *)
LEMMA EntryFreed ==
  ASSUME Typed, NEW s \in Slots, table' = [table EXCEPT ![s].inUse = FALSE]
  PROVE  /\ table' \in [Slots -> Entry]
         /\ \A q : entriesOf(q)' = entriesOf(q) \ {s}
         /\ \A x \in Slots : x # s => table'[x] = table[x]
         /\ \A x \in Slots : table'[x].nPid = table[x].nPid /\ table'[x].ppid = table[x].ppid
                             /\ table'[x].thr = table[x].thr
  <1>1. table[s] \in Entry /\ table \in [Slots -> Entry]
    BY DEF Typed
  <1>2. table' \in [Slots -> Entry]
    BY <1>1 DEF Entry
  <1>3. \A x \in Slots : x # s => table'[x] = table[x]
    BY <1>1
  <1>4. \A x \in Slots : table'[x].nPid = table[x].nPid /\ table'[x].ppid = table[x].ppid
                         /\ table'[x].thr = table[x].thr
    BY <1>1 DEF Entry
  <1>5. table'[s].inUse = FALSE
    BY <1>1 DEF Entry
  <1>6. ASSUME NEW q PROVE entriesOf(q)' = entriesOf(q) \ {s}
    BY <1>3, <1>5 DEF entriesOf
  <1> QED BY <1>2, <1>3, <1>4, <1>6

(* A free slot becomes an entry of q, whose parent is x.                   *)
makes(s, q, x) ==
  /\ s = freeFor(q) /\ s # NoSlot
  /\ table' = [table EXCEPT ![s] = [newEntry(s, q) EXCEPT !.ppid = x]]

LEMMA EntryMade ==
  ASSUME Typed, Parameters, NEW q \in Nat, NEW x \in Pids, NEW s, makes(s, q, x)
  PROVE  /\ s \in Slots /\ ~table[s].inUse
         /\ table' \in [Slots -> Entry]
         /\ \A r : entriesOf(r)' = IF r = q THEN entriesOf(r) \cup {s} ELSE entriesOf(r)
         /\ \A r : s \notin entriesOf(r)
         /\ \A y \in Slots : y # s => table'[y] = table[y]
         /\ \A y \in Slots : table'[y].thr = table[y].thr
         /\ fresh(table'[s]) /\ table'[s].inUse /\ table'[s].nPid = q /\ table'[s].ppid = x
  <1>1. s \in Slots /\ ~table[s].inUse
    <2>1. {y \in Slots : ~table[y].inUse} \in SUBSET Slots
      OBVIOUS
    <2> QED BY <2>1, FirstOf DEF freeFor, makes
  <1>2. table[s] \in Entry /\ table \in [Slots -> Entry]
    BY <1>1 DEF Typed
  <1>4. table'[s] = [newEntry(s, q) EXCEPT !.ppid = x]
    BY <1>1, <1>2 DEF makes
  <1>5. /\ table'[s] \in Entry /\ table'[s].thr = table[s].thr
        /\ fresh(table'[s]) /\ table'[s].inUse /\ table'[s].nPid = q /\ table'[s].ppid = x
    <2> DEFINE n == newEntry(s, q)
    <2>1. /\ n \in Entry /\ n.thr = table[s].thr
          /\ n.nWaiting = 0 /\ ~n.doWait /\ n.locked /\ n.inUse /\ n.nPid = q
      <3>1. PICK e \in Entry : e = table[s]
        BY <1>2
      <3>2. n = [e EXCEPT !.inUse = TRUE, !.nPid = q, !.nWaiting = 0, !.doWait = FALSE, !.locked = TRUE]
        BY <3>1 DEF newEntry
      <3>3. n = [inUse |-> TRUE, nPid |-> q, ppid |-> e.ppid, thr |-> e.thr,
                 nWaiting |-> 0, doWait |-> FALSE, locked |-> TRUE]
        BY <3>2 DEF Entry
      <3> HIDE DEF n
      <3> QED BY <3>1, <3>3 DEF Entry
    <2> HIDE DEF n
    <2>2. table'[s] = [n EXCEPT !.ppid = x]
      BY <1>4 DEF n
    <2> QED BY <2>1, <2>2 DEF fresh, Entry
  <1>6. \A y \in Slots : y # s => table'[y] = table[y]
    BY <1>2 DEF makes
  <1>7. table' \in [Slots -> Entry]
    BY <1>1, <1>2, <1>4, <1>5 DEF makes
  <1>8. \A r : s \notin entriesOf(r)
    BY <1>1 DEF entriesOf
  <1>9. ASSUME NEW r
        PROVE  entriesOf(r)' = IF r = q THEN entriesOf(r) \cup {s} ELSE entriesOf(r)
    BY <1>1, <1>5, <1>6 DEF entriesOf
  <1>10. \A y \in Slots : table'[y].thr = table[y].thr
    BY <1>5, <1>6
  <1> QED BY <1>1, <1>5, <1>6, <1>7, <1>8, <1>9, <1>10

(* What a thread finds under a pid is that pid's entry.                    *)
LEMMA Found ==
  ASSUME Parameters, NEW q \in Nat
  PROVE  /\ entriesOf(q) = {} <=> TableFindEntry(q) = NoSlot
         /\ entriesOf(q) # {} => TableFindEntry(q) \in entriesOf(q)
         /\ TableFindEntry(q) \in Slots \cup {NoSlot} /\ NoSlot \notin Slots
         /\ entriesOf(q) \in SUBSET Slots
  <1>1. entriesOf(q) \in SUBSET Slots
    BY DEF entriesOf
  <1> QED BY <1>1, FirstOf DEF TableFindEntry

(* An entry has one owner.                                                 *)
LEMMA OneOwner ==
  ASSUME NEW p, NEW q, NEW s, s \in entriesOf(p), s \in entriesOf(q)
  PROVE  p = q
  BY DEF entriesOf
-----------------------------------------------------------------------------
(***************************************************************************)
(* Counting threads                                                        *)
(***************************************************************************)
LEMMA Counted ==
  ASSUME Parameters, NEW S \in SUBSET Pids
  PROVE  IsFiniteSet(S) /\ Cardinality(S) \in Nat
  BY FS_Subset, FS_CardinalityType DEF Parameters

LEMMA OneMore ==
  ASSUME Parameters, NEW S \in SUBSET Pids, NEW p \in Pids
  PROVE  /\ p \notin S => Cardinality(S \cup {p}) = Cardinality(S) + 1
         /\ p \in S => Cardinality(S \ {p}) = Cardinality(S) - 1
  BY Counted, FS_AddElement, FS_RemoveElement

LEMMA Included ==
  ASSUME Parameters, NEW S \in SUBSET Pids, NEW T \in SUBSET S
  PROVE  Cardinality(T) <= Cardinality(S) /\ (Cardinality(T) = Cardinality(S) => T = S)
  BY Counted, FS_Subset
-----------------------------------------------------------------------------
(***************************************************************************)
(* A thread goes on                                                        *)
(***************************************************************************)
(* p goes to l; none is created.                                           *)
moves(p, l) == goTo(p, l) /\ parent' = parent /\ l \in Where \ {"none"} /\ pc[p] # "none"

LEMMA Moved ==
  ASSUME Typed, NEW p \in Pids, NEW l, moves(p, l)
  PROVE  /\ pc' \in [Pids -> Where] /\ pc'[p] = l
         /\ \A q \in Pids : q # p => pc'[q] = pc[q]
         /\ \A q \in Pids : pc'[q] = "none" <=> pc[q] = "none"
         /\ \A q : children(q)' = children(q)
  <1>1. /\ pc' \in [Pids -> Where] /\ pc'[p] = l
        /\ \A q \in Pids : q # p => pc'[q] = pc[q]
    BY DEF Typed, moves, goTo
  <1>2. \A q \in Pids : pc'[q] = "none" <=> pc[q] = "none"
    BY <1>1 DEF moves
  <1>3. ASSUME NEW q PROVE children(q)' = children(q)
    BY <1>2 DEF children, moves, Others
  <1> QED BY <1>1, <1>2, <1>3

(* It stays in the part of its life it is in.                              *)
sameLife(q) ==
  /\ pc'[q] = "none" <=> pc[q] = "none"
  /\ pc'[q] \in {"start", "free"} \cup Routine <=> pc[q] \in {"start", "free"} \cup Routine
  /\ pc[q] \in Routine => pc'[q] \in Routine
  /\ pc'[q] \in Past <=> pc[q] \in Past
  /\ pc'[q] \in {"drop", "done"} <=> pc[q] \in {"drop", "done"}
  /\ q = Root => (pc'[q] = "done" <=> pc[q] = "done")

LEMMA LivesStay ==
  ASSUME Typed, Family, Parameters, parent' = parent, \A q \in Pids : sameLife(q)
  PROVE  /\ Family' /\ unfinished' = unfinished
         /\ \A q : children(q)' = children(q) /\ ended(q)' = ended(q) /\ joined(q)' = joined(q)
  <1>1. \A q : children(q)' = children(q)
    BY DEF children, sameLife, Others
  <1>2. \A q : ended(q)' = ended(q) /\ joined(q)' = joined(q)
    BY <1>1 DEF ended, joined, children, sameLife, Others
  <1>3. unfinished' = unfinished
    BY DEF unfinished, sameLife, Others
  <1>4. {c \in Others : pc'[c] # "none"} = {c \in Others : pc[c] # "none"}
    BY DEF sameLife, Others
  <1>5. Root \in Pids /\ Others \in SUBSET Pids /\ \A q \in Pids : parent[q] \in Pids
    BY DEF Parameters, Others, Typed
  <1>6. \A q \in Pids : inRoutine(q) => inRoutine(q)'
    BY DEF sameLife, inRoutine, Routine
  <1>7. pc'[Root] \in Routine \cup {"done"} /\ parent'[Root] = Root
    BY <1>5 DEF Family, sameLife
  <1>8. \A c \in Others : pc'[c] # "none" => pc'[parent'[c]] # "none"
    BY <1>5 DEF Family, sameLife
  <1>9. \A c \in Others : pc'[c] \notin {"none", "drop", "done"} =>
          inRoutine(parent[c])' \/ parent'[c] = Root
    BY <1>5, <1>6 DEF Family, sameLife
  <1>10. pc'[Root] = "done" => unfinished' = {}
    BY <1>3, <1>5 DEF Family, sameLife
  <1> QED BY <1>1, <1>2, <1>3, <1>4, <1>7, <1>8, <1>9, <1>10 DEF Family

(* No entry changes hands.                                                 *)
LEMMA OwnersKept ==
  ASSUME Typed, Entries, Arguments, Parameters, \A x \in Slots : sameOwner(x),
         own' = own, arg' = arg, parent' = parent,
         \A q \in Pids : /\ hasEntry(q)' => hasEntry(q)
                         /\ pc'[q] = "none" <=> pc[q] = "none"
                         /\ pc'[q] = "start" => pc[q] = "start"
                         /\ pc'[q] = "free" => pc[q] = "free"
                         /\ q \in spawning' => q \in spawning /\ tf'[q] = tf[q]
  PROVE  Entries' /\ Arguments'
  <1>1. \A q : entriesOf(q)' = entriesOf(q)
    BY OwnersStay
  <1>2. \A p \in Pids : own[p] \in Slots => table'[own[p]].ppid = table[own[p]].ppid
    BY DEF sameOwner
  <1>3. \A p \in Pids : hasEntry(p) => own[p] \in Slots
    BY DEF Entries, entriesOf
  <1>4. Entries'
    <2>1. \A p \in Pids : hasEntry(p)' =>
            entriesOf(p)' = {own'[p]} /\ table'[own'[p]].ppid = parent'[p]
      BY <1>1, <1>2, <1>3 DEF Entries
    <2>2. \A p \in Pids : pc'[p] = "none" => entriesOf(p)' = {}
      BY <1>1 DEF Entries
    <2>3. \A c \in Pids : pc'[c] = "start" =>
            \A s \in entriesOf(c)' : entriesOf(c)' = {s} /\ table'[s].ppid = parent'[c]
      BY <1>1 DEF Entries, entriesOf, sameOwner
    <2> QED BY <2>1, <2>2, <2>3 DEF Entries
  <1>5. Arguments'
    <2>1. starting' \in SUBSET starting /\ spawning' \in SUBSET spawning
      BY DEF starting, spawning
    <2>2. \A s, p : Passing(s, p) => Passing(s, p)'
      BY DEF Passing, sameOwner
    <2>3. \A s \in Slots : table'[s].thr = table[s].thr /\ table[s].thr \in Pids
      BY DEF sameOwner, Typed, Entry
    <2>4. \A s \in Slots : pc'[table'[s].thr] # "none"
      BY <2>3 DEF Arguments
    <2>5. \A s \in Slots : pc'[table'[s].thr] = "start" => s = arg'[table'[s].thr]
      BY <2>3 DEF Arguments
    <2>6. \A p \in spawning' : Passing(tf[p], p)' /\ tf'[p] = tf[p]
      <3>1. \A p \in spawning' : Passing(tf[p], p) /\ tf'[p] = tf[p]
        BY <2>1 DEF Arguments, spawning
      <3> QED BY <3>1 DEF Passing, sameOwner
    <2>7. \A c \in starting' : Passing(arg[c], parent[c])'
      <3>1. \A c \in starting' : Passing(arg[c], parent[c])
        BY <2>1 DEF Arguments
      <3> QED BY <3>1 DEF Passing, sameOwner
    <2> QED BY <2>1, <2>4, <2>5, <2>6, <2>7 DEF Arguments
  <1> QED BY <1>4, <1>5

(* No entry is waited at or used up by this step.                          *)
LEMMA WaitsKept ==
  ASSUME Typed, Entries, Waiting, Parameters, own' = own, returned' = returned, aborted' = aborted,
         \A q \in Pids : /\ children(q)' = children(q)
                         /\ q \in Others \/ inRoutine(q) => joined(q)' = joined(q),
         \A q \in Pids : /\ pc'[q] \in {"none", "start", "free"} => pc[q] \in {"none", "start", "free"}
                         /\ pc'[q] = "start" => pc[q] = "start"
                         /\ pc'[q] = "free" => pc[q] = "free"
                         /\ inRoutine(q)' => inRoutine(q)
                         /\ pc'[q] = "block" <=> pc[q] = "block"
                         /\ pc'[q] \in Past => pc[q] \in Past \/ joined(q) = children(q)
                         /\ pc[q] = "start" => \A s \in entriesOf(q)' :
                                                  s \in entriesOf(q) \/ fresh(table'[s]),
         \A q \in Pids, s \in Slots :
           s \in entriesOf(q) /\ pc[q] \notin {"none", "drop", "done"} => table'[s] = table[s]
  PROVE  Waiting'
  <1>1. \A q \in Pids : hasEntry(q) => own[q] \in Slots /\ own[q] \in entriesOf(q)
    BY DEF Entries, entriesOf
  <1>2. \A q \in Pids : inRoutine(q) \/ pc[q] = "free" => table'[own[q]] = table[own[q]]
    BY <1>1 DEF hasEntry, inRoutine, Routine
  <1>3. \A p \in Pids : pc'[p] \in {"none", "start", "free"} => returned'[p] = 0 /\ children(p)' = {}
    BY DEF Waiting
  <1>4. \A c \in Pids : pc'[c] = "start" => \A s \in entriesOf(c)' : fresh(table'[s])
    BY DEF Waiting, entriesOf
  <1>5. \A c \in Pids : pc'[c] = "free" => fresh(table'[own'[c]])
    BY <1>2 DEF Waiting
  <1>6. ~aborted' => \A p \in Pids : inRoutine(p)' => waits(p, table[own[p]])'
    <2>1. \A p \in Pids : inRoutine(p) => table'[own'[p]] = table[own[p]]
      BY <1>2
    <2> QED BY <2>1 DEF Waiting, waits, one
  <1>7. Others \in SUBSET Pids
    BY DEF Others
  <1>8. /\ \A p \in Others : returned'[p] <= Cardinality(joined(p)')
        /\ \A p \in Others : pc'[p] \in Past => joined(p)' = children(p)'
    BY <1>7 DEF Waiting
  <1> QED BY <1>3, <1>4, <1>5, <1>6, <1>8 DEF Waiting
-----------------------------------------------------------------------------
(***************************************************************************)
(* sesc_spawn                                                              *)
(***************************************************************************)
(* The spawner returns.                                                    *)
LEMMA SpawnReturnStep ==
  ASSUME IInv, Parameters, NEW p \in Pids, spawnReturn(p)
  PROVE  IInv'
  <1>1. moves(p, "run") /\ pc[p] = "return" /\ Typed /\ table' = table
    BY DEF IInv, moves, spawnReturn, Where, at, Family, Parameters
  <1>2. /\ pc' \in [Pids -> Where] /\ pc'[p] = "run"
        /\ \A q \in Pids : q # p => pc'[q] = pc[q]
    BY <1>1, Moved
  <1>3. \A q \in Pids : sameLife(q)
    BY <1>1, <1>2 DEF sameLife, Routine, Past
  <1>4. Typed'
    BY <1>1, <1>2 DEF Typed, spawnReturn
  <1>5. /\ Family' /\ unfinished' = unfinished
        /\ \A q : children(q)' = children(q) /\ ended(q)' = ended(q) /\ joined(q)' = joined(q)
    BY <1>1, <1>3, LivesStay DEF IInv, moves
  <1>6. Entries' /\ Arguments'
    <2>1. \A x \in Slots : sameOwner(x)
      BY <1>1 DEF sameOwner
    <2>2. \A q \in Pids : /\ hasEntry(q)' => hasEntry(q)
                          /\ pc'[q] = "none" <=> pc[q] = "none"
                          /\ pc'[q] = "start" => pc[q] = "start"
                          /\ pc'[q] = "free" => pc[q] = "free"
                          /\ q \in spawning' => q \in spawning /\ tf'[q] = tf[q]
      BY <1>1, <1>2 DEF hasEntry, Routine, spawning, spawnReturn
    <2> QED BY <2>1, <2>2, OwnersKept DEF IInv, spawnReturn
  <1>7. CallStacks'
    BY <1>1, <1>2 DEF IInv, CallStacks, spawnReturn, Parameters, Typed
  <1>8. Counts'
    <2>1. creating' = creating /\ spawning' = spawning
          /\ {c \in Pids : pc'[c] = "none"} = {c \in Pids : pc[c] = "none"}
      BY <1>1, <1>2 DEF creating, spawning
    <2> QED BY <1>5, <2>1 DEF IInv, Counts, spawnReturn
  <1>9. Waiting'
    <2>1. \A q \in Pids : /\ pc'[q] \in {"none", "start", "free"} => pc[q] \in {"none", "start", "free"}
                          /\ pc'[q] = "start" => pc[q] = "start"
                          /\ pc'[q] = "free" => pc[q] = "free"
                          /\ inRoutine(q)' => inRoutine(q)
                          /\ pc'[q] = "block" <=> pc[q] = "block"
                          /\ pc'[q] \in Past => pc[q] \in Past
      BY <1>1, <1>2 DEF inRoutine, Past
    <2>2. \A q : entriesOf(q)' = entriesOf(q)
      BY <1>1 DEF entriesOf
    <2> QED BY <1>1, <1>5, <2>1, <2>2, WaitsKept DEF IInv, spawnReturn
  <1>10. WaitJoins'
    BY DEF IInv, WaitJoins, spawnReturn
  <1> QED BY <1>4, <1>5, <1>6, <1>7, <1>8, <1>9, <1>10 DEF IInv

(* The new thread is counted.                                              *)
LEMMA SpawnCountStep ==
  ASSUME IInv, Parameters, NEW p \in Pids, spawnCount(p)
  PROVE  IInv'
  <1>1. moves(p, "create") /\ pc[p] = "count" /\ Typed /\ table' = table
    BY DEF IInv, moves, spawnCount, Where, at, Family, Parameters
  <1>2. /\ pc' \in [Pids -> Where] /\ pc'[p] = "create"
        /\ \A q \in Pids : q # p => pc'[q] = pc[q]
    BY <1>1, Moved
  <1>3. \A q \in Pids : sameLife(q)
    BY <1>1, <1>2 DEF sameLife, Routine, Past
  <1>4. Typed'
    BY <1>1, <1>2 DEF Typed, spawnCount
  <1>5. /\ Family' /\ unfinished' = unfinished
        /\ \A q : children(q)' = children(q) /\ ended(q)' = ended(q) /\ joined(q)' = joined(q)
    BY <1>1, <1>3, LivesStay DEF IInv, moves
  <1>6. Entries' /\ Arguments'
    <2>1. \A x \in Slots : sameOwner(x)
      BY <1>1 DEF sameOwner
    <2>2. \A q \in Pids : /\ hasEntry(q)' => hasEntry(q)
                          /\ pc'[q] = "none" <=> pc[q] = "none"
                          /\ pc'[q] = "start" => pc[q] = "start"
                          /\ pc'[q] = "free" => pc[q] = "free"
                          /\ q \in spawning' => q \in spawning /\ tf'[q] = tf[q]
      BY <1>1, <1>2 DEF hasEntry, Routine, spawning, spawnCount
    <2> QED BY <2>1, <2>2, OwnersKept DEF IInv, spawnCount
  <1>7. CallStacks'
    BY <1>1, <1>2 DEF IInv, CallStacks, spawnCount, Parameters, Typed
  <1>8. Counts'
    <2>1. creating' = creating \cup {p} /\ p \notin creating /\ spawning' = spawning
          /\ {c \in Pids : pc'[c] = "none"} = {c \in Pids : pc[c] = "none"}
      BY <1>1, <1>2 DEF creating, spawning
    <2>2. creating \in SUBSET Pids /\ unfinished \in SUBSET Pids
      BY DEF creating, unfinished, Others
    <2>3. Cardinality(creating') = Cardinality(creating) + 1 /\ Cardinality(creating) \in Nat
          /\ Cardinality(unfinished) \in Nat
      BY <2>1, <2>2, OneMore, Counted
    <2> QED BY <1>1, <1>5, <2>1, <2>3 DEF IInv, Counts, spawnCount
  <1>9. Waiting'
    <2>1. \A q \in Pids : /\ pc'[q] \in {"none", "start", "free"} => pc[q] \in {"none", "start", "free"}
                          /\ pc'[q] = "start" => pc[q] = "start"
                          /\ pc'[q] = "free" => pc[q] = "free"
                          /\ inRoutine(q)' => inRoutine(q)
                          /\ pc'[q] = "block" <=> pc[q] = "block"
                          /\ pc'[q] \in Past => pc[q] \in Past
      BY <1>1, <1>2 DEF inRoutine, Past
    <2>2. \A q : entriesOf(q)' = entriesOf(q)
      BY <1>1 DEF entriesOf
    <2> QED BY <1>1, <1>5, <2>1, <2>2, WaitsKept DEF IInv, spawnCount
  <1>10. WaitJoins'
    BY DEF IInv, WaitJoins, spawnCount
  <1> QED BY <1>4, <1>5, <1>6, <1>7, <1>8, <1>9, <1>10 DEF IInv

(* An entry is made for the arguments.                                     *)
LEMMA SpawnStep ==
  ASSUME IInv, Parameters, NEW p \in Pids, spawn(p)
  PROVE  IInv'
  <1>0. PICK pid, s : pid = fakePid(p) /\ s = freeFor(pid)
    OBVIOUS
  <1>1. moves(p, "count") /\ pc[p] = "run" /\ Typed
    BY DEF IInv, moves, spawn, Where, at, Family, Parameters
  <1>2. /\ pc' \in [Pids -> Where] /\ pc'[p] = "count"
        /\ \A q \in Pids : q # p => pc'[q] = pc[q]
    BY <1>1, Moved
  <1>3. \A q \in Pids : sameLife(q)
    BY <1>1, <1>2 DEF sameLife, Routine, Past
  <1>4. pid \in Nat \ Pids
    BY <1>0, <1>1, FakePid
  <1>5. /\ s # NoSlot /\ tf' = [tf EXCEPT ![p] = s]
        /\ table' = [table EXCEPT ![s] = [newEntry(s, pid) EXCEPT !.ppid = p]]
    BY <1>0 DEF spawn
  <1>6. /\ s \in Slots /\ ~table[s].inUse
        /\ table' \in [Slots -> Entry]
        /\ \A r : entriesOf(r)' = IF r = pid THEN entriesOf(r) \cup {s} ELSE entriesOf(r)
        /\ \A r : s \notin entriesOf(r)
        /\ \A y \in Slots : y # s => table'[y] = table[y]
        /\ \A y \in Slots : table'[y].thr = table[y].thr
        /\ table'[s].inUse /\ table'[s].nPid = pid /\ table'[s].ppid = p
    <2>1. makes(s, pid, p)
      BY <1>0, <1>5 DEF makes
    <2> QED BY <1>1, <1>4, <2>1, EntryMade
  <1>7. /\ \A q \in Pids : entriesOf(q)' = entriesOf(q)
        /\ \A q \in Pids : \A x \in entriesOf(q) : table'[x] = table[x] /\ x \in Slots
    BY <1>4, <1>6 DEF entriesOf
  <1>8. tf' \in [Pids -> Slots \cup {NoSlot}] /\ tf'[p] = s /\ \A q \in Pids : q # p => tf'[q] = tf[q]
    BY <1>1, <1>5, <1>6 DEF Typed
  <1>9. Typed'
    BY <1>1, <1>2, <1>6, <1>8 DEF Typed, spawn
  <1>10. /\ Family' /\ unfinished' = unfinished
         /\ \A q : children(q)' = children(q) /\ ended(q)' = ended(q) /\ joined(q)' = joined(q)
    BY <1>1, <1>3, LivesStay DEF IInv, moves
  <1>11. Entries'
    <2>1. \A q \in Pids : hasEntry(q)' <=> hasEntry(q)
      BY <1>1, <1>2 DEF hasEntry, Routine
    <2>2. \A q \in Pids : pc'[q] \in {"none", "start"} => pc'[q] = pc[q]
      BY <1>1, <1>2
    <2>3. own' = own /\ parent' = parent
      BY DEF spawn
    <2> QED BY <1>7, <2>1, <2>2, <2>3 DEF IInv, Entries
  <1>12. Arguments'
    <2>1. spawning' = spawning \cup {p} /\ p \notin spawning /\ starting' = starting
      BY <1>1, <1>2 DEF spawning, starting
    <2>2. arg' = arg /\ parent' = parent
      BY DEF spawn
    <2>3. \A x, q : Passing(x, q) => Passing(x, q)' /\ x # s
      BY <1>6 DEF Passing
    <2>4. Passing(s, p)'
      BY <1>4, <1>6 DEF Passing
    <2>5. /\ \A q \in spawning : Passing(tf[q], q) /\ tf'[q] = tf[q]
          /\ \A c \in starting : Passing(arg[c], parent[c])
      BY <1>8, <2>1 DEF IInv, Arguments, spawning
    <2>6. /\ \A q \in spawning : Passing(tf[q], q)' /\ tf'[q] # s
          /\ \A c \in starting : Passing(arg[c], parent[c])' /\ arg'[c] # s
      BY <2>2, <2>3, <2>5 DEF Passing
    <2>7. \A x \in Slots : table'[x].thr = table[x].thr /\ table[x].thr \in Pids
      BY <1>1, <1>6 DEF Typed, Entry
    <2>8. \A x \in Slots : /\ pc'[table'[x].thr] # "none"
                           /\ pc'[table'[x].thr] = "start" => x = arg'[table'[x].thr]
      BY <1>1, <1>2, <2>2, <2>7 DEF IInv, Arguments
    <2>9. \A q \in spawning' : Passing(tf[q], q)'
      BY <1>8, <2>1, <2>4, <2>6 DEF Passing
    <2>10. \A q, r \in spawning' : tf'[q] = tf'[r] => q = r
      BY <1>8, <2>1, <2>5, <2>6 DEF IInv, Arguments
    <2>11. \A q \in spawning', c \in starting' : tf'[q] # arg'[c]
      BY <1>8, <2>1, <2>2, <2>5, <2>6 DEF IInv, Arguments
    <2>12. \A c, e \in starting' : arg'[c] = arg'[e] => c = e
      BY <2>1, <2>2 DEF IInv, Arguments
    <2>13. \A c \in starting' : Passing(arg[c], parent[c])'
      BY <2>1, <2>6
    <2> QED BY <2>8, <2>9, <2>10, <2>11, <2>12, <2>13 DEF Arguments
  <1>13. CallStacks'
    BY <1>1, <1>2, <1>8 DEF IInv, CallStacks, spawn, Parameters, Typed
  <1>14. Counts'
    <2> DEFINE N == {c \in Pids : pc[c] = "none"}
    <2>1. /\ creating' = creating /\ spawning' = spawning \cup {p} /\ p \notin spawning
          /\ N' = N
          /\ spawning = {q \in Pids : pc[q] \in {"count", "create"}}
      BY <1>1, <1>2 DEF creating, spawning
    <2>2. Cardinality(spawning') = Cardinality(spawning) + 1
          /\ Cardinality(spawning) \in Nat /\ Cardinality(N) \in Nat
      BY <2>1, OneMore, Counted
    <2>3. Cardinality(spawning) < Cardinality(N)
      BY <2>1 DEF spawn
    <2>4. Cardinality(spawning') <= Cardinality(N')
      <3> HIDE DEF N
      <3> QED BY <2>1, <2>2, <2>3
    <2>5. /\ nConcurrentThreads' = 1 + Cardinality(unfinished') + Cardinality(creating')
          /\ \A q \in Pids : spawned'[q] = Cardinality(children(q)')
                             /\ finished'[q] = Cardinality(ended(q)')
      BY <1>10, <2>1 DEF IInv, Counts, spawn
    <2> QED BY <2>4, <2>5 DEF Counts
  <1>15. Waiting'
    <2>1. \A q \in Pids : /\ pc'[q] \in {"none", "start", "free"} => pc[q] \in {"none", "start", "free"}
                          /\ pc'[q] = "start" => pc[q] = "start"
                          /\ pc'[q] = "free" => pc[q] = "free"
                          /\ inRoutine(q)' => inRoutine(q)
                          /\ pc'[q] = "block" <=> pc[q] = "block"
                          /\ pc'[q] \in Past => pc[q] \in Past
      BY <1>1, <1>2 DEF inRoutine, Past
    <2> QED BY <1>1, <1>7, <1>10, <2>1, WaitsKept DEF IInv, spawn
  <1>16. WaitJoins'
    BY DEF IInv, WaitJoins, spawn
  <1> QED BY <1>9, <1>10, <1>11, <1>12, <1>13, <1>14, <1>15, <1>16 DEF IInv

(* The spawner makes sure that the new thread has an entry.                *)
LEMMA SpawnRegisterStep ==
  ASSUME IInv, Parameters, NEW p \in Pids, spawnRegister(p)
  PROVE  IInv'
  <1>0. PICK thr, s, par : thr = table[tf[p]].thr /\ s = freeFor(thr) /\ par = table[tf[p]].ppid
    OBVIOUS
  <1>1. moves(p, "return") /\ pc[p] = "register" /\ Typed /\ Entries /\ Arguments /\ Waiting
    BY DEF IInv, moves, spawnRegister, Where, at, Family, Parameters
  <1>2. /\ pc' \in [Pids -> Where] /\ pc'[p] = "return"
        /\ \A q \in Pids : q # p => pc'[q] = pc[q]
    BY <1>1, Moved
  <1>3. \A q \in Pids : sameLife(q)
    BY <1>1, <1>2 DEF sameLife, Routine, Past
  <1>4. /\ tf[p] \in Slots /\ thr \in Pids /\ thr \in Nat /\ par \in Pids
        /\ pc[thr] # "none" /\ (pc[thr] = "start" => tf[p] = arg[thr])
    <2>1. tf[p] \in Slots
      BY <1>1 DEF IInv, CallStacks
    <2>2. table[tf[p]] \in Entry
      BY <1>1, <2>1 DEF Typed
    <2> QED BY <1>0, <1>1, <2>1, <2>2 DEF Entry, Arguments, Parameters
  <1>5. \/ table' = table
        \/ entriesOf(thr) = {} /\ makes(s, thr, par)
    <2>1. TableFindEntry(thr) = NoSlot <=> entriesOf(thr) = {}
      BY <1>4, Found
    <2> QED BY <1>0, <2>1 DEF spawnRegister, makeEntry, makes
  <1>8. /\ table' \in [Slots -> Entry] /\ Entries'
        /\ \A x, q : Passing(x, q) => Passing(x, q)'
        /\ \A y \in Slots : table'[y].thr = table[y].thr
        /\ \A q \in Pids, x \in Slots :
             x \in entriesOf(q) /\ pc[q] \notin {"none", "done"} => table'[x] = table[x]
        /\ \A q \in Pids : pc[q] = "start" => \A x \in entriesOf(q)' :
                                                x \in entriesOf(q) \/ fresh(table'[x])
    <2>1. CASE entriesOf(thr) = {} /\ makes(s, thr, par)
      <3>1. /\ s \in Slots /\ ~table[s].inUse
            /\ table' \in [Slots -> Entry]
            /\ \A r : entriesOf(r)' = IF r = thr THEN entriesOf(r) \cup {s} ELSE entriesOf(r)
            /\ \A r : s \notin entriesOf(r)
            /\ \A y \in Slots : y # s => table'[y] = table[y]
            /\ \A y \in Slots : table'[y].thr = table[y].thr
            /\ fresh(table'[s]) /\ table'[s].inUse /\ table'[s].nPid = thr
            /\ table'[s].ppid = par
        BY <1>1, <1>4, <2>1, EntryMade
      <3>2. pc[thr] \in {"start", "done"}
        BY <1>1, <1>4, <2>1 DEF Entries, hasEntry, Typed, Where, Routine
      <3>3. /\ \A q \in Pids : q # thr => entriesOf(q)' = entriesOf(q)
            /\ entriesOf(thr)' = {s}
            /\ \A q \in Pids : \A x \in entriesOf(q) : table'[x] = table[x] /\ x \in Slots
        BY <2>1, <3>1 DEF entriesOf
      <3>4. Entries'
        <4>1. \A q \in Pids : hasEntry(q)' <=> hasEntry(q)
          BY <1>1, <1>2 DEF hasEntry, Routine
        <4>2. \A q \in Pids : pc'[q] \in {"none", "start"} => pc'[q] = pc[q]
          BY <1>1, <1>2
        <4>3. own' = own /\ parent' = parent
          BY DEF spawnRegister
        <4>4. pc[thr] = "start" => table'[s].ppid = parent[thr]
          BY <1>0, <1>1, <1>4, <3>1 DEF Arguments, starting, Passing
        <4>5. ~hasEntry(thr)
          BY <3>2 DEF hasEntry, Routine
        <4>6. \A q \in Pids : hasEntry(q)' => entriesOf(q)' = {own'[q]} /\ table'[own'[q]].ppid = parent'[q]
          BY <1>1, <3>3, <4>1, <4>3, <4>5 DEF Entries
        <4>7. \A q \in Pids : pc'[q] = "none" => entriesOf(q)' = {}
          BY <1>1, <3>2, <3>3, <4>2 DEF Entries
        <4>8. \A c \in Pids : pc'[c] = "start" =>
                \A x \in entriesOf(c)' : entriesOf(c)' = {x} /\ table'[x].ppid = parent'[c]
          BY <1>1, <3>3, <4>2, <4>3, <4>4 DEF Entries
        <4> QED BY <4>6, <4>7, <4>8 DEF Entries
      <3>5. \A x, q : Passing(x, q) => Passing(x, q)'
        BY <3>1 DEF Passing
      <3>6. \A q \in Pids, x \in Slots :
              x \in entriesOf(q) /\ pc[q] \notin {"none", "done"} => table'[x] = table[x]
        BY <3>3
      <3>7. \A q \in Pids : pc[q] = "start" => \A x \in entriesOf(q)' :
                                                 x \in entriesOf(q) \/ fresh(table'[x])
        BY <3>1, <3>3
      <3> QED BY <3>1, <3>4, <3>5, <3>6, <3>7
    <2>2. CASE table' = table
      <3>1. \A q : entriesOf(q)' = entriesOf(q)
        BY <2>2 DEF entriesOf
      <3>2. Entries'
        <4>1. \A q \in Pids : hasEntry(q)' <=> hasEntry(q)
          BY <1>1, <1>2 DEF hasEntry, Routine
        <4>2. \A q \in Pids : pc'[q] \in {"none", "start"} => pc'[q] = pc[q]
          BY <1>1, <1>2
        <4> QED BY <1>1, <2>2, <3>1, <4>1, <4>2 DEF Entries, spawnRegister
      <3>3. \A x, q : Passing(x, q) => Passing(x, q)'
        BY <2>2 DEF Passing
      <3> QED BY <1>1, <2>2, <3>1, <3>2, <3>3 DEF Typed
    <2> QED BY <1>5, <2>1, <2>2
  <1>9. Typed'
    BY <1>1, <1>2, <1>8 DEF Typed, spawnRegister
  <1>10. /\ Family' /\ unfinished' = unfinished
         /\ \A q : children(q)' = children(q) /\ ended(q)' = ended(q) /\ joined(q)' = joined(q)
    BY <1>1, <1>3, LivesStay DEF IInv, moves
  <1>11. Arguments'
    <2>1. spawning' = spawning /\ starting' = starting
      BY <1>1, <1>2 DEF spawning, starting
    <2>2. arg' = arg /\ parent' = parent /\ tf' = tf
      BY DEF spawnRegister
    <2>3. \A x \in Slots : table[x].thr \in Pids
      BY <1>1 DEF Typed, Entry
    <2>4. \A x \in Slots : /\ pc'[table'[x].thr] # "none"
                           /\ pc'[table'[x].thr] = "start" => x = arg'[table'[x].thr]
      BY <1>1, <1>2, <1>8, <2>2, <2>3 DEF Arguments
    <2>5. \A q \in spawning' : Passing(tf[q], q)'
      <3>1. \A q \in spawning' : Passing(tf[q], q)
        BY <1>1, <2>1 DEF Arguments
      <3> QED BY <1>8, <2>2, <3>1 DEF Passing
    <2>6. \A c \in starting' : Passing(arg[c], parent[c])'
      <3>1. \A q \in starting' : Passing(arg[q], parent[q])
        BY <1>1, <2>1 DEF Arguments
      <3> QED BY <1>8, <2>2, <3>1 DEF Passing
    <2> QED BY <1>1, <2>1, <2>2, <2>4, <2>5, <2>6 DEF Arguments
  <1>12. CallStacks'
    BY <1>1, <1>2 DEF IInv, CallStacks, spawnRegister, Parameters, Typed
  <1>13. Counts'
    <2>1. creating' = creating /\ spawning' = spawning
          /\ {c \in Pids : pc'[c] = "none"} = {c \in Pids : pc[c] = "none"}
      BY <1>1, <1>2 DEF creating, spawning
    <2> QED BY <1>10, <2>1 DEF IInv, Counts, spawnRegister
  <1>14. Waiting'
    <2>1. \A q \in Pids : /\ pc'[q] \in {"none", "start", "free"} => pc[q] \in {"none", "start", "free"}
                          /\ pc'[q] = "start" => pc[q] = "start"
                          /\ pc'[q] = "free" => pc[q] = "free"
                          /\ inRoutine(q)' => inRoutine(q)
                          /\ pc'[q] = "block" <=> pc[q] = "block"
                          /\ pc'[q] \in Past => pc[q] \in Past
      BY <1>1, <1>2 DEF inRoutine, Past
    <2> QED BY <1>1, <1>8, <1>10, <2>1, WaitsKept DEF spawnRegister
  <1>15. WaitJoins'
    BY DEF IInv, WaitJoins, spawnRegister
  <1> QED BY <1>9, <1>8, <1>10, <1>11, <1>12, <1>13, <1>14, <1>15 DEF IInv

(* The new thread is created, with the entry of the arguments.             *)
LEMMA SpawnCreateStep ==
  ASSUME IInv, Parameters, NEW p \in Pids, NEW c \in Pids, spawnCreate(p, c)
  PROVE  IInv'
  <1>1. /\ pc[p] = "create" /\ pc[c] = "none" /\ p # c
        /\ Typed /\ Entries /\ Arguments /\ Waiting /\ Family /\ Counts
    BY DEF IInv, spawnCreate, at
  <1>2. c \in Others /\ c # Root /\ Others \in SUBSET Pids /\ Root \in Pids
    BY <1>1 DEF Family, Others, Parameters, Routine
  <1>3. /\ pc' \in [Pids -> Where] /\ pc'[p] = "register" /\ pc'[c] = "start"
        /\ \A q \in Pids : q \notin {p, c} => pc'[q] = pc[q]
    BY <1>1 DEF spawnCreate, Typed, Where
  <1>4. /\ parent' \in [Pids -> Pids] /\ parent'[c] = p
        /\ \A q \in Pids : q # c => parent'[q] = parent[q]
    BY <1>1 DEF spawnCreate, Typed
  <1>5. PICK s \in Slots : s = tf[p] /\ Passing(s, p)
    BY <1>1 DEF Arguments, spawning, Passing
  <1>6. /\ arg' \in [Pids -> Slots \cup {NoSlot}] /\ arg'[c] = s
        /\ \A q \in Pids : q # c => arg'[q] = arg[q]
    BY <1>1, <1>5 DEF spawnCreate, Typed
  <1>7. /\ table' \in [Slots -> Entry] /\ table'[s].thr = c
        /\ \A x \in Slots : x # s => table'[x] = table[x]
        /\ \A x \in Slots : /\ table'[x].inUse = table[x].inUse /\ table'[x].nPid = table[x].nPid
                            /\ table'[x].ppid = table[x].ppid
    <2>1. table' = [table EXCEPT ![s].thr = c] /\ table \in [Slots -> Entry] /\ table[s] \in Entry
      BY <1>1, <1>5 DEF spawnCreate, Typed
    <2> QED BY <2>1 DEF Entry
  <1>8. tf' = tf /\ own' = own /\ returned' = returned /\ finished' = finished /\ aborted' = aborted
        /\ nConcurrentThreads' = nConcurrentThreads
    BY DEF spawnCreate
  <1>9. /\ \A q : entriesOf(q)' = entriesOf(q)
        /\ \A q \in Pids, x \in Slots : x \in entriesOf(q) => table'[x] = table[x]
    BY <1>5, <1>7 DEF entriesOf, Passing
  <1>10. \A q \in Pids : /\ hasEntry(q)' <=> hasEntry(q)
                         /\ inRoutine(q)' <=> inRoutine(q)
                         /\ pc'[q] = "block" <=> pc[q] = "block"
                         /\ pc'[q] \in Past <=> pc[q] \in Past
                         /\ pc'[q] = "free" <=> pc[q] = "free"
    BY <1>1, <1>3 DEF hasEntry, inRoutine, Routine, Past
  <1>11. Typed'
    <2>1. spawned' \in [Pids -> Nat]
      BY <1>1 DEF spawnCreate, Typed
    <2> QED BY <1>1, <1>3, <1>4, <1>6, <1>7, <1>8, <2>1 DEF Typed
  <1>12. /\ children(p)' = children(p) \cup {c} /\ c \notin children(p)
         /\ \A q \in Pids : q # p => children(q)' = children(q)
         /\ \A q \in Pids : ended(q)' = ended(q) /\ joined(q)' = joined(q)
    <2>1. \A x \in Others : x # c => (pc'[x] # "none" <=> pc[x] # "none") /\ parent'[x] = parent[x]
      BY <1>1, <1>2, <1>3, <1>4
    <2>2. /\ children(p)' = children(p) \cup {c} /\ c \notin children(p)
          /\ \A q \in Pids : q # p => children(q)' = children(q)
      BY <1>1, <1>2, <1>3, <1>4, <2>1 DEF children
    <2>3. \A q \in Pids : children(q) \in SUBSET Pids
      BY <1>2 DEF children
    <2> QED BY <1>1, <1>3, <2>2, <2>3 DEF ended, joined, Past
  <1>13. Entries'
    <2>1. \A x \in Pids : hasEntry(x)' => x # c /\ own[x] \in Slots
      BY <1>3, <1>1 DEF hasEntry, Routine, Entries, entriesOf
    <2>2. \A q \in Pids : hasEntry(q)' => entriesOf(q)' = {own'[q]} /\ table'[own'[q]].ppid = parent'[q]
      BY <1>1, <1>4, <1>7, <1>8, <1>9, <1>10, <2>1 DEF Entries
    <2>3. \A q \in Pids : pc'[q] = "none" => entriesOf(q)' = {}
      BY <1>1, <1>3, <1>9 DEF Entries
    <2>4. entriesOf(c) = {}
      BY <1>1 DEF Entries
    <2>5. \A e \in Pids : pc'[e] = "start" =>
            \A x \in entriesOf(e)' : entriesOf(e)' = {x} /\ table'[x].ppid = parent'[e]
      <3> SUFFICES ASSUME NEW e \in Pids, pc'[e] = "start", NEW x \in entriesOf(e)'
                   PROVE  entriesOf(e)' = {x} /\ table'[x].ppid = parent'[e]
        OBVIOUS
      <3>1. e # c /\ e # p
        BY <1>3, <1>9, <2>4
      <3>2. pc[e] = "start" /\ x \in entriesOf(e) /\ x \in Slots
        BY <1>3, <1>9, <3>1 DEF entriesOf
      <3> QED BY <1>1, <1>4, <1>7, <1>9, <3>1, <3>2 DEF Entries
    <2> QED BY <2>2, <2>3, <2>5 DEF Entries
  <1>14. Arguments'
    <2>1. /\ spawning' = spawning \ {p} /\ p \in spawning
          /\ starting' = starting \cup {c} /\ c \notin starting
          /\ spawning \in SUBSET Pids /\ starting \in SUBSET Pids
      BY <1>1, <1>3 DEF spawning, starting
    <2>2. \A x, q : Passing(x, q) => Passing(x, q)'
      BY <1>7 DEF Passing
    <2>3. \A q \in spawning' : Passing(tf[q], q)'
      <3>1. \A q \in spawning' : Passing(tf[q], q)
        BY <1>1, <2>1 DEF Arguments
      <3> QED BY <1>7, <1>8, <3>1 DEF Passing
    <2>4. \A e \in starting' : Passing(arg[e], parent[e])'
      <3> SUFFICES ASSUME NEW e \in starting' PROVE Passing(arg[e], parent[e])'
        OBVIOUS
      <3>1. CASE e = c
        BY <1>4, <1>5, <1>6, <1>7, <3>1 DEF Passing
      <3>2. CASE e # c
        <4>1. Passing(arg[e], parent[e]) /\ arg'[e] = arg[e] /\ parent'[e] = parent[e]
          BY <1>1, <1>4, <1>6, <2>1, <3>2 DEF Arguments
        <4> QED BY <1>7, <4>1 DEF Passing
      <3> QED BY <3>1, <3>2
    <2>5. \A q, r \in spawning' : tf'[q] = tf'[r] => q = r
      BY <1>1, <1>8, <2>1 DEF Arguments
    <2>6. \A d, e \in starting' : arg'[d] = arg'[e] => d = e
      BY <1>1, <1>5, <1>6, <2>1 DEF Arguments
    <2>7. \A q \in spawning', e \in starting' : tf'[q] # arg'[e]
      BY <1>1, <1>5, <1>6, <1>8, <2>1 DEF Arguments
    <2>8. \A x \in Slots : table[x].thr \in Pids /\ pc[table[x].thr] # "none"
      BY <1>1 DEF Typed, Entry, Arguments
    <2>9. \A x \in Slots : x # s => table'[x].thr = table[x].thr /\ table'[x].thr # c
      BY <1>1, <1>7, <2>8
    <2>10. \A x \in Slots : pc'[table'[x].thr] # "none"
      BY <1>1, <1>3, <1>7, <2>8, <2>9
    <2>11. \A x \in Slots : pc'[table'[x].thr] = "start" => x = arg'[table'[x].thr]
      <3> SUFFICES ASSUME NEW x \in Slots, pc'[table'[x].thr] = "start", x # s
                   PROVE  x = arg'[table'[x].thr]
        BY <1>6, <1>7
      <3>1. table'[x].thr = table[x].thr /\ table[x].thr # c /\ table[x].thr # p
            /\ pc[table[x].thr] = "start"
        BY <1>3, <2>8, <2>9
      <3> QED BY <1>1, <1>6, <2>8, <3>1 DEF Arguments
    <2> QED BY <2>3, <2>4, <2>5, <2>6, <2>7, <2>10, <2>11 DEF Arguments
  <1>15. CallStacks'
    <2>1. \A q \in Pids : pc'[q] \in {"register", "return"} => tf'[q] \in Slots
      BY <1>3, <1>5, <1>8 DEF IInv, CallStacks
    <2>2. \A q \in Pids : pc'[q] = "block" => tf'[q] = own'[q]
      BY <1>3, <1>8 DEF IInv, CallStacks
    <2>3. \A e \in Pids : pc'[e] = "awake" =>
            tf'[e] \in Slots /\ (pc'[Root] # "done" \/ parent'[e] # Root => tf'[e] = own'[parent'[e]])
      BY <1>1, <1>2, <1>3, <1>4, <1>8 DEF IInv, CallStacks
    <2> QED BY <2>1, <2>2, <2>3 DEF CallStacks
  <1>16. Family'
    <2>1. pc'[Root] \in Routine \cup {"done"} /\ parent'[Root] = Root
      BY <1>1, <1>2, <1>3, <1>4 DEF Family, Routine
    <2>2. \A e \in Others : pc'[e] # "none" => pc'[parent'[e]] # "none"
      BY <1>1, <1>2, <1>3, <1>4 DEF Family, Typed
    <2>3. \A e \in Others : pc'[e] \notin {"none", "drop", "done"} =>
            inRoutine(parent[e])' \/ parent'[e] = Root
      <3>1. inRoutine(p)'
        BY <1>3 DEF inRoutine
      <3>2. ASSUME NEW e \in Others, pc'[e] \notin {"none", "drop", "done"}, e # c
            PROVE  inRoutine(parent[e])' \/ parent'[e] = Root
        <4>1. pc[e] \notin {"none", "drop", "done"} /\ parent'[e] = parent[e] /\ parent[e] \in Pids
          BY <1>1, <1>2, <1>3, <1>4, <3>2 DEF Typed
        <4>2. inRoutine(parent[e]) \/ parent[e] = Root
          BY <1>1, <4>1 DEF Family
        <4>3. parent[e] \notin {c} /\ (parent[e] = p => pc'[parent[e]] = "register")
          BY <1>1, <1>2, <1>3, <4>2 DEF inRoutine
        <4> QED BY <1>3, <4>1, <4>2, <4>3 DEF inRoutine
      <3>3. parent'[c] = p
        BY <1>4
      <3>4. inRoutine(parent[c])'
        BY <1>3, <3>3 DEF inRoutine
      <3> QED BY <3>2, <3>4
    <2>4. pc'[Root] # "done"
      <3>1. pc[Root] # "done"
        BY <1>1, <1>2 DEF Family, unfinished, Routine, Others
      <3> QED BY <1>2, <1>3, <3>1
    <2>5. ASSUME NEW S \in SUBSET {e \in Others : pc'[e] # "none"}, S # {}
          PROVE  \E e \in S : parent'[e] \notin S
      <3>1. S \ {c} \in SUBSET {e \in Others : pc[e] # "none"} /\ S \in SUBSET Others
        BY <1>1, <1>2, <1>3, <2>5
      <3>2. CASE S \ {c} = {}
        BY <1>1, <1>4, <2>5, <3>2
      <3>3. CASE S \ {c} # {}
        <4>1. PICK e \in S \ {c} : parent[e] \notin S \ {c}
          BY <1>1, <3>1, <3>3 DEF Family
        <4>2. parent[e] # c /\ parent'[e] = parent[e]
          BY <1>1, <1>2, <1>4, <3>1, <4>1 DEF Family
        <4> QED BY <4>1, <4>2
      <3> QED BY <3>2, <3>3
    <2> QED BY <2>1, <2>2, <2>3, <2>4, <2>5 DEF Family
  <1>17. Counts'
    <2> DEFINE N == {q \in Pids : pc[q] = "none"}
    <2>1. /\ unfinished' = unfinished \cup {c} /\ c \notin unfinished
          /\ creating' = creating \ {p} /\ p \in creating
          /\ spawning' = spawning \ {p} /\ p \in spawning
          /\ N' = N \ {c} /\ c \in N
      <3>1. unfinished' = unfinished \cup {c} /\ c \notin unfinished
        BY <1>1, <1>2, <1>3 DEF unfinished, Routine
      <3> QED BY <1>1, <1>3, <3>1 DEF creating, spawning
    <2>2. /\ unfinished \in SUBSET Pids /\ creating \in SUBSET Pids /\ spawning \in SUBSET Pids
          /\ N \in SUBSET Pids /\ \A q \in Pids : children(q) \in SUBSET Pids
      BY <1>2 DEF unfinished, creating, spawning, children
    <2> HIDE DEF N
    <2>3. /\ Cardinality(unfinished') = Cardinality(unfinished) + 1
          /\ Cardinality(creating') = Cardinality(creating) - 1
          /\ Cardinality(spawning') = Cardinality(spawning) - 1
          /\ Cardinality(N') = Cardinality(N) - 1
          /\ {Cardinality(unfinished), Cardinality(creating), Cardinality(spawning),
              Cardinality(N)} \subseteq Nat
      BY <2>1, <2>2, OneMore, Counted
    <2>4. nConcurrentThreads' = 1 + Cardinality(unfinished') + Cardinality(creating')
      BY <1>1, <1>8, <2>3 DEF Counts
    <2>5. ASSUME NEW q \in Pids
          PROVE  spawned'[q] = Cardinality(children(q)') /\ finished'[q] = Cardinality(ended(q)')
      <3>1. Cardinality(children(p)') = Cardinality(children(p)) + 1
        BY <1>12, <2>2, OneMore
      <3>2. spawned'[q] = IF q = p THEN spawned[p] + 1 ELSE spawned[q]
        BY <1>1 DEF spawnCreate, Typed
      <3> QED BY <1>1, <1>8, <1>12, <3>1, <3>2 DEF Counts
    <2>6. Cardinality(spawning) <= Cardinality(N)
      BY <1>1 DEF Counts, N
    <2>7. Cardinality(spawning') <= Cardinality(N')
      BY <2>3, <2>6
    <2> QED BY <2>4, <2>5, <2>7 DEF Counts, N
  <1>18. Waiting'
    <2>1. \A q \in Pids : pc'[q] \in {"none", "start", "free"} => returned'[q] = 0 /\ children(q)' = {}
      BY <1>1, <1>3, <1>8, <1>12 DEF Waiting
    <2>2. \A e \in Pids : pc'[e] = "start" => \A x \in entriesOf(e)' : fresh(table'[x])
      <3>1. entriesOf(c)' = {}
        BY <1>1, <1>9 DEF Entries
      <3>2. \A e \in Pids : pc'[e] = "start" /\ e # c => pc[e] = "start"
        BY <1>3
      <3> QED BY <1>1, <1>9, <3>1, <3>2 DEF Waiting, entriesOf
    <2>3. \A q \in Pids : hasEntry(q) => own[q] \in Slots /\ table'[own[q]] = table[own[q]]
      BY <1>1, <1>9 DEF Entries, entriesOf
    <2>4. \A e \in Pids : pc'[e] = "free" => fresh(table'[own'[e]])
      BY <1>1, <1>8, <1>10, <2>3 DEF Waiting, hasEntry
    <2>5. ~aborted' => \A q \in Pids : inRoutine(q)' => waits(q, table[own[q]])'
      <3>1. \A q \in Pids : inRoutine(q) => table'[own'[q]] = table[own[q]]
        BY <1>8, <2>3 DEF hasEntry, inRoutine, Routine
      <3> QED BY <1>1, <1>8, <1>10, <1>12, <3>1 DEF Waiting, waits, one
    <2>6. /\ \A q \in Others : returned'[q] <= Cardinality(joined(q)')
          /\ \A q \in Others : pc'[q] \in Past => joined(q)' = children(q)'
      BY <1>1, <1>2, <1>3, <1>8, <1>10, <1>12 DEF Waiting, Past
    <2> QED BY <2>1, <2>2, <2>4, <2>5, <2>6 DEF Waiting
  <1>19. WaitJoins'
    BY <1>8 DEF IInv, WaitJoins
  <1> QED BY <1>11, <1>13, <1>14, <1>15, <1>16, <1>17, <1>18, <1>19 DEF IInv
-----------------------------------------------------------------------------
(***************************************************************************)
(* sesc_spawn_wrapper                                                      *)
(***************************************************************************)
(* The new thread takes the entry its spawner has made, or makes one.      *)
LEMMA WrapperStartStep ==
  ASSUME IInv, Parameters, NEW c \in Pids, wrapperStart(c)
  PROVE  IInv'
  <1>1. moves(c, "free") /\ pc[c] = "start" /\ Typed /\ Entries /\ Arguments /\ Waiting /\ c \in Nat
    BY DEF IInv, moves, wrapperStart, Where, at, Family, Parameters
  <1>2. /\ pc' \in [Pids -> Where] /\ pc'[c] = "free"
        /\ \A q \in Pids : q # c => pc'[q] = pc[q]
    BY <1>1, Moved
  <1>3. \A q \in Pids : sameLife(q)
    BY <1>1, <1>2 DEF sameLife, Routine, Past
  <1>4. arg[c] \in Slots /\ table[arg[c]].ppid = parent[c] /\ parent[c] \in Pids
    BY <1>1 DEF Arguments, starting, Passing, Typed
  <1>5. PICK s \in Slots :
          /\ own' = [own EXCEPT ![c] = s]
          /\ table' \in [Slots -> Entry]
          /\ entriesOf(c)' = {s} /\ table'[s].ppid = parent[c] /\ fresh(table'[s])
          /\ \A q \in Pids : q # c => entriesOf(q)' = entriesOf(q)
          /\ \A q \in Pids : \A x \in entriesOf(q) : table'[x] = table[x] /\ x \in Slots
          /\ \A x, q : Passing(x, q) => Passing(x, q)'
          /\ \A y \in Slots : table'[y].thr = table[y].thr
    <2>1. CASE TableFindEntry(c) = NoSlot
      <3>1. PICK s, par : s = freeFor(c) /\ par = table[arg[c]].ppid
        OBVIOUS
      <3>2. makes(s, c, par) /\ entriesOf(c) = {} /\ own' = [own EXCEPT ![c] = s]
        BY <1>1, <2>1, <3>1, Found DEF wrapperStart, makeEntry, makes
      <3>3. /\ s \in Slots /\ ~table[s].inUse
            /\ table' \in [Slots -> Entry]
            /\ \A r : entriesOf(r)' = IF r = c THEN entriesOf(r) \cup {s} ELSE entriesOf(r)
            /\ \A r : s \notin entriesOf(r)
            /\ \A y \in Slots : y # s => table'[y] = table[y]
            /\ \A y \in Slots : table'[y].thr = table[y].thr
            /\ fresh(table'[s]) /\ table'[s].ppid = par
        <4>1. par \in Pids /\ makes(s, c, par)
          BY <1>4, <3>1, <3>2
        <4>2. Typed /\ c \in Nat
          BY <1>1
        <4>3. table' \in [Slots -> Entry] /\ s \in Slots /\ ~table[s].inUse
          BY <4>1, <4>2, EntryMade
        <4>4. /\ \A r : entriesOf(r)' = IF r = c THEN entriesOf(r) \cup {s} ELSE entriesOf(r)
              /\ \A r : s \notin entriesOf(r)
          BY <4>1, <4>2, EntryMade
        <4>5. /\ \A y \in Slots : y # s => table'[y] = table[y]
              /\ \A y \in Slots : table'[y].thr = table[y].thr
              /\ fresh(table'[s]) /\ table'[s].ppid = par
          BY <4>1, <4>2, EntryMade
        <4> QED BY <4>3, <4>4, <4>5
      <3>4. \A x, q : Passing(x, q) => Passing(x, q)'
        BY <3>3 DEF Passing
      <3>5. \A q \in Pids : \A x \in entriesOf(q) : table'[x] = table[x] /\ x \in Slots
        BY <3>3 DEF entriesOf
      <3>6. entriesOf(c)' = {s} /\ \A q \in Pids : q # c => entriesOf(q)' = entriesOf(q)
        BY <3>2, <3>3
      <3> QED BY <1>4, <3>1, <3>2, <3>3, <3>4, <3>5, <3>6
    <2>2. CASE TableFindEntry(c) # NoSlot
      <3>1. PICK s : s = TableFindEntry(c)
        OBVIOUS
      <3>2. s \in entriesOf(c) /\ s \in Slots /\ own' = [own EXCEPT ![c] = s] /\ table' = table
        BY <1>1, <2>2, <3>1, Found DEF wrapperStart
      <3>3. entriesOf(c) = {s} /\ table[s].ppid = parent[c] /\ fresh(table[s])
        BY <1>1, <3>2 DEF Entries, Waiting
      <3>4. \A q : entriesOf(q)' = entriesOf(q)
        BY <3>2 DEF entriesOf
      <3>5. \A x, q : Passing(x, q) => Passing(x, q)'
        BY <3>2 DEF Passing
      <3>6. \A q \in Pids : \A x \in entriesOf(q) : x \in Slots
        BY DEF entriesOf
      <3> QED BY <1>1, <3>2, <3>3, <3>4, <3>5, <3>6 DEF Typed
    <2> QED BY <2>1, <2>2
  <1>6. /\ own' \in [Pids -> Slots \cup {NoSlot}] /\ own'[c] = s
        /\ \A q \in Pids : q # c => own'[q] = own[q]
    BY <1>1, <1>5 DEF Typed
  <1>7. /\ tf' = tf /\ arg' = arg /\ parent' = parent /\ returned' = returned /\ finished' = finished
        /\ spawned' = spawned /\ aborted' = aborted /\ nConcurrentThreads' = nConcurrentThreads
    BY DEF wrapperStart
  <1>8. Typed'
    BY <1>1, <1>2, <1>5, <1>6, <1>7 DEF Typed
  <1>9. /\ Family' /\ unfinished' = unfinished
        /\ \A q : children(q)' = children(q) /\ ended(q)' = ended(q) /\ joined(q)' = joined(q)
    BY <1>1, <1>3, LivesStay DEF IInv, moves
  <1>10. Entries'
    <2>1. \A q \in Pids : q # c => (hasEntry(q)' <=> hasEntry(q))
      BY <1>2 DEF hasEntry
    <2>2. \A q \in Pids : hasEntry(q) => own[q] \in entriesOf(q)
      BY <1>1 DEF Entries
    <2>3. \A q \in Pids : hasEntry(q)' => entriesOf(q)' = {own'[q]} /\ table'[own'[q]].ppid = parent'[q]
      BY <1>1, <1>5, <1>6, <1>7, <2>1, <2>2 DEF Entries
    <2>4. \A q \in Pids : pc'[q] = "none" => entriesOf(q)' = {}
      BY <1>1, <1>2, <1>5 DEF Entries
    <2>5. \A q \in Pids : pc'[q] = "start" =>
            \A x \in entriesOf(q)' : entriesOf(q)' = {x} /\ table'[x].ppid = parent'[q]
      <3> SUFFICES ASSUME NEW q \in Pids, pc'[q] = "start", NEW x \in entriesOf(q)'
                   PROVE  entriesOf(q)' = {x} /\ table'[x].ppid = parent'[q]
        OBVIOUS
      <3>1. q # c /\ pc[q] = "start" /\ entriesOf(q)' = entriesOf(q) /\ table'[x] = table[x]
        BY <1>2, <1>5
      <3>2. entriesOf(q) = {x} /\ table[x].ppid = parent[q]
        BY <1>1, <3>1 DEF Entries
      <3> QED BY <1>7, <3>1, <3>2
    <2> QED BY <2>3, <2>4, <2>5 DEF Entries
  <1>11. Arguments'
    <2>1. spawning' = spawning /\ starting' = starting
      BY <1>1, <1>2 DEF spawning, starting
    <2>3. \A x \in Slots : table[x].thr \in Pids
      BY <1>1 DEF Typed, Entry
    <2>4. \A x \in Slots : /\ pc'[table'[x].thr] # "none"
                           /\ pc'[table'[x].thr] = "start" => x = arg'[table'[x].thr]
      <3>1. \A x \in Slots : table'[x].thr = table[x].thr /\ pc[table[x].thr] # "none"
                             /\ (pc[table[x].thr] = "start" => x = arg[table[x].thr])
        BY <1>1, <1>5 DEF Arguments
      <3> QED BY <1>2, <1>7, <2>3, <3>1
    <2>5. \A q \in spawning' : Passing(tf[q], q)'
      <3>1. \A q \in spawning' : Passing(tf[q], q)
        BY <1>1, <2>1 DEF Arguments
      <3> QED BY <1>5, <1>7, <3>1 DEF Passing
    <2>6. \A q \in starting' : Passing(arg[q], parent[q])'
      <3>1. \A q \in starting' : Passing(arg[q], parent[q])
        BY <1>1, <2>1 DEF Arguments
      <3> QED BY <1>5, <1>7, <3>1 DEF Passing
    <2> QED BY <1>1, <1>7, <2>1, <2>4, <2>5, <2>6 DEF Arguments
  <1>12. CallStacks'
    <2>1. \A q \in Pids : pc'[q] = "block" => pc[q] = "block" /\ own'[q] = own[q]
      BY <1>2, <1>6
    <2>2. \A q \in Pids : pc'[q] = "awake" =>
            pc[q] = "awake" /\ (pc'[Root] = "done" <=> pc[Root] = "done") /\ parent[q] # c
      <3>1. Root \in Pids /\ c # Root /\ ~inRoutine(c)
        BY <1>1 DEF IInv, Family, Parameters, inRoutine, Routine
      <3>2. \A q \in Pids : pc[q] = "awake" => q \in Others
        BY <3>1 DEF IInv, Family, Others, Routine
      <3> QED BY <1>2, <3>1, <3>2 DEF IInv, Family
    <2>3. \A q \in Pids : parent[q] \in Pids
      BY <1>1 DEF Typed
    <2>4. \A q \in Pids : pc'[q] = "awake" =>
            tf'[q] \in Slots /\ (pc'[Root] # "done" \/ parent'[q] # Root => tf'[q] = own'[parent'[q]])
      BY <1>6, <1>7, <2>2, <2>3 DEF IInv, CallStacks
    <2> QED BY <1>2, <1>7, <2>1, <2>4 DEF IInv, CallStacks
  <1>13. Counts'
    <2>1. creating' = creating /\ spawning' = spawning
          /\ {q \in Pids : pc'[q] = "none"} = {q \in Pids : pc[q] = "none"}
      BY <1>1, <1>2 DEF creating, spawning
    <2> QED BY <1>7, <1>9, <2>1 DEF IInv, Counts
  <1>14. Waiting'
    <2>1. \A q \in Pids : hasEntry(q) => own[q] \in entriesOf(q)
      BY <1>1 DEF Entries
    <2>2. \A q \in Pids : pc'[q] \in {"none", "start", "free"} => returned'[q] = 0 /\ children(q)' = {}
      BY <1>1, <1>2, <1>7, <1>9 DEF Waiting
    <2>3. \A q \in Pids : pc'[q] = "start" => \A x \in entriesOf(q)' : fresh(table'[x])
      BY <1>1, <1>2, <1>5 DEF Waiting
    <2>4. \A q \in Pids : pc'[q] = "free" => fresh(table'[own'[q]])
      <3>1. \A q \in Pids : q # c /\ pc'[q] = "free" => table'[own'[q]] = table[own[q]]
        BY <1>2, <1>5, <1>6, <2>1 DEF hasEntry
      <3> QED BY <1>1, <1>2, <1>5, <1>6, <3>1 DEF Waiting
    <2>5. ~aborted' => \A q \in Pids : inRoutine(q)' => waits(q, table[own[q]])'
      <3>1. \A q \in Pids : inRoutine(q)' => inRoutine(q) /\ q # c /\ pc'[q] = pc[q]
        BY <1>1, <1>2 DEF inRoutine
      <3>2. \A q \in Pids : inRoutine(q)' => table'[own'[q]] = table[own[q]]
        BY <1>5, <1>6, <2>1, <3>1 DEF inRoutine, hasEntry, Routine
      <3> QED BY <1>1, <1>7, <1>9, <3>1, <3>2 DEF Waiting, waits, one
    <2>6. /\ \A q \in Others : returned'[q] <= Cardinality(joined(q)')
          /\ \A q \in Others : pc'[q] \in Past => joined(q)' = children(q)'
      <3>1. \A q \in Others : q \in Pids
        BY DEF Others
      <3> QED BY <1>1, <1>2, <1>7, <1>9, <3>1 DEF Waiting, Past
    <2> QED BY <2>2, <2>3, <2>4, <2>5, <2>6 DEF Waiting
  <1>15. WaitJoins'
    BY <1>7 DEF IInv, WaitJoins
  <1> QED BY <1>8, <1>9, <1>10, <1>11, <1>12, <1>13, <1>14, <1>15 DEF IInv

(* The entry of the arguments is given back, and the routine begins.       *)
LEMMA WrapperFreeStep ==
  ASSUME IInv, Parameters, NEW c \in Pids, wrapperFree(c)
  PROVE  IInv'
  <1>1. moves(c, "run") /\ pc[c] = "free" /\ Typed /\ Entries /\ Arguments /\ Waiting
    BY DEF IInv, moves, wrapperFree, Where, at, Family, Parameters
  <1>2. /\ pc' \in [Pids -> Where] /\ pc'[c] = "run"
        /\ \A q \in Pids : q # c => pc'[q] = pc[q]
    BY <1>1, Moved
  <1>3. \A q \in Pids : sameLife(q)
    BY <1>1, <1>2 DEF sameLife, Routine, Past
  <1>4. PICK s \in Slots : s = arg[c] /\ Passing(s, parent[c])
    BY <1>1 DEF Arguments, starting, Passing
  <1>5. /\ table' \in [Slots -> Entry]
        /\ \A q \in Pids : entriesOf(q)' = entriesOf(q)
        /\ \A q \in Pids : \A x \in entriesOf(q) : table'[x] = table[x] /\ x \in Slots
        /\ \A x \in Slots : x # s => table'[x] = table[x]
        /\ \A y \in Slots : table'[y].thr = table[y].thr
    <2>1. table' = [table EXCEPT ![s].inUse = FALSE]
      BY <1>4 DEF wrapperFree
    <2>2. /\ table' \in [Slots -> Entry]
          /\ \A q : entriesOf(q)' = entriesOf(q) \ {s}
          /\ \A x \in Slots : x # s => table'[x] = table[x]
          /\ \A x \in Slots : table'[x].thr = table[x].thr
      BY <1>1, <2>1, EntryFreed
    <2>3. \A q \in Pids : s \notin entriesOf(q)
      BY <1>4 DEF entriesOf, Passing
    <2>4. \A q : entriesOf(q) \in SUBSET Slots
      BY DEF entriesOf
    <2> QED BY <2>2, <2>3, <2>4
  <1>6. /\ tf' = tf /\ arg' = arg /\ own' = own /\ parent' = parent /\ returned' = returned
        /\ finished' = finished /\ spawned' = spawned /\ aborted' = aborted
        /\ nConcurrentThreads' = nConcurrentThreads
    BY DEF wrapperFree
  <1>7. Typed'
    BY <1>1, <1>2, <1>5, <1>6 DEF Typed
  <1>8. /\ Family' /\ unfinished' = unfinished
        /\ \A q : children(q)' = children(q) /\ ended(q)' = ended(q) /\ joined(q)' = joined(q)
    BY <1>1, <1>3, LivesStay DEF IInv, moves
  <1>9. \A q \in Pids : hasEntry(q) => own[q] \in entriesOf(q)
    BY <1>1 DEF Entries
  <1>10. Entries'
    <2>1. \A q \in Pids : hasEntry(q)' <=> hasEntry(q)
      BY <1>1, <1>2 DEF hasEntry, Routine
    <2>2. \A q \in Pids : hasEntry(q)' => entriesOf(q)' = {own'[q]} /\ table'[own'[q]].ppid = parent'[q]
      BY <1>1, <1>5, <1>6, <1>9, <2>1 DEF Entries
    <2>3. \A q \in Pids : pc'[q] = "none" => entriesOf(q)' = {}
      BY <1>1, <1>2, <1>5 DEF Entries
    <2>4. \A q \in Pids : pc'[q] = "start" =>
            \A x \in entriesOf(q)' : entriesOf(q)' = {x} /\ table'[x].ppid = parent'[q]
      <3> SUFFICES ASSUME NEW q \in Pids, pc'[q] = "start", NEW x \in entriesOf(q)'
                   PROVE  entriesOf(q)' = {x} /\ table'[x].ppid = parent'[q]
        OBVIOUS
      <3>1. pc[q] = "start" /\ entriesOf(q)' = entriesOf(q) /\ table'[x] = table[x]
        BY <1>2, <1>5
      <3>2. entriesOf(q) = {x} /\ table[x].ppid = parent[q]
        BY <1>1, <3>1 DEF Entries
      <3> QED BY <1>6, <3>1, <3>2
    <2> QED BY <2>2, <2>3, <2>4 DEF Entries
  <1>11. Arguments'
    <2>1. spawning' = spawning /\ starting' = starting \ {c} /\ c \in starting
      BY <1>1, <1>2 DEF spawning, starting
    <2>2. \A x, q : x # s /\ Passing(x, q) => Passing(x, q)'
      BY <1>5 DEF Passing
    <2>3. \A x \in Slots : /\ pc'[table'[x].thr] # "none"
                           /\ pc'[table'[x].thr] = "start" => x = arg'[table'[x].thr]
      <3>1. \A x \in Slots : /\ table'[x].thr = table[x].thr /\ table[x].thr \in Pids
                             /\ pc[table[x].thr] # "none"
                             /\ pc[table[x].thr] = "start" => x = arg[table[x].thr]
        BY <1>1, <1>5 DEF Arguments, Typed, Entry
      <3> QED BY <1>2, <1>6, <3>1
    <2>4. \A q \in spawning' : Passing(tf[q], q)'
      <3>1. \A q \in spawning' : Passing(tf[q], q) /\ tf[q] # s
        BY <1>1, <1>4, <2>1 DEF Arguments
      <3> QED BY <1>5, <1>6, <3>1 DEF Passing
    <2>5. \A q \in starting' : Passing(arg[q], parent[q])'
      <3>1. \A q \in starting' : Passing(arg[q], parent[q]) /\ arg[q] # s
        BY <1>1, <1>4, <2>1 DEF Arguments
      <3> QED BY <1>5, <1>6, <3>1 DEF Passing
    <2> QED BY <1>1, <1>6, <2>1, <2>3, <2>4, <2>5 DEF Arguments
  <1>12. CallStacks'
    BY <1>1, <1>2, <1>6 DEF IInv, CallStacks, Parameters, Typed
  <1>13. Counts'
    <2>1. creating' = creating /\ spawning' = spawning
          /\ {q \in Pids : pc'[q] = "none"} = {q \in Pids : pc[q] = "none"}
      BY <1>1, <1>2 DEF creating, spawning
    <2> QED BY <1>6, <1>8, <2>1 DEF IInv, Counts
  <1>14. Waiting'
    <2>1. \A q \in Pids : pc'[q] \in {"none", "start", "free"} => returned'[q] = 0 /\ children(q)' = {}
      BY <1>1, <1>2, <1>6, <1>8 DEF Waiting
    <2>2. \A q \in Pids : pc'[q] = "start" => \A x \in entriesOf(q)' : fresh(table'[x])
      BY <1>1, <1>2, <1>5 DEF Waiting
    <2>3. \A q \in Pids : hasEntry(q) => table'[own'[q]] = table[own[q]]
      BY <1>5, <1>6, <1>9
    <2>4. \A q \in Pids : pc'[q] = "free" => fresh(table'[own'[q]])
      BY <1>1, <1>2, <2>3 DEF Waiting, hasEntry
    <2>5. ~aborted' => \A q \in Pids : inRoutine(q)' => waits(q, table[own[q]])'
      <3> SUFFICES ASSUME ~aborted, NEW q \in Pids, inRoutine(q)'
                   PROVE  waits(q, table[own[q]])'
        BY <1>6
      <3>1. CASE q = c
        <4>1. joined(c) = {} /\ returned[c] = 0 /\ fresh(table[own[c]])
          BY <1>1 DEF Waiting, joined
        <4>2. table'[own'[c]] = table[own[c]]
          BY <1>1, <2>3 DEF hasEntry
        <4>3. Cardinality(joined(c)') = 0
          BY <1>8, <4>1, FS_EmptySet
        <4> QED BY <1>2, <1>6, <3>1, <4>1, <4>2, <4>3 DEF waits, fresh, one
      <3>2. CASE q # c
        <4>1. inRoutine(q) /\ pc'[q] = pc[q] /\ hasEntry(q)
          BY <1>2, <3>2 DEF inRoutine, hasEntry, Routine
        <4>2. waits(q, table[own[q]]) /\ table'[own'[q]] = table[own[q]]
          BY <1>1, <2>3, <4>1 DEF Waiting
        <4> QED BY <1>6, <1>8, <4>1, <4>2 DEF waits, one
      <3> QED BY <3>1, <3>2
    <2>6. /\ \A q \in Others : returned'[q] <= Cardinality(joined(q)')
          /\ \A q \in Others : pc'[q] \in Past => joined(q)' = children(q)'
      <3>1. \A q \in Others : q \in Pids
        BY DEF Others
      <3> QED BY <1>1, <1>2, <1>6, <1>8, <3>1 DEF Waiting, Past
    <2> QED BY <2>1, <2>2, <2>4, <2>5, <2>6 DEF Waiting
  <1>15. WaitJoins'
    BY <1>6 DEF IInv, WaitJoins
  <1> QED BY <1>7, <1>8, <1>10, <1>11, <1>12, <1>13, <1>14, <1>15 DEF IInv

(* The routine of a thread ends: sesc_wait has returned for each thread it *)
(* has spawned, so that they have all awakened it.                         *)
LEMMA WrapperExitStep ==
  ASSUME IInv, Parameters, NEW c \in Pids, wrapperExit(c)
  PROVE  IInv'
  <1>1. /\ moves(c, "find") /\ pc[c] = "run" /\ c \in Others /\ returned[c] = spawned[c]
        /\ Typed /\ Entries /\ Arguments /\ Waiting /\ Family /\ Counts
    BY DEF IInv, moves, wrapperExit, Where, at, Others
  <1>2. /\ pc' \in [Pids -> Where] /\ pc'[c] = "find"
        /\ \A q \in Pids : q # c => pc'[q] = pc[q]
        /\ \A q : children(q)' = children(q)
        /\ \A q \in Pids : pc'[q] = "none" <=> pc[q] = "none"
    BY <1>1, Moved
  <1>3. /\ table' = table /\ tf' = tf /\ arg' = arg /\ own' = own /\ parent' = parent
        /\ returned' = returned /\ spawned' = spawned /\ aborted' = aborted
        /\ nConcurrentThreads' = nConcurrentThreads - 1
        /\ finished' = [finished EXCEPT ![parent[c]] = @ + 1]
    BY DEF wrapperExit
  <1>4. Others \in SUBSET Pids /\ Root \in Pids /\ c # Root /\ parent[c] \in Pids
        /\ \A q : children(q) \in SUBSET Pids /\ joined(q) \in SUBSET children(q)
                  /\ ended(q) \in SUBSET Pids
    BY <1>1 DEF Others, Parameters, Typed, children, joined, ended
  <1> PICK d \in Pids : d = parent[c]
    BY <1>4
  <1>5. joined(c) = children(c)
    <2>1. /\ returned[c] = Cardinality(children(c)) /\ returned[c] <= Cardinality(joined(c))
      BY <1>1 DEF Counts, Waiting
    <2>2. Cardinality(joined(c)) <= Cardinality(children(c))
          /\ (Cardinality(joined(c)) = Cardinality(children(c)) => joined(c) = children(c))
      BY <1>4, Included
    <2>3. Cardinality(joined(c)) \in Nat /\ Cardinality(children(c)) \in Nat
      BY <1>4, Counted
    <2> QED BY <2>1, <2>2, <2>3
  <1>6. Typed'
    <2>1. finished' \in [Pids -> Nat]
      BY <1>1, <1>3, <1>4 DEF Typed
    <2> QED BY <1>1, <1>2, <1>3, <2>1 DEF Typed
  <1>7. Entries' /\ Arguments'
    <2>1. \A x \in Slots : sameOwner(x)
      BY <1>3 DEF sameOwner
    <2>2. \A q \in Pids : /\ hasEntry(q)' => hasEntry(q)
                          /\ pc'[q] = "none" <=> pc[q] = "none"
                          /\ pc'[q] = "start" => pc[q] = "start"
                          /\ pc'[q] = "free" => pc[q] = "free"
                          /\ q \in spawning' => q \in spawning /\ tf'[q] = tf[q]
      BY <1>1, <1>2, <1>3 DEF hasEntry, Routine, spawning
    <2> QED BY <1>1, <1>3, <2>1, <2>2, OwnersKept
  <1>8. CallStacks'
    BY <1>1, <1>2, <1>3, <1>4 DEF IInv, CallStacks
  <1>9. \A q \in Pids : joined(q)' = joined(q)
    BY <1>1, <1>2, <1>4 DEF joined
  <1>10. /\ unfinished' = unfinished \ {c} /\ c \in unfinished
         /\ \A q \in Pids : ended(q)' = IF q = d THEN ended(q) \cup {c} ELSE ended(q)
         /\ c \notin ended(d)
    <2>1. \A q \in Pids : c \in children(q) <=> q = d
      BY <1>1 DEF children
    <2>2. \A q \in Pids, e \in Pids : e # c => (e \in ended(q)' <=> e \in ended(q))
      BY <1>2 DEF ended
    <2>3. \A q \in Pids : c \in ended(q)' <=> q = d
      BY <1>2, <2>1 DEF ended, Past
    <2>4. \A q : ended(q)' \in SUBSET Pids
      BY <1>2, <1>4 DEF ended
    <2>5. \A q \in Pids : c \notin ended(q)
      BY <1>1 DEF ended, Past
    <2>6. unfinished' = unfinished \ {c} /\ c \in unfinished
      BY <1>1, <1>2, <1>4 DEF unfinished, Routine
    <2>7. ASSUME NEW q \in Pids
          PROVE  ended(q)' = IF q = d THEN ended(q) \cup {c} ELSE ended(q)
      <3>1. ended(q) \in SUBSET Pids /\ ended(q)' \in SUBSET Pids /\ c \in Pids
        BY <1>1, <1>4, <2>4
      <3> QED BY <2>2, <2>3, <2>5, <3>1
    <2> QED BY <2>5, <2>6, <2>7
  <1>11. Family'
    <2>1. pc'[Root] \in Routine \cup {"done"} /\ parent'[Root] = Root
      BY <1>1, <1>2, <1>3, <1>4 DEF Family
    <2>2. \A e \in Others : pc'[e] # "none" => pc'[parent'[e]] # "none"
      BY <1>1, <1>2, <1>3, <1>4 DEF Family, Typed
    <2>3. ASSUME NEW e \in Others, pc'[e] \notin {"none", "drop", "done"}
          PROVE  inRoutine(parent[e])' \/ parent'[e] = Root
      <3>1. pc[e] \notin {"none", "drop", "done"} /\ e \in Pids
        BY <1>1, <1>2, <1>4, <2>3
      <3>2. parent[e] # c
        BY <1>5, <3>1, <2>3 DEF children, joined
      <3>3. inRoutine(parent[e]) \/ parent[e] = Root
        BY <1>1, <2>3, <3>1 DEF Family
      <3>4. parent[e] \in Pids
        BY <1>1, <3>1 DEF Typed
      <3> QED BY <1>2, <1>3, <3>2, <3>3, <3>4 DEF inRoutine
    <2>4. pc'[Root] # "done"
      BY <1>1, <1>2, <1>4, <1>10 DEF Family
    <2>5. {e \in Others : pc'[e] # "none"} = {e \in Others : pc[e] # "none"}
      BY <1>2, <1>4
    <2> QED BY <1>1, <1>3, <2>1, <2>2, <2>3, <2>4, <2>5 DEF Family
  <1>12. Counts'
    <2>1. creating' = creating /\ spawning' = spawning
          /\ {q \in Pids : pc'[q] = "none"} = {q \in Pids : pc[q] = "none"}
      BY <1>1, <1>2 DEF creating, spawning
    <2>2. unfinished \in SUBSET Pids /\ creating \in SUBSET Pids
      BY DEF unfinished, creating, Others
    <2>3. Cardinality(unfinished') = Cardinality(unfinished) - 1
          /\ Cardinality(unfinished) \in Nat /\ Cardinality(creating) \in Nat
      BY <1>10, <2>2, OneMore, Counted
    <2>4. nConcurrentThreads' = 1 + Cardinality(unfinished') + Cardinality(creating')
      BY <1>1, <1>3, <2>1, <2>3 DEF Counts
    <2>5. Cardinality(ended(d)') = Cardinality(ended(d)) + 1
      BY <1>1, <1>4, <1>10, OneMore
    <2>6. \A q \in Pids : finished'[q] = IF q = d THEN finished[q] + 1 ELSE finished[q]
      BY <1>1, <1>3, <1>4 DEF Typed
    <2>7. \A q \in Pids : finished'[q] = Cardinality(ended(q)')
      BY <1>1, <1>10, <2>5, <2>6 DEF Counts
    <2> QED BY <1>1, <1>2, <1>3, <2>1, <2>4, <2>7 DEF Counts
  <1>13. Waiting'
    <2>1. \A q \in Pids : /\ pc'[q] \in {"none", "start", "free"} => pc[q] \in {"none", "start", "free"}
                          /\ pc'[q] = "start" => pc[q] = "start"
                          /\ pc'[q] = "free" => pc[q] = "free"
                          /\ inRoutine(q)' => inRoutine(q)
                          /\ pc'[q] = "block" <=> pc[q] = "block"
                          /\ pc'[q] \in Past => pc[q] \in Past \/ joined(q) = children(q)
      BY <1>1, <1>2, <1>5 DEF inRoutine, Past
    <2>2. \A q : entriesOf(q)' = entriesOf(q)
      BY <1>3 DEF entriesOf
    <2> QED BY <1>1, <1>2, <1>3, <1>9, <2>1, <2>2, WaitsKept
  <1>14. WaitJoins'
    <2>1. \A q \in Pids : finished[q] <= finished'[q] /\ finished[q] \in Nat /\ finished'[q] \in Nat
                          /\ returned[q] \in Nat
      BY <1>1, <1>3, <1>4 DEF Typed
    <2> QED BY <1>3, <2>1 DEF IInv, WaitJoins
  <1> QED BY <1>6, <1>7, <1>8, <1>11, <1>12, <1>13, <1>14 DEF IInv
-----------------------------------------------------------------------------
(***************************************************************************)
(* awakeWaiting                                                            *)
(***************************************************************************)
(* The parent's entry is found, unless the parent is the main thread and   *)
(* has exited.                                                             *)
LEMMA AwakeFindStep ==
  ASSUME IInv, Parameters, NEW c \in Pids, awakeFind(c)
  PROVE  IInv'
  <1>0. PICK l, found : /\ found = TableFindEntry(table[own[c]].ppid)
                        /\ l = IF found = NoSlot THEN "drop" ELSE "awake"
    OBVIOUS
  <1>1. /\ moves(c, l) /\ pc[c] = "find" /\ c \in Others /\ l \in {"awake", "drop"}
        /\ Typed /\ Entries /\ Arguments /\ Waiting /\ Family /\ Counts
    BY <1>0 DEF IInv, moves, awakeFind, Where, at, Family, Parameters, Others, Routine
  <1>2. /\ pc' \in [Pids -> Where] /\ pc'[c] = l
        /\ \A q \in Pids : q # c => pc'[q] = pc[q]
        /\ \A q : children(q)' = children(q)
        /\ \A q \in Pids : pc'[q] = "none" <=> pc[q] = "none"
    BY <1>1, Moved
  <1>3. /\ table' = table /\ tf' = [tf EXCEPT ![c] = found] /\ arg' = arg /\ own' = own
        /\ parent' = parent /\ returned' = returned /\ spawned' = spawned
        /\ aborted' = aborted /\ nConcurrentThreads' = nConcurrentThreads /\ finished' = finished
    BY <1>0 DEF awakeFind
  <1>4. Others \in SUBSET Pids /\ Root \in Pids /\ c # Root /\ parent[c] \in Pids
        /\ \A q \in Pids : parent[q] \in Pids
    BY <1>1 DEF Others, Parameters, Typed
  <1>5. /\ found \in Slots \cup {NoSlot} /\ NoSlot \notin Slots
        /\ pc[Root] # "done" \/ parent[c] # Root => found = own[parent[c]] /\ found \in Slots
    <2>1. table[own[c]].ppid = parent[c] /\ parent[c] \in Nat
      BY <1>1, <1>4 DEF Entries, hasEntry, Parameters
    <2>2. found = TableFindEntry(parent[c])
      BY <1>0, <2>1
    <2>3. ASSUME pc[Root] # "done" \/ parent[c] # Root
          PROVE  found = own[parent[c]] /\ found \in Slots
      <3>1. inRoutine(parent[c])
        BY <1>1, <2>3 DEF Family, inRoutine, Routine
      <3>2. entriesOf(parent[c]) = {own[parent[c]]}
        BY <1>1, <1>4, <3>1 DEF Entries, hasEntry, inRoutine, Routine
      <3> QED BY <2>1, <2>2, <3>2, Found
    <2> QED BY <2>1, <2>2, <2>3, Found
  <1>6. tf' \in [Pids -> Slots \cup {NoSlot}] /\ tf'[c] = found
        /\ \A q \in Pids : q # c => tf'[q] = tf[q]
    BY <1>1, <1>3, <1>5 DEF Typed
  <1>7. Typed'
    BY <1>1, <1>2, <1>3, <1>6 DEF Typed
  <1>8. Entries' /\ Arguments'
    <2>1. \A x \in Slots : sameOwner(x)
      BY <1>3 DEF sameOwner
    <2>2. \A q \in Pids : /\ hasEntry(q)' => hasEntry(q)
                          /\ pc'[q] = "none" <=> pc[q] = "none"
                          /\ pc'[q] = "start" => pc[q] = "start"
                          /\ pc'[q] = "free" => pc[q] = "free"
                          /\ q \in spawning' => q \in spawning /\ tf'[q] = tf[q]
      BY <1>1, <1>2, <1>6 DEF hasEntry, Routine, spawning
    <2> QED BY <1>1, <1>3, <2>1, <2>2, OwnersKept
  <1>9. CallStacks'
    <2>1. l = "awake" => found \in Slots
      BY <1>0, <1>5
    <2>2. \A q \in Pids : pc'[q] = "awake" =>
            tf'[q] \in Slots /\ (pc'[Root] # "done" \/ parent'[q] # Root => tf'[q] = own'[parent'[q]])
      BY <1>1, <1>2, <1>3, <1>4, <1>5, <1>6, <2>1 DEF IInv, CallStacks
    <2> QED BY <1>1, <1>2, <1>3, <1>6, <2>2 DEF IInv, CallStacks
  <1>10. /\ unfinished' = unfinished
         /\ \A q \in Pids : ended(q)' = ended(q)
         /\ \A q \in Pids : q \in Others \/ inRoutine(q) => joined(q)' = joined(q)
    <2>1. unfinished' = unfinished
      BY <1>1, <1>2, <1>4 DEF unfinished, Routine
    <2>2. \A q \in Pids : ended(q)' = ended(q)
      <3>1. \A q \in Pids : children(q) \in SUBSET Pids
        BY <1>4 DEF children
      <3> QED BY <1>1, <1>2, <3>1 DEF ended, Past
    <2>3. ASSUME NEW q \in Pids, q \in Others \/ inRoutine(q)
          PROVE  joined(q)' = joined(q)
      <3>1. c \in children(q) => l = "awake"
        <4>1. c \in children(q) => q = parent[c]
          BY DEF children
        <4> QED BY <1>0, <1>5, <2>3, <4>1 DEF Others, inRoutine
      <3>2. children(q) \in SUBSET Pids
        BY <1>4 DEF children
      <3> QED BY <1>1, <1>2, <3>1, <3>2 DEF joined
    <2> QED BY <2>1, <2>2, <2>3
  <1>11. Family'
    <2>1. pc'[Root] = pc[Root] /\ pc'[Root] \in Routine \cup {"done"} /\ parent'[Root] = Root
      BY <1>1, <1>2, <1>3, <1>4 DEF Family
    <2>2. \A e \in Others : pc'[e] # "none" => pc'[parent'[e]] # "none"
      BY <1>1, <1>2, <1>3, <1>4 DEF Family
    <2>3. ASSUME NEW e \in Others, pc'[e] \notin {"none", "drop", "done"}
          PROVE  inRoutine(parent[e])' \/ parent'[e] = Root
      <3>1. pc[e] \notin {"none", "drop", "done"} /\ e \in Pids
        BY <1>1, <1>2, <1>4, <2>3
      <3>2. inRoutine(parent[e]) \/ parent[e] = Root
        BY <1>1, <2>3, <3>1 DEF Family
      <3> QED BY <1>1, <1>2, <1>3, <1>4, <3>1, <3>2 DEF inRoutine
    <2>5. {e \in Others : pc'[e] # "none"} = {e \in Others : pc[e] # "none"}
      BY <1>2, <1>4
    <2> QED BY <1>1, <1>3, <1>10, <2>1, <2>2, <2>3, <2>5 DEF Family
  <1>12. Counts'
    <2>1. creating' = creating /\ spawning' = spawning
          /\ {q \in Pids : pc'[q] = "none"} = {q \in Pids : pc[q] = "none"}
      BY <1>1, <1>2 DEF creating, spawning
    <2> QED BY <1>1, <1>2, <1>3, <1>10, <2>1 DEF Counts
  <1>13. Waiting'
    <2>1. \A q \in Pids : /\ pc'[q] \in {"none", "start", "free"} => pc[q] \in {"none", "start", "free"}
                          /\ pc'[q] = "start" => pc[q] = "start"
                          /\ pc'[q] = "free" => pc[q] = "free"
                          /\ inRoutine(q)' => inRoutine(q)
                          /\ pc'[q] = "block" <=> pc[q] = "block"
                          /\ pc'[q] \in Past => pc[q] \in Past
      BY <1>1, <1>2 DEF inRoutine, Past
    <2>2. \A q : entriesOf(q)' = entriesOf(q)
      BY <1>3 DEF entriesOf
    <2> QED BY <1>1, <1>2, <1>3, <1>10, <2>1, <2>2, WaitsKept
  <1>14. WaitJoins'
    BY <1>3 DEF IInv, WaitJoins
  <1> QED BY <1>7, <1>8, <1>9, <1>11, <1>12, <1>13, <1>14 DEF IInv

(* The parent is awakened, or finds later that it need not wait.           *)
LEMMA AwakeWaitingStep ==
  ASSUME IInv, Parameters, NEW c \in Pids, awakeWaiting(c)
  PROVE  IInv'
  <1>1. /\ moves(c, "drop") /\ pc[c] = "awake" /\ c \in Others /\ ~aborted
        /\ Typed /\ Entries /\ Arguments /\ Waiting /\ Family /\ Counts
    BY DEF IInv, moves, awakeWaiting, Where, at, Family, Parameters, Others, Routine
  <1>2. /\ pc' \in [Pids -> Where] /\ pc'[c] = "drop"
        /\ \A q \in Pids : q # c => pc'[q] = pc[q]
        /\ \A q : children(q)' = children(q)
        /\ \A q \in Pids : pc'[q] = "none" <=> pc[q] = "none"
    BY <1>1, Moved
  <1>3. /\ tf' = tf /\ arg' = arg /\ own' = own /\ parent' = parent /\ returned' = returned
        /\ spawned' = spawned /\ nConcurrentThreads' = nConcurrentThreads /\ finished' = finished
    BY DEF awakeWaiting
  <1>4. Others \in SUBSET Pids /\ Root \in Pids /\ c # Root
        /\ \A q \in Pids : parent[q] \in Pids
    BY <1>1 DEF Others, Parameters, Typed
  <1> PICK d \in Pids : d = parent[c]
    BY <1>1, <1>4
  <1> PICK s, e : s = tf[c] /\ e = table[s]
    OBVIOUS
  <1>5. s \in Slots /\ e \in Entry /\ e.nWaiting \in Int /\ e.doWait \in BOOLEAN /\ e.locked \in BOOLEAN
    <2>1. s \in Slots
      BY <1>1 DEF IInv, CallStacks
    <2>2. e \in Entry
      BY <1>1, <2>1 DEF Typed
    <2> QED BY <2>1, <2>2 DEF Entry
  <1>6. /\ awoken(e) \in Entry /\ awoken(e).nWaiting = e.nWaiting - 1 /\ awoken(e).doWait = FALSE
        /\ awoken(e).locked = IF e.doWait THEN FALSE ELSE e.locked
        /\ awoken(e).inUse = e.inUse /\ awoken(e).nPid = e.nPid
        /\ awoken(e).ppid = e.ppid /\ awoken(e).thr = e.thr
    <2>1. CASE e.doWait
      <3>1. awoken(e) = [e EXCEPT !.nWaiting = e.nWaiting - 1, !.doWait = FALSE, !.locked = FALSE]
        BY <1>5, <2>1 DEF awoken
      <3>2. awoken(e) = [inUse |-> e.inUse, nPid |-> e.nPid, ppid |-> e.ppid, thr |-> e.thr,
                         nWaiting |-> e.nWaiting - 1, doWait |-> FALSE, locked |-> FALSE]
        BY <1>5, <3>1 DEF Entry
      <3> QED BY <1>5, <2>1, <3>2 DEF Entry
    <2>2. CASE ~e.doWait
      <3>1. awoken(e) = [e EXCEPT !.nWaiting = e.nWaiting - 1, !.doWait = FALSE, !.locked = e.locked]
        BY <1>5, <2>2 DEF awoken
      <3>2. awoken(e) = [inUse |-> e.inUse, nPid |-> e.nPid, ppid |-> e.ppid, thr |-> e.thr,
                         nWaiting |-> e.nWaiting - 1, doWait |-> FALSE, locked |-> e.locked]
        BY <1>5, <3>1 DEF Entry
      <3> QED BY <1>5, <2>2, <3>2 DEF Entry
    <2> QED BY <2>1, <2>2
  <1>7. /\ table' = [table EXCEPT ![s] = awoken(e)]
        /\ aborted' = (e.doWait /\ e.nWaiting - 1 # 0)
    BY DEF awakeWaiting
  <1>8. /\ table' \in [Slots -> Entry] /\ table'[s] = awoken(e)
        /\ \A x \in Slots : x # s => table'[x] = table[x]
    BY <1>1, <1>5, <1>6, <1>7 DEF Typed
  <1>9. Typed'
    BY <1>1, <1>2, <1>3, <1>5, <1>7, <1>8 DEF Typed
  <1>10. /\ \A x \in Slots : sameOwner(x)
         /\ \A q : entriesOf(q)' = entriesOf(q)
    <2>1. \A x \in Slots : sameOwner(x)
      BY <1>6, <1>8 DEF sameOwner
    <2> QED BY <2>1, OwnersStay
  <1>11. Entries' /\ Arguments'
    <2>2. \A q \in Pids : /\ hasEntry(q)' => hasEntry(q)
                          /\ pc'[q] = "none" <=> pc[q] = "none"
                          /\ pc'[q] = "start" => pc[q] = "start"
                          /\ pc'[q] = "free" => pc[q] = "free"
                          /\ q \in spawning' => q \in spawning /\ tf'[q] = tf[q]
      BY <1>1, <1>2, <1>3 DEF hasEntry, Routine, spawning
    <2> QED BY <1>1, <1>3, <1>10, <2>2, OwnersKept
  <1>12. CallStacks'
    BY <1>1, <1>2, <1>3, <1>4 DEF IInv, CallStacks
  <1>13. /\ unfinished' = unfinished
         /\ \A q \in Pids : ended(q)' = ended(q)
         /\ \A q \in Pids : joined(q)' = IF q = d THEN joined(q) \cup {c} ELSE joined(q)
         /\ c \notin joined(d) /\ \A q \in Pids : joined(q) \in SUBSET Pids
    <2>1. unfinished' = unfinished
      BY <1>1, <1>2, <1>4 DEF unfinished, Routine
    <2>2. \A q \in Pids : children(q) \in SUBSET Pids
      BY <1>4 DEF children
    <2>3. \A q \in Pids : ended(q)' = ended(q)
      BY <1>1, <1>2, <2>2 DEF ended, Past
    <2>4. ASSUME NEW q \in Pids
          PROVE  joined(q)' = IF q = d THEN joined(q) \cup {c} ELSE joined(q)
      <3>1. c \in children(q) <=> q = d
        BY <1>1 DEF children
      <3>2. \A x \in children(q) : x # c => (pc'[x] \in {"drop", "done"} <=> pc[x] \in {"drop", "done"})
        BY <1>2, <2>2
      <3> QED BY <1>2, <3>1, <3>2 DEF joined
    <2>5. c \notin joined(d) /\ \A q \in Pids : joined(q) \in SUBSET Pids
      BY <1>1, <2>2 DEF joined
    <2> QED BY <2>1, <2>3, <2>4, <2>5
  <1>14. Family'
    <2>1. pc'[Root] = pc[Root] /\ pc'[Root] \in Routine \cup {"done"} /\ parent'[Root] = Root
      BY <1>1, <1>2, <1>3, <1>4 DEF Family
    <2>2. \A x \in Others : pc'[x] # "none" => pc'[parent'[x]] # "none"
      BY <1>1, <1>2, <1>3, <1>4 DEF Family
    <2>3. ASSUME NEW x \in Others, pc'[x] \notin {"none", "drop", "done"}
          PROVE  inRoutine(parent[x])' \/ parent'[x] = Root
      <3>1. pc[x] \notin {"none", "drop", "done"} /\ x \in Pids
        BY <1>1, <1>2, <1>4, <2>3
      <3>2. inRoutine(parent[x]) \/ parent[x] = Root
        BY <1>1, <2>3, <3>1 DEF Family
      <3> QED BY <1>1, <1>2, <1>3, <1>4, <3>1, <3>2 DEF inRoutine
    <2>5. {x \in Others : pc'[x] # "none"} = {x \in Others : pc[x] # "none"}
      BY <1>2, <1>4
    <2> QED BY <1>1, <1>3, <1>13, <2>1, <2>2, <2>3, <2>5 DEF Family
  <1>15. Counts'
    <2>1. creating' = creating /\ spawning' = spawning
          /\ {q \in Pids : pc'[q] = "none"} = {q \in Pids : pc[q] = "none"}
      BY <1>1, <1>2 DEF creating, spawning
    <2> QED BY <1>1, <1>2, <1>3, <1>13, <2>1 DEF Counts
  <1>16. \/ pc[Root] = "done" /\ unfinished = {}
         \/ inRoutine(d) /\ s = own[d] /\ entriesOf(d) = {s}
    <2> SUFFICES ASSUME pc[Root] # "done" \/ unfinished # {}
                 PROVE  inRoutine(d) /\ s = own[d] /\ entriesOf(d) = {s}
      OBVIOUS
    <2>1. pc[Root] # "done"
      BY <1>1 DEF Family
    <2>2. inRoutine(d)
      BY <1>1, <2>1 DEF Family, inRoutine, Routine
    <2>3. s = own[d]
      BY <1>1, <2>1 DEF IInv, CallStacks
    <2> QED BY <1>1, <2>2, <2>3 DEF Entries, hasEntry, inRoutine, Routine
  <1>17. Waiting'
    <2>1. \A q \in Pids : pc'[q] \in {"none", "start", "free"} => returned'[q] = 0 /\ children(q)' = {}
      BY <1>1, <1>2, <1>3 DEF Waiting
    <2>2. ASSUME NEW q \in Pids, q # d, pc[q] \in {"start", "free"} \cup Routine
          PROVE  \A x \in entriesOf(q) : table'[x] = table[x]
      <3>1. CASE unfinished = {} /\ pc[Root] = "done"
        BY <1>4, <2>2, <3>1 DEF unfinished, Others, Routine
      <3>2. CASE entriesOf(d) = {s}
        <4>1. s \notin entriesOf(q) /\ entriesOf(q) \in SUBSET Slots
          BY <2>2, <3>2, OneOwner DEF entriesOf
        <4> QED BY <1>8, <4>1
      <3> QED BY <1>16, <3>1, <3>2
    <2>3. \A q \in Pids : hasEntry(q) => own[q] \in entriesOf(q)
      BY <1>1 DEF Entries
    <2>4. ASSUME NEW q \in Pids, pc[q] \in {"start", "free"} PROVE q # d
      BY <1>4, <1>16, <2>4 DEF inRoutine, unfinished, Others
    <2>5. \A q \in Pids : pc'[q] = "start" => \A x \in entriesOf(q)' : fresh(table'[x])
      BY <1>1, <1>2, <1>10, <2>2, <2>4 DEF Waiting
    <2>6. \A q \in Pids : pc'[q] = "free" => fresh(table'[own'[q]])
      BY <1>1, <1>2, <1>3, <2>2, <2>3, <2>4 DEF Waiting, hasEntry
    <2>7. ~aborted' => \A q \in Pids : inRoutine(q)' => waits(q, table[own[q]])'
      <3> SUFFICES ASSUME ~aborted', NEW q \in Pids, inRoutine(q)'
                   PROVE  waits(q, table[own[q]])'
        OBVIOUS
      <3>1. pc'[q] = pc[q] /\ inRoutine(q) /\ hasEntry(q) /\ pc[q] \in Routine
            /\ waits(q, table[own[q]])
        BY <1>1, <1>2 DEF inRoutine, hasEntry, Routine, Waiting
      <3>2. CASE q # d
        <4>1. table'[own'[q]] = table[own[q]] /\ joined(q)' = joined(q)
          BY <1>3, <1>13, <2>2, <2>3, <3>1, <3>2
        <4> QED BY <1>3, <3>1, <4>1 DEF waits, one
      <3>3. CASE q = d
        <4>1. s = own[d]
          <5>1. ~(pc[Root] = "done" /\ unfinished = {})
            BY <1>4, <3>1, <3>3 DEF unfinished, Others, Routine
          <5> QED BY <1>16, <5>1
        <4>2. Cardinality(joined(d)') = Cardinality(joined(d)) + 1
              /\ Cardinality(joined(d)) \in Nat
          BY <1>1, <1>4, <1>13, OneMore, Counted
        <4>3. waits(d, e) /\ table'[own'[d]] = awoken(e)
          BY <1>3, <1>8, <3>1, <3>3, <4>1
        <4>4. returned[d] \in Nat
          BY <1>1 DEF Typed
        <4>5. awoken(e).nWaiting = returned[d] + one(pc[d] = "block") - Cardinality(joined(d)')
          BY <1>5, <1>6, <4>2, <4>3, <4>4 DEF waits, one
        <4>6. pc[d] # "block" => ~awoken(e).doWait /\ awoken(e).locked
          BY <1>6, <4>3 DEF waits
        <4>7. pc[d] = "block" => ~awoken(e).locked /\ awoken(e).nWaiting <= 0
          BY <1>5, <1>6, <1>7, <4>3 DEF waits
        <4> QED BY <1>3, <1>6, <3>1, <3>3, <4>3, <4>5, <4>6, <4>7 DEF waits, one
      <3> QED BY <3>2, <3>3
    <2>8. /\ \A q \in Others : returned'[q] <= Cardinality(joined(q)')
          /\ \A q \in Others : pc'[q] \in Past => joined(q)' = children(q)'
      <3> SUFFICES ASSUME NEW q \in Others
                   PROVE  /\ returned'[q] <= Cardinality(joined(q)')
                          /\ pc'[q] \in Past => joined(q)' = children(q)'
        OBVIOUS
      <3>1. q \in Pids /\ (pc'[q] \in Past => pc[q] \in Past)
        BY <1>1, <1>2, <1>4 DEF Past
      <3>2. CASE q # d
        BY <1>1, <1>2, <1>3, <1>13, <3>1, <3>2 DEF Waiting
      <3>3. CASE q = d
        <4>1. Cardinality(joined(d)') = Cardinality(joined(d)) + 1
              /\ Cardinality(joined(d)) \in Nat /\ returned[d] \in Nat
          BY <1>1, <1>4, <1>13, OneMore, Counted DEF Typed
        <4>2. c \in children(d)
          BY <1>1 DEF children
        <4>3. pc[d] \notin Past
          BY <1>1, <1>13, <3>3, <4>2 DEF Waiting
        <4>4. returned[d] <= Cardinality(joined(d))
          BY <1>1, <3>3 DEF Waiting
        <4> QED BY <1>3, <3>1, <3>3, <4>1, <4>3, <4>4
      <3> QED BY <3>2, <3>3
    <2> QED BY <2>1, <2>5, <2>6, <2>7, <2>8 DEF Waiting
  <1>18. WaitJoins'
    BY <1>3 DEF IInv, WaitJoins
  <1> QED BY <1>9, <1>11, <1>12, <1>14, <1>15, <1>17, <1>18 DEF IInv
-----------------------------------------------------------------------------
(***************************************************************************)
(* A thread leaves: the end of sesc_spawn_wrapper, and sesc_exit           *)
(***************************************************************************)
LEMMA Leaves ==
  ASSUME IInv, Parameters, NEW c \in Pids, NEW s, s = own[c],
         pc[c] = "drop" \/ (c = Root /\ pc[c] = "run" /\ unfinished = {}),
         table' = [table EXCEPT ![s].inUse = FALSE], goTo(c, "done"),
         UNCHANGED <<nConcurrentThreads, tf, own, arg, aborted, parent, spawned, finished, returned>>
  PROVE  IInv'
  <1>1. /\ moves(c, "done") /\ Typed /\ Entries /\ Arguments /\ Waiting /\ Family /\ Counts
        /\ pc[c] \in {"run", "drop"} /\ (c = Root <=> pc[c] = "run")
    BY DEF IInv, moves, Where, Family, Routine
  <1>2. /\ pc' \in [Pids -> Where] /\ pc'[c] = "done"
        /\ \A q \in Pids : q # c => pc'[q] = pc[q]
        /\ \A q : children(q)' = children(q)
        /\ \A q \in Pids : pc'[q] = "none" <=> pc[q] = "none"
    BY <1>1, Moved
  <1>3. /\ tf' = tf /\ arg' = arg /\ own' = own /\ parent' = parent /\ returned' = returned
        /\ spawned' = spawned /\ nConcurrentThreads' = nConcurrentThreads /\ finished' = finished
        /\ aborted' = aborted
    OBVIOUS
  <1>4. Others \in SUBSET Pids /\ Root \in Pids
        /\ \A q \in Pids : parent[q] \in Pids
    BY <1>1 DEF Others, Parameters, Typed
  <1>5. s \in Slots /\ entriesOf(c) = {s}
    <2>1. entriesOf(c) = {own[c]}
      BY <1>1 DEF Entries, hasEntry, Routine
    <2> QED BY <2>1 DEF entriesOf
  <1>6. /\ table' \in [Slots -> Entry]
        /\ entriesOf(c)' = {}
        /\ \A q \in Pids : q # c => entriesOf(q)' = entriesOf(q)
        /\ \A q \in Pids : q # c => \A x \in entriesOf(q) : table'[x] = table[x] /\ x \in Slots
        /\ \A x \in Slots : x # s => table'[x] = table[x]
        /\ \A y \in Slots : table'[y].thr = table[y].thr
    <2>1. /\ table' \in [Slots -> Entry]
          /\ \A q : entriesOf(q)' = entriesOf(q) \ {s}
          /\ \A x \in Slots : x # s => table'[x] = table[x]
          /\ \A x \in Slots : table'[x].thr = table[x].thr
      BY <1>1, <1>5, EntryFreed
    <2>2. \A q \in Pids : q # c => s \notin entriesOf(q)
      BY <1>5, OneOwner
    <2>3. \A q : entriesOf(q) \in SUBSET Slots
      BY DEF entriesOf
    <2>4. entriesOf(c)' = {}
      BY <1>5, <2>1
    <2>5. \A q \in Pids : q # c => entriesOf(q)' = entriesOf(q)
      BY <2>1, <2>2
    <2>6. \A q \in Pids : q # c => \A x \in entriesOf(q) : table'[x] = table[x] /\ x \in Slots
      BY <2>1, <2>2, <2>3
    <2> QED BY <2>1, <2>4, <2>5, <2>6
  <1>7. Typed'
    BY <1>1, <1>2, <1>3, <1>6 DEF Typed
  <1>8. \A x, q : Passing(x, q) => Passing(x, q)' /\ x # s
    <2>1. table[s].nPid = c
      BY <1>5 DEF entriesOf
    <2> QED BY <1>6, <2>1 DEF Passing
  <1>9. Entries'
    <2>1. \A q \in Pids : hasEntry(q)' => hasEntry(q) /\ q # c
      BY <1>1, <1>2 DEF hasEntry, Routine
    <2>2. \A q \in Pids : hasEntry(q) => own[q] \in entriesOf(q)
      BY <1>1 DEF Entries
    <2>3. \A q \in Pids : hasEntry(q)' => entriesOf(q)' = {own'[q]} /\ table'[own'[q]].ppid = parent'[q]
      BY <1>1, <1>3, <1>6, <2>1, <2>2 DEF Entries
    <2>4. \A q \in Pids : pc'[q] = "none" => entriesOf(q)' = {}
      BY <1>1, <1>2, <1>6 DEF Entries
    <2>5. \A q \in Pids : pc'[q] = "start" =>
            \A x \in entriesOf(q)' : entriesOf(q)' = {x} /\ table'[x].ppid = parent'[q]
      <3> SUFFICES ASSUME NEW q \in Pids, pc'[q] = "start", NEW x \in entriesOf(q)'
                   PROVE  entriesOf(q)' = {x} /\ table'[x].ppid = parent'[q]
        OBVIOUS
      <3>1. q # c /\ pc[q] = "start" /\ entriesOf(q)' = entriesOf(q) /\ table'[x] = table[x]
        BY <1>2, <1>6
      <3>2. entriesOf(q) = {x} /\ table[x].ppid = parent[q]
        BY <1>1, <3>1 DEF Entries
      <3> QED BY <1>3, <3>1, <3>2
    <2> QED BY <2>3, <2>4, <2>5 DEF Entries
  <1>10. Arguments'
    <2>1. spawning' = spawning /\ starting' = starting
      BY <1>1, <1>2 DEF spawning, starting
    <2>3. \A x \in Slots : /\ pc'[table'[x].thr] # "none"
                           /\ pc'[table'[x].thr] = "start" => x = arg'[table'[x].thr]
      <3>1. \A x \in Slots : /\ table'[x].thr = table[x].thr /\ table[x].thr \in Pids
                             /\ pc[table[x].thr] # "none"
                             /\ pc[table[x].thr] = "start" => x = arg[table[x].thr]
        BY <1>1, <1>6 DEF Arguments, Typed, Entry
      <3> QED BY <1>2, <1>3, <3>1
    <2>4. \A q \in spawning' : Passing(tf[q], q)'
      <3>1. \A q \in spawning' : Passing(tf[q], q) /\ tf[q] # s
        BY <1>1, <1>8, <2>1 DEF Arguments
      <3> QED BY <1>3, <1>6, <3>1 DEF Passing
    <2>5. \A q \in starting' : Passing(arg[q], parent[q])'
      <3>1. \A q \in starting' : Passing(arg[q], parent[q]) /\ arg[q] # s
        BY <1>1, <1>8, <2>1 DEF Arguments
      <3> QED BY <1>3, <1>6, <3>1 DEF Passing
    <2> QED BY <1>1, <1>3, <2>1, <2>3, <2>4, <2>5 DEF Arguments
  <1>11. CallStacks'
    BY <1>1, <1>2, <1>3, <1>4 DEF IInv, CallStacks
  <1>12. /\ unfinished' = unfinished
         /\ \A q \in Pids : ended(q)' = ended(q) /\ joined(q)' = joined(q)
    <2>1. c \in Others => pc[c] = "drop"
      BY <1>1 DEF Others
    <2>2. unfinished' = unfinished
      BY <1>2, <1>4, <2>1 DEF unfinished, Routine
    <2>3. \A q \in Pids : children(q) \in SUBSET Others
      BY DEF children
    <2> QED BY <1>2, <1>4, <2>1, <2>2, <2>3 DEF ended, joined, Past
  <1>13. Family'
    <2>1. pc'[Root] \in Routine \cup {"done"} /\ parent'[Root] = Root
      BY <1>1, <1>2, <1>3, <1>4 DEF Family
    <2>2. \A x \in Others : pc'[x] # "none" => pc'[parent'[x]] # "none"
      BY <1>1, <1>2, <1>3, <1>4 DEF Family
    <2>3. ASSUME NEW x \in Others, pc'[x] \notin {"none", "drop", "done"}
          PROVE  inRoutine(parent[x])' \/ parent'[x] = Root
      <3>1. pc[x] \notin {"none", "drop", "done"} /\ x \in Pids
        BY <1>1, <1>2, <1>4, <2>3
      <3>2. inRoutine(parent[x]) \/ parent[x] = Root
        BY <1>1, <2>3, <3>1 DEF Family
      <3> QED BY <1>1, <1>2, <1>3, <1>4, <3>1, <3>2 DEF inRoutine
    <2>4. pc'[Root] = "done" => unfinished = {}
      BY <1>1, <1>2, <1>4 DEF Family
    <2>5. {x \in Others : pc'[x] # "none"} = {x \in Others : pc[x] # "none"}
      BY <1>2, <1>4
    <2> QED BY <1>1, <1>3, <1>12, <2>1, <2>2, <2>3, <2>4, <2>5 DEF Family
  <1>14. Counts'
    <2>1. creating' = creating /\ spawning' = spawning
          /\ {q \in Pids : pc'[q] = "none"} = {q \in Pids : pc[q] = "none"}
      BY <1>1, <1>2 DEF creating, spawning
    <2> QED BY <1>1, <1>2, <1>3, <1>12, <2>1 DEF Counts
  <1>15. Waiting'
    <2>0. \A q \in Pids : hasEntry(q) => own[q] \in entriesOf(q)
      BY <1>1 DEF Entries
    <2>1. \A q \in Pids : pc'[q] \in {"none", "start", "free"} => returned'[q] = 0 /\ children(q)' = {}
      BY <1>1, <1>2, <1>3 DEF Waiting
    <2>2. \A q \in Pids : pc'[q] = "start" => \A x \in entriesOf(q)' : fresh(table'[x])
      <3> SUFFICES ASSUME NEW q \in Pids, pc'[q] = "start", NEW x \in entriesOf(q)'
                   PROVE  fresh(table'[x])
        OBVIOUS
      <3>1. pc[q] = "start" /\ x \in entriesOf(q) /\ table'[x] = table[x]
        BY <1>2, <1>6
      <3> QED BY <1>1, <3>1 DEF Waiting
    <2>3. \A q \in Pids : q # c /\ hasEntry(q) => table'[own'[q]] = table[own[q]]
      BY <1>3, <1>6, <2>0
    <2>4. \A q \in Pids : pc'[q] = "free" => fresh(table'[own'[q]])
      BY <1>1, <1>2, <2>3 DEF Waiting, hasEntry
    <2>5. ~aborted' => \A q \in Pids : inRoutine(q)' => waits(q, table[own[q]])'
      <3>1. \A q \in Pids : inRoutine(q)' => inRoutine(q) /\ q # c /\ pc'[q] = pc[q] /\ hasEntry(q)
        BY <1>1, <1>2 DEF inRoutine, hasEntry, Routine
      <3> QED BY <1>1, <1>3, <1>12, <2>3, <3>1 DEF Waiting, waits, one
    <2>6. /\ \A q \in Others : returned'[q] <= Cardinality(joined(q)')
          /\ \A q \in Others : pc'[q] \in Past => joined(q)' = children(q)'
      <3>1. \A q \in Others : q \in Pids /\ (pc'[q] \in Past => pc[q] \in Past)
        BY <1>1, <1>2, <1>4 DEF Past, Others
      <3> QED BY <1>1, <1>2, <1>3, <1>12, <3>1 DEF Waiting
    <2> QED BY <2>1, <2>2, <2>4, <2>5, <2>6 DEF Waiting
  <1>16. WaitJoins'
    BY <1>3 DEF IInv, WaitJoins
  <1> QED BY <1>7, <1>9, <1>10, <1>11, <1>13, <1>14, <1>15, <1>16 DEF IInv

(* A thread gives back its entry, and ends.                                *)
LEMMA WrapperDropStep ==
  ASSUME IInv, Parameters, NEW c \in Pids, wrapperDrop(c)
  PROVE  IInv'
  <1>1. pc[c] = "drop"
    BY DEF wrapperDrop, at
  <1>2. PICK s : s = own[c]
    OBVIOUS
  <1>3. table' = [table EXCEPT ![s].inUse = FALSE] /\ goTo(c, "done")
        /\ UNCHANGED <<nConcurrentThreads, tf, own, arg, aborted, parent, spawned, finished, returned>>
    BY <1>2 DEF wrapperDrop
  <1>4. pc[c] = "drop" \/ (c = Root /\ pc[c] = "run" /\ unfinished = {})
    BY <1>1
  <1> QED BY <1>2, <1>3, <1>4, Leaves

(* The main thread exits once it has waited for all threads it has         *)
(* spawned: no thread is in its routine then.                              *)
LEMMA ExitStep ==
  ASSUME IInv, Parameters, sesc_exit
  PROVE  IInv'
  <1>1. /\ pc[Root] = "run" /\ returned[Root] = spawned[Root] /\ Root \in Pids /\ Root \in Nat
        /\ Typed /\ Entries /\ Family /\ Counts
    BY DEF IInv, sesc_exit, at, Parameters
  <1>2. TableFindEntry(Root) = own[Root]
    <2>1. entriesOf(Root) = {own[Root]}
      BY <1>1 DEF Entries, hasEntry, Routine
    <2> QED BY <1>1, <2>1, Found
  <1>3. ended(Root) = children(Root)
    <2>1. children(Root) \in SUBSET Pids /\ ended(Root) \in SUBSET children(Root)
          /\ ended(Root) \in SUBSET Pids
      BY DEF children, ended, Others
    <2>2. Cardinality(ended(Root)) <= Cardinality(children(Root))
          /\ (Cardinality(ended(Root)) = Cardinality(children(Root)) => ended(Root) = children(Root))
      BY <2>1, Included
    <2>3. Cardinality(ended(Root)) \in Nat /\ Cardinality(children(Root)) \in Nat
      BY <2>1, Counted
    <2>4. Cardinality(children(Root)) <= Cardinality(ended(Root))
      BY <1>1 DEF Counts, IInv, WaitJoins
    <2> QED BY <2>2, <2>3, <2>4
  <1>4. unfinished = {}
    <2> SUFFICES ASSUME unfinished # {} PROVE FALSE
      OBVIOUS
    <2>1. unfinished \in SUBSET {c \in Others : pc[c] # "none"}
      BY DEF unfinished, Routine
    <2>2. PICK c \in unfinished : parent[c] \notin unfinished
      BY <1>1, <2>1 DEF Family
    <2>3. c \in Others /\ c \in Pids /\ pc[c] \notin Past \cup {"none"}
      BY <2>2 DEF unfinished, Others, Routine, Past
    <2>4. parent[c] # Root
      BY <1>3, <2>3 DEF children, ended
    <2>5. inRoutine(parent[c])
      BY <1>1, <2>3, <2>4 DEF Family, Past
    <2>6. parent[c] \in Others
      BY <1>1, <2>3, <2>4 DEF Typed, Others
    <2> QED BY <2>2, <2>5, <2>6 DEF unfinished, inRoutine, Routine
  <1>5. PICK s : s = own[Root]
    OBVIOUS
  <1>6. table' = [table EXCEPT ![s].inUse = FALSE] /\ goTo(Root, "done")
        /\ UNCHANGED <<nConcurrentThreads, tf, own, arg, aborted, parent, spawned, finished, returned>>
    BY <1>2, <1>5 DEF sesc_exit
  <1> QED BY <1>1, <1>4, <1>5, <1>6, Leaves
-----------------------------------------------------------------------------
(***************************************************************************)
(* sesc_wait                                                               *)
(***************************************************************************)
(* A thread begins or ends to wait: only its own entry, what it waits for  *)
(* and how often sesc_wait has returned change.                            *)
LEMMA WaitSteps ==
  ASSUME IInv, Parameters, NEW p \in Pids, NEW s \in Slots, NEW t, NEW l, NEW k \in Nat, ~aborted,
         s = own[p], pc[p] \in {"run", "block"}, l \in {"run", "block"}, moves(p, l),
         t \in Entry, table' = [table EXCEPT ![s] = t],
         t.inUse = table[s].inUse /\ t.nPid = table[s].nPid /\ t.ppid = table[s].ppid
           /\ t.thr = table[s].thr,
         tf' = [tf EXCEPT ![p] = s], returned' = [returned EXCEPT ![p] = k],
         UNCHANGED <<nConcurrentThreads, own, arg, aborted, parent, spawned, finished>>,
         t.nWaiting = k + one(l = "block") - Cardinality(joined(p)),
         l # "block" => ~t.doWait /\ t.locked,
         l = "block" => (t.doWait <=> t.locked) /\ (~t.locked => t.nWaiting <= 0),
         k <= finished[p],
         p \in Others => k <= Cardinality(joined(p))
  PROVE  IInv'
  <1>1. Typed /\ Entries /\ Arguments /\ Waiting /\ Family /\ Counts
    BY DEF IInv
  <1>2. /\ pc' \in [Pids -> Where] /\ pc'[p] = l
        /\ \A q \in Pids : q # p => pc'[q] = pc[q]
        /\ \A q \in Pids : pc'[q] = "none" <=> pc[q] = "none"
    BY <1>1, Moved
  <1>3. /\ \A q \in Pids : sameLife(q)
        /\ arg' = arg /\ own' = own /\ parent' = parent /\ spawned' = spawned /\ finished' = finished
        /\ aborted' = aborted /\ nConcurrentThreads' = nConcurrentThreads
    BY <1>2 DEF sameLife, Routine, Past
  <1>4. /\ table' \in [Slots -> Entry] /\ table'[s] = t
        /\ \A x \in Slots : x # s => table'[x] = table[x]
    BY <1>1 DEF Typed
  <1>5. /\ tf' \in [Pids -> Slots \cup {NoSlot}] /\ tf'[p] = s
        /\ \A q \in Pids : q # p => tf'[q] = tf[q]
        /\ returned' \in [Pids -> Nat] /\ returned'[p] = k
        /\ \A q \in Pids : q # p => returned'[q] = returned[q]
    BY <1>1 DEF Typed
  <1>6. Typed'
    BY <1>1, <1>2, <1>3, <1>4, <1>5 DEF Typed
  <1>7. /\ Family' /\ unfinished' = unfinished
        /\ \A q : children(q)' = children(q) /\ ended(q)' = ended(q) /\ joined(q)' = joined(q)
    BY <1>1, <1>3, LivesStay
  <1>8. (\A x \in Slots : sameOwner(x)) /\ \A q : entriesOf(q)' = entriesOf(q)
    <2>1. \A x \in Slots : sameOwner(x)
      BY <1>4 DEF sameOwner
    <2> QED BY <2>1, OwnersStay
  <1>9. Entries' /\ Arguments'
    <2>1. \A q \in Pids : /\ hasEntry(q)' => hasEntry(q)
                          /\ pc'[q] = "none" <=> pc[q] = "none"
                          /\ pc'[q] = "start" => pc[q] = "start"
                          /\ pc'[q] = "free" => pc[q] = "free"
                          /\ q \in spawning' => q \in spawning /\ tf'[q] = tf[q]
      BY <1>2, <1>5 DEF hasEntry, Routine, spawning
    <2> QED BY <1>1, <1>3, <1>8, <2>1, OwnersKept
  <1>10. CallStacks'
    <2>1. Root \in Pids /\ (pc'[Root] = "done" <=> pc[Root] = "done")
      BY <1>2 DEF Parameters
    <2>2. \A q \in Pids : pc'[q] \in {"register", "return"} => tf'[q] \in Slots
      BY <1>2, <1>5 DEF IInv, CallStacks
    <2>3. \A q \in Pids : pc'[q] = "block" => tf'[q] = own'[q]
      BY <1>2, <1>3, <1>5 DEF IInv, CallStacks
    <2>4. \A q \in Pids : pc'[q] = "awake" =>
            tf'[q] \in Slots /\ (pc'[Root] # "done" \/ parent'[q] # Root => tf'[q] = own'[parent'[q]])
      BY <1>2, <1>3, <1>5, <2>1 DEF IInv, CallStacks
    <2> QED BY <2>2, <2>3, <2>4 DEF CallStacks
  <1>11. Counts'
    <2>1. creating' = creating /\ spawning' = spawning
          /\ {q \in Pids : pc'[q] = "none"} = {q \in Pids : pc[q] = "none"}
      BY <1>2 DEF creating, spawning
    <2> QED BY <1>1, <1>3, <1>7, <2>1 DEF Counts
  <1>12. Waiting'
    <2>0. \A q \in Pids : hasEntry(q) => own[q] \in entriesOf(q)
      BY <1>1 DEF Entries
    <2>1. \A q \in Pids : pc'[q] \in {"none", "start", "free"} => returned'[q] = 0 /\ children(q)' = {}
      BY <1>1, <1>2, <1>5, <1>7 DEF Waiting
    <2>2. \A q \in Pids : q # p => \A x \in entriesOf(q) : table'[x] = table[x]
      <3>1. s \in entriesOf(p)
        BY <2>0 DEF hasEntry, Routine
      <3>2. \A q \in Pids : q # p => s \notin entriesOf(q)
        BY <3>1, OneOwner
      <3>3. \A q : entriesOf(q) \in SUBSET Slots
        BY DEF entriesOf
      <3> QED BY <1>4, <3>2, <3>3
    <2>3. \A q \in Pids : pc'[q] = "start" => \A x \in entriesOf(q)' : fresh(table'[x])
      <3> SUFFICES ASSUME NEW q \in Pids, pc'[q] = "start", NEW x \in entriesOf(q)'
                   PROVE  fresh(table'[x])
        OBVIOUS
      <3>1. q # p /\ pc[q] = "start" /\ x \in entriesOf(q)
        BY <1>2, <1>8
      <3>2. table'[x] = table[x]
        BY <2>2, <3>1
      <3> QED BY <1>1, <3>1, <3>2 DEF Waiting
    <2>4. \A q \in Pids : q # p /\ hasEntry(q) => table'[own'[q]] = table[own[q]]
      BY <1>3, <2>0, <2>2
    <2>5. \A q \in Pids : pc'[q] = "free" => fresh(table'[own'[q]])
      BY <1>1, <1>2, <2>4 DEF Waiting, hasEntry
    <2>6. ~aborted' => \A q \in Pids : inRoutine(q)' => waits(q, table[own[q]])'
      <3> SUFFICES ASSUME NEW q \in Pids, inRoutine(q)' PROVE waits(q, table[own[q]])'
        OBVIOUS
      <3>1. CASE q = p
        <4>1. table'[own'[p]] = t /\ joined(p)' = joined(p)
          BY <1>3, <1>4, <1>7
        <4> QED BY <1>2, <1>5, <3>1, <4>1 DEF waits, one
      <3>2. CASE q # p
        <4>1. inRoutine(q) /\ pc'[q] = pc[q] /\ hasEntry(q)
          BY <1>2, <3>2 DEF inRoutine, hasEntry, Routine
        <4>2. waits(q, table[own[q]]) /\ table'[own'[q]] = table[own[q]]
          BY <1>1, <2>4, <3>2, <4>1 DEF Waiting
        <4> QED BY <1>5, <1>7, <3>2, <4>1, <4>2 DEF waits, one
      <3> QED BY <3>1, <3>2
    <2>7. /\ \A q \in Others : returned'[q] <= Cardinality(joined(q)')
          /\ \A q \in Others : pc'[q] \in Past => joined(q)' = children(q)'
      <3>1. \A q \in Others : q \in Pids /\ (pc'[q] \in Past => pc[q] \in Past)
        BY <1>2 DEF Past, Others
      <3> QED BY <1>1, <1>5, <1>7, <3>1 DEF Waiting
    <2> QED BY <2>1, <2>3, <2>5, <2>6, <2>7 DEF Waiting
  <1>13. WaitJoins'
    BY <1>3, <1>5 DEF IInv, WaitJoins
  <1> QED BY <1>6, <1>7, <1>9, <1>10, <1>11, <1>12, <1>13 DEF IInv

(* Awakened threads are among those that have ended, those among the       *)
(* children.                                                               *)
LEMMA JoinedEnded ==
  ASSUME IInv, Parameters, NEW p \in Pids
  PROVE  /\ Cardinality(joined(p)) \in Nat /\ Cardinality(joined(p)) <= finished[p]
         /\ ended(p) = children(p) => finished[p] = spawned[p]
  <1>1. joined(p) \in SUBSET ended(p) /\ joined(p) \in SUBSET Pids /\ ended(p) \in SUBSET Pids
    BY DEF joined, ended, children, Others, Past
  <1>2. Cardinality(joined(p)) \in Nat /\ Cardinality(joined(p)) <= Cardinality(ended(p))
    BY <1>1, Counted, Included
  <1>3. Counts
    BY DEF IInv
  <1> QED BY <1>2, <1>3 DEF Counts

(* The mutex is unlocked for a thread that has waited for somebody.        *)
LEMMA WaitEndsStep ==
  ASSUME IInv, Parameters, NEW p \in Pids, waitEnds(p)
  PROVE  IInv'
  <1>1. /\ moves(p, "run") /\ pc[p] = "block" /\ ~aborted /\ ~table[tf[p]].locked
        /\ Typed /\ Entries /\ Waiting /\ CallStacks
    BY DEF IInv, moves, waitEnds, Where, at, Family, Parameters
  <1>2. PICK s, e : s = own[p] /\ e = table[s]
    OBVIOUS
  <1>3. s \in Slots /\ e \in Entry /\ tf[p] = s /\ waits(p, e) /\ ~e.locked
    <2>1. entriesOf(p) = {s} /\ tf[p] = s /\ waits(p, e) /\ ~e.locked
      BY <1>1, <1>2 DEF Entries, hasEntry, Routine, CallStacks, Waiting, inRoutine
    <2>2. s \in Slots
      BY <2>1 DEF entriesOf
    <2> QED BY <1>1, <1>2, <2>1, <2>2 DEF Typed
  <1>4. PICK t : t = [e EXCEPT !.locked = TRUE]
    OBVIOUS
  <1>5. /\ t \in Entry /\ t.nWaiting = e.nWaiting /\ t.doWait = e.doWait /\ t.locked
        /\ t.inUse = e.inUse /\ t.nPid = e.nPid /\ t.ppid = e.ppid /\ t.thr = e.thr
        /\ e.nWaiting \in Int /\ e.doWait \in BOOLEAN
    BY <1>3, <1>4 DEF Entry
  <1>6. e.nWaiting = returned[p] + 1 - Cardinality(joined(p)) /\ ~e.doWait /\ e.nWaiting <= 0
    BY <1>1, <1>3, <1>5 DEF waits, one
  <1>7. PICK k : k = returned[p] + 1
    OBVIOUS
  <1>8. k \in Nat /\ k <= Cardinality(joined(p)) /\ k <= finished[p]
        /\ t.nWaiting = k + one("run" = "block") - Cardinality(joined(p))
    <2>1. Cardinality(joined(p)) \in Nat /\ Cardinality(joined(p)) <= finished[p]
          /\ returned[p] \in Nat /\ finished[p] \in Nat
      BY <1>1, JoinedEnded DEF Typed
    <2> QED BY <1>5, <1>6, <1>7, <2>1 DEF one
  <1>9. /\ table' = [table EXCEPT ![s] = t] /\ returned' = [returned EXCEPT ![p] = k]
        /\ tf' = [tf EXCEPT ![p] = s]
        /\ UNCHANGED <<nConcurrentThreads, own, arg, aborted, parent, spawned, finished>>
    <2>1. tf' = tf /\ tf = [tf EXCEPT ![p] = s]
      BY <1>1, <1>3 DEF waitEnds, Typed
    <2> QED BY <1>2, <1>3, <1>4, <1>7, <2>1 DEF waitEnds
  <1> QED BY <1>1, <1>2, <1>3, <1>5, <1>6, <1>8, <1>9, WaitSteps

(* A thread waits unless a thread it has not waited for has ended, or no   *)
(* other thread runs.                                                      *)
LEMMA WaitStep ==
  ASSUME IInv, Parameters, NEW p \in Pids, wait(p)
  PROVE  IInv'
  <1>1. /\ pc[p] = "run" /\ ~aborted /\ returned[p] < spawned[p]
        /\ Typed /\ Entries /\ Waiting /\ Counts /\ Family /\ p \in Nat
    BY DEF IInv, wait, at, Parameters
  <1>2. PICK s, e, must : s = own[p] /\ e = table[s] /\ must = mustWait(e)
    OBVIOUS
  <1>3. s \in Slots /\ e \in Entry /\ TableFindEntry(p) = s /\ waits(p, e)
    <2>1. entriesOf(p) = {s} /\ waits(p, e)
      BY <1>1, <1>2 DEF Entries, hasEntry, Routine, Waiting, inRoutine
    <2>2. s \in Slots /\ TableFindEntry(p) = s
      BY <1>1, <2>1, Found DEF entriesOf
    <2> QED BY <1>1, <1>2, <2>1, <2>2 DEF Typed
  <1>4. PICK t : t = addWaiting(e)
    OBVIOUS
  <1>5. /\ t \in Entry /\ t.nWaiting = e.nWaiting + 1 /\ t.doWait = must /\ t.locked = e.locked
        /\ t.inUse = e.inUse /\ t.nPid = e.nPid /\ t.ppid = e.ppid /\ t.thr = e.thr
        /\ e.nWaiting \in Int /\ must \in BOOLEAN
    <2>1. must \in BOOLEAN
      BY <1>2 DEF mustWait
    <2>2. t = [inUse |-> e.inUse, nPid |-> e.nPid, ppid |-> e.ppid, thr |-> e.thr,
               nWaiting |-> e.nWaiting + 1, doWait |-> must, locked |-> e.locked]
      BY <1>2, <1>3, <1>4 DEF Entry, addWaiting
    <2> QED BY <1>3, <2>1, <2>2 DEF Entry
  <1>6. e.nWaiting = returned[p] - Cardinality(joined(p)) /\ ~e.doWait /\ e.locked
    <2>1. returned[p] \in Nat /\ Cardinality(joined(p)) \in Nat
      BY <1>1, JoinedEnded DEF Typed
    <2> QED BY <1>1, <1>3, <2>1 DEF waits, one
  <1>7. /\ table' = [table EXCEPT ![s] = t] /\ tf' = [tf EXCEPT ![p] = s]
        /\ IF must THEN goTo(p, "block") /\ UNCHANGED returned
           ELSE returned' = [returned EXCEPT ![p] = @ + 1] /\ UNCHANGED pc
        /\ UNCHANGED <<nConcurrentThreads, own, arg, aborted, parent, spawned, finished>>
    <2>2. table' = [table EXCEPT ![s] = t]
      BY <1>2, <1>3, <1>4 DEF wait
    <2> QED BY <1>2, <1>3, <2>2 DEF wait
  <1>8. Cardinality(joined(p)) \in Nat /\ Cardinality(joined(p)) <= finished[p]
        /\ returned[p] \in Nat /\ finished[p] \in Nat
    BY <1>1, JoinedEnded DEF Typed
  <1>9. CASE must
    <2>1. returned' = [returned EXCEPT ![p] = returned[p]] /\ moves(p, "block")
      BY <1>1, <1>7, <1>9 DEF Typed, moves, Where
    <2>2. returned[p] <= finished[p] /\ (p \in Others => returned[p] <= Cardinality(joined(p)))
      BY <1>1 DEF IInv, WaitJoins, Waiting
    <2>3. t.nWaiting = returned[p] + one("block" = "block") - Cardinality(joined(p))
      BY <1>5, <1>6, <1>8 DEF one
    <2>4. t.doWait /\ t.locked
      BY <1>5, <1>6, <1>9
    <2>5. PICK k : k = returned[p]
      OBVIOUS
    <2> QED BY <1>1, <1>2, <1>3, <1>5, <1>7, <1>8, <2>1, <2>2, <2>3, <2>4, <2>5, WaitSteps
  <1>10. CASE ~must
    <2>1. returned' = [returned EXCEPT ![p] = returned[p] + 1] /\ moves(p, "run")
      BY <1>1, <1>7, <1>10 DEF Typed, moves, goTo, Where
    <2>2. returned[p] + 1 <= finished[p] /\ (p \in Others => returned[p] + 1 <= Cardinality(joined(p)))
      <3>1. CASE e.nWaiting + 1 <= 0
        BY <1>5, <1>6, <1>8, <3>1
      <3>2. CASE e.nWaiting + 1 > 0
        <4>1. nConcurrentThreads <= 1
          <5>1. ~mustWait(e)
            BY <1>2, <1>10
          <5>2. ~(nConcurrentThreads > 1)
            BY <3>2, <5>1 DEF mustWait
          <5> QED BY <1>1, <5>2 DEF Typed
        <4>2. unfinished \in SUBSET Pids /\ creating \in SUBSET Pids
          BY DEF unfinished, creating, Others
        <4>3. Cardinality(unfinished) = 0
          <5>1. Cardinality(unfinished) \in Nat /\ Cardinality(creating) \in Nat
            BY <4>2, Counted
          <5> QED BY <1>1, <4>1, <5>1 DEF Counts
        <4>4. unfinished = {}
          BY <4>2, <4>3, Counted, FS_EmptySet
        <4>5. p \notin Others
          BY <1>1, <4>4 DEF unfinished, Routine
        <4>6. ended(p) = children(p)
          <5>1. \A c \in children(p) : c \in Pids /\ pc[c] \in Where \ {"none"} /\ c \notin unfinished
            BY <1>1, <4>4 DEF children, Others, Typed
          <5>2. \A c \in children(p) : pc[c] \in Past
            BY <5>1 DEF unfinished, Where, Routine, Past, children
          <5> QED BY <5>2 DEF ended
        <4>7. finished[p] = spawned[p]
          BY <4>6, JoinedEnded
        <4> QED BY <1>1, <1>8, <4>5, <4>7
      <3> QED BY <1>5, <3>1, <3>2
    <2>3. t.nWaiting = returned[p] + 1 + one("run" = "block") - Cardinality(joined(p))
      BY <1>5, <1>6, <1>8 DEF one
    <2>4. ~t.doWait /\ t.locked
      BY <1>5, <1>6, <1>10
    <2>5. PICK k : k = returned[p] + 1
      OBVIOUS
    <2>6. k \in Nat
      BY <1>8, <2>5
    <2> QED BY <1>1, <1>2, <1>3, <1>5, <1>7, <2>1, <2>2, <2>3, <2>4, <2>5, <2>6, WaitSteps
  <1> QED BY <1>5, <1>9, <1>10
-----------------------------------------------------------------------------
(***************************************************************************)
(* The invariant                                                           *)
(***************************************************************************)
LEMMA InitIInv ==
  ASSUME Parameters, Init
  PROVE  IInv
  <1> PICK s : s = probe(Root, 0)
    OBVIOUS
  <1>1. Root \in Pids /\ Root \in Nat /\ s \in Slots /\ NoSlot \notin Slots
    <2>1. Root \in Nat /\ SESC_TABLESIZE \in Nat \ {0} /\ s = Root % SESC_TABLESIZE
      BY DEF Parameters, probe
    <2> QED BY <2>1 DEF Parameters, Slots, NoSlot
  <1>2. /\ pc = [p \in Pids |-> IF p = Root THEN "run" ELSE "none"]
        /\ own = [p \in Pids |-> IF p = Root THEN s ELSE NoSlot]
        /\ tf = [p \in Pids |-> NoSlot] /\ arg = [p \in Pids |-> NoSlot]
        /\ parent = [p \in Pids |-> Root] /\ ~aborted
        /\ spawned = [p \in Pids |-> 0] /\ finished = [p \in Pids |-> 0]
        /\ returned = [p \in Pids |-> 0] /\ nConcurrentThreads = 1
        /\ table = [x \in Slots |->
                [inUse |-> x = s, nPid |-> Root, ppid |-> Root,
                 thr |-> Root, nWaiting |-> 0, doWait |-> FALSE, locked |-> TRUE]]
    BY DEF Init
  <1>3. Typed
    <2>1. table \in [Slots -> Entry]
      BY <1>1, <1>2 DEF Entry
    <2>2. pc \in [Pids -> Where] /\ own \in [Pids -> Slots \cup {NoSlot}]
      BY <1>1, <1>2 DEF Where
    <2>3. aborted \in BOOLEAN
      BY DEF Init
    <2> QED BY <1>1, <1>2, <2>1, <2>2, <2>3 DEF Typed
  <1>4. /\ entriesOf(Root) = {s} /\ \A q \in Pids : q # Root => entriesOf(q) = {}
        /\ \A x \in Slots : table[x].nPid = Root /\ table[x].thr = Root /\ table[x].ppid = Root
    BY <1>1, <1>2 DEF entriesOf
  <1>5. pc[Root] = "run" /\ own[Root] = s /\ \A q \in Pids : q # Root => pc[q] = "none"
    BY <1>1, <1>2
  <1>6. Entries
    BY <1>1, <1>2, <1>4, <1>5 DEF Entries, hasEntry, Routine
  <1>7. Arguments
    BY <1>1, <1>2, <1>4, <1>5 DEF Arguments, spawning, starting
  <1>8. CallStacks
    BY <1>5 DEF CallStacks
  <1>9. /\ unfinished = {} /\ creating = {} /\ spawning = {}
        /\ \A q \in Pids : children(q) = {} /\ ended(q) = {} /\ joined(q) = {}
    <2>1. \A c \in Others : pc[c] = "none" /\ c \in Pids
      BY <1>5 DEF Others
    <2>2. unfinished = {} /\ \A q \in Pids : children(q) = {}
      BY <2>1 DEF unfinished, Routine, children
    <2> QED BY <1>5, <2>2 DEF creating, spawning, ended, joined
  <1>10. Family
    <2>1. {c \in Others : pc[c] # "none"} = {}
      BY <1>5 DEF Others
    <2> QED BY <1>1, <1>2, <1>5, <1>9, <2>1 DEF Family, Routine, Others
  <1>11. Counts
    <2>1. Cardinality({c \in Pids : pc[c] = "none"}) \in Nat
      BY Counted
    <2>2. Cardinality({}) = 0
      BY FS_EmptySet
    <2>3. \A p \in Pids : spawned[p] = Cardinality(children(p)) /\ finished[p] = Cardinality(ended(p))
      BY <1>2, <1>9, <2>2
    <2>4. nConcurrentThreads = 1 + Cardinality(unfinished) + Cardinality(creating)
      BY <1>2, <1>9, <2>2
    <2>5. Cardinality(spawning) <= Cardinality({c \in Pids : pc[c] = "none"})
      BY <1>9, <2>1, <2>2
    <2> QED BY <2>3, <2>4, <2>5 DEF Counts
  <1>12. Waiting
    <2>1. fresh(table[own[Root]])
      BY <1>1, <1>2 DEF fresh
    <2>2. waits(Root, table[own[Root]])
      <3>1. Cardinality(joined(Root)) = 0
        BY <1>1, <1>9, FS_EmptySet
      <3>2. returned[Root] = 0
        BY <1>1, <1>2
      <3> QED BY <1>5, <2>1, <3>1, <3>2 DEF waits, fresh, one
    <2>3. \A q \in Pids : returned[q] = 0 /\ children(q) = {} /\ joined(q) = {}
      BY <1>2, <1>9
    <2>4. \A q \in Pids : pc[q] \notin {"start", "free"} \cup Past
      BY <1>5 DEF Past
    <2>5. \A q \in Pids : inRoutine(q) => waits(q, table[own[q]])
      BY <1>5, <2>2 DEF inRoutine
    <2>6. Others \in SUBSET Pids
      BY DEF Others
    <2> QED BY <2>3, <2>4, <2>5, <2>6, FS_EmptySet DEF Waiting
  <1>13. WaitJoins
    BY <1>2 DEF WaitJoins
  <1> QED BY <1>3, <1>6, <1>7, <1>8, <1>10, <1>11, <1>12, <1>13 DEF IInv

LEMMA StutterIInv ==
  ASSUME IInv, UNCHANGED vars
  PROVE  IInv'
  <1>1. /\ table' = table /\ nConcurrentThreads' = nConcurrentThreads /\ pc' = pc /\ tf' = tf
        /\ own' = own /\ arg' = arg /\ aborted' = aborted /\ parent' = parent
        /\ spawned' = spawned /\ finished' = finished /\ returned' = returned
    BY DEF vars
  <1>2. Typed' /\ CallStacks' /\ WaitJoins'
    BY <1>1 DEF IInv, Typed, CallStacks, WaitJoins
  <1>3. \A q : /\ entriesOf(q)' = entriesOf(q) /\ children(q)' = children(q)
               /\ ended(q)' = ended(q) /\ joined(q)' = joined(q)
    BY <1>1 DEF entriesOf, children, ended, joined
  <1>4. unfinished' = unfinished /\ creating' = creating /\ spawning' = spawning /\ starting' = starting
    BY <1>1 DEF unfinished, creating, spawning, starting
  <1>5. Entries'
    BY <1>1, <1>3 DEF IInv, Entries, hasEntry
  <1>6. Arguments'
    BY <1>1, <1>4 DEF IInv, Arguments, Passing
  <1>7. Family'
    BY <1>1, <1>4 DEF IInv, Family, inRoutine
  <1>8. Counts'
    BY <1>1, <1>3, <1>4 DEF IInv, Counts
  <1>9. Waiting'
    BY <1>1, <1>3 DEF IInv, Waiting, inRoutine, waits
  <1> QED BY <1>2, <1>5, <1>6, <1>7, <1>8, <1>9 DEF IInv

LEMMA NextIInv ==
  ASSUME IInv, Parameters, [Next]_vars
  PROVE  IInv'
  <1>1. ASSUME sesc_exit PROVE IInv'
    BY <1>1, ExitStep
  <1>2. ASSUME NEW p \in Pids, Runs(p) PROVE IInv'
    <2>1. CASE spawnCount(p)        BY <2>1, SpawnCountStep
    <2>2. CASE \E c \in Pids : spawnCreate(p, c)
      BY <2>2, SpawnCreateStep
    <2>3. CASE spawnRegister(p)     BY <2>3, SpawnRegisterStep
    <2>4. CASE spawnReturn(p)       BY <2>4, SpawnReturnStep
    <2>5. CASE wrapperStart(p)      BY <2>5, WrapperStartStep
    <2>6. CASE wrapperFree(p)       BY <2>6, WrapperFreeStep
    <2>7. CASE wrapperExit(p)       BY <2>7, WrapperExitStep
    <2>8. CASE wrapperDrop(p)       BY <2>8, WrapperDropStep
    <2>9. CASE awakeFind(p)         BY <2>9, AwakeFindStep
    <2>10. CASE awakeWaiting(p)     BY <2>10, AwakeWaitingStep
    <2>11. CASE wait(p)             BY <2>11, WaitStep
    <2>12. CASE waitEnds(p)         BY <2>12, WaitEndsStep
    <2> QED BY <1>2, <2>1, <2>2, <2>3, <2>4, <2>5, <2>6, <2>7, <2>8, <2>9, <2>10, <2>11, <2>12
            DEF Runs
  <1>3. ASSUME NEW p \in Pids, spawn(p) PROVE IInv'
    BY <1>3, SpawnStep
  <1>4. ASSUME UNCHANGED vars PROVE IInv'
    BY <1>4, StutterIInv
  <1> QED BY <1>1, <1>2, <1>3, <1>4 DEF Next

(* The invariant of the proofs holds in every state.                       *)
THEOREM Invariance ==
  ASSUME Parameters
  PROVE  Spec => []IInv
  <1>1. Init => IInv
    BY InitIInv
  <1>2. IInv /\ [Next]_vars => IInv'
    BY NextIInv
  <1> QED BY <1>1, <1>2, PTL DEF Spec

(* The types, and that nConcurrentThreads is at least 1 and at most the    *)
(* number of threads: it never counts a thread twice.                      *)
THEOREM TypeCorrect ==
  ASSUME Parameters
  PROVE  Spec => []TypeOK
  <1>1. ASSUME IInv PROVE TypeOK
    <2> DEFINE N == {c \in Pids : pc[c] = "none"}
    <2>1. /\ unfinished \in SUBSET Pids /\ creating \in SUBSET Pids /\ spawning \in SUBSET Pids
          /\ N \in SUBSET Pids /\ creating \in SUBSET spawning /\ Others \in SUBSET Pids
          /\ Root \in Pids
      BY DEF unfinished, creating, spawning, Others, Parameters
    <2>2. /\ Cardinality(unfinished) \in Nat /\ Cardinality(creating) \in Nat
          /\ Cardinality(spawning) \in Nat /\ Cardinality(N) \in Nat
          /\ Cardinality(Others) = Cardinality(Pids) - 1 /\ Cardinality(Pids) \in Nat
      <3> HIDE DEF N
      <3> QED BY <2>1, Counted, OneMore DEF Others
    <2>3. Cardinality(creating) <= Cardinality(spawning)
      BY <2>1, Included
    <2>4. Cardinality(spawning) <= Cardinality(N)
      BY <1>1 DEF IInv, Counts
    <2>5. unfinished \cup N \in SUBSET Others /\ unfinished \cap N = {}
      <3>1. Root \notin N
        BY <1>1 DEF IInv, Family, Routine
      <3> QED BY <3>1 DEF unfinished, Others, Routine
    <2>6. Cardinality(unfinished \cup N) = Cardinality(unfinished) + Cardinality(N)
      <3> HIDE DEF N
      <3>1. IsFiniteSet(unfinished) /\ IsFiniteSet(N)
        BY <2>1, Counted
      <3>2. Cardinality(unfinished \cup N) =
              Cardinality(unfinished) + Cardinality(N) - Cardinality(unfinished \cap N)
        BY <3>1, FS_Union
      <3>3. Cardinality(unfinished \cap N) = 0
        BY <2>5, FS_EmptySet
      <3> QED BY <2>2, <3>2, <3>3
    <2>7. Cardinality(unfinished \cup N) <= Cardinality(Others)
      <3> HIDE DEF N
      <3> QED BY <2>1, <2>5, Included
    <2>8. nConcurrentThreads = 1 + Cardinality(unfinished) + Cardinality(creating)
      BY <1>1 DEF IInv, Counts
    <2>9. nConcurrentThreads \in 1 .. Cardinality(Pids)
      <3> HIDE DEF N
      <3> QED BY <2>2, <2>3, <2>4, <2>6, <2>7, <2>8
    <2> QED BY <1>1, <2>9 DEF IInv, Typed, TypeOK, Where
  <1> QED BY <1>1, Invariance, PTL

(* A thread in its routine has exactly one entry in the table, its own.    *)
THEOREM OneEntryAlways ==
  ASSUME Parameters
  PROVE  Spec => []OneEntry
  <1>1. IInv => OneEntry
    BY DEF IInv, Entries, OneEntry, hasEntry, inRoutine, Routine
  <1> QED BY <1>1, Invariance, PTL

(* sesc_wait returns at most once for each thread that has ended.          *)
THEOREM WaitJoinsAlways ==
  ASSUME Parameters
  PROVE  Spec => []WaitJoins
  <1>1. IInv => WaitJoins
    BY DEF IInv
  <1> QED BY <1>1, Invariance, PTL

(* Once the main thread has called sesc_exit no thread is in its routine:  *)
(* those that are left are on their way out of sesc_spawn_wrapper.         *)
THEOREM ExitLast ==
  ASSUME Parameters
  PROVE  Spec => [](pc[Root] = "done" => \A c \in Pids : ~inRoutine(c))
  <1>1. ASSUME IInv, pc[Root] = "done", NEW c \in Pids PROVE ~inRoutine(c)
    <2>1. unfinished = {}
      BY <1>1 DEF IInv, Family
    <2> QED BY <1>1, <2>1 DEF unfinished, Others, inRoutine, Routine
  <1>2. IInv => (pc[Root] = "done" => \A c \in Pids : ~inRoutine(c))
    BY <1>1
  <1> QED BY <1>2, Invariance, PTL
=============================================================================
