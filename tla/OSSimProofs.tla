----------------------------- MODULE OSSimProofs -----------------------------
(***************************************************************************)
(* The operating system emulation, for any processes, processors, flows    *)
(* and priorities.  A call transforms a state record; Good is what each of *)
(* its steps keeps of the record, Fair what the call restores at its end:  *)
(* whoever waits its turn is behind, in the queue, whoever runs where it   *)
(* may.  The position in the queue, and not the priority, makes this       *)
(* inductive: queueGet and queueDemote take the first process that fits,   *)
(* and among equals only the position tells which that is.                 *)
(***************************************************************************)
EXTENDS OSSim, FiniteSetTheorems, SequenceTheorems, TLAPS

(* A set of naturals has a least element.                                  *)
LEMMA LeastNatural ==
  ASSUME NEW S \in SUBSET Nat, S # {}
  PROVE  Min(S) \in S /\ \A y \in S : Min(S) <= y
  <1>1. \E x \in S : \A y \in S : <<y, x>> \notin OpToRel(<, Nat)
    BY NatLessThanWellFounded, WFMin
  <1>2. \E x \in S : \A y \in S : x <= y
    <2>1. PICK x \in S : \A y \in S : <<y, x>> \notin OpToRel(<, Nat)
      BY <1>1
    <2>2. ASSUME NEW y \in S, y < x
          PROVE  <<y, x>> \in OpToRel(<, Nat)
      <3>1. <<y, x>> \in Nat \X Nat /\ <<y, x>>[1] = y /\ <<y, x>>[2] = x
        OBVIOUS
      <3> QED BY <2>2, <3>1 DEF OpToRel
    <2>3. \A y \in S : ~(y < x)
      BY <2>1, <2>2
    <2>4. \A y \in S : x <= y
      BY <2>3
    <2> QED BY <2>4
  <1> QED BY <1>2 DEF Min

(* And a bounded one a greatest element.                                   *)
LEMMA GreatestNatural ==
  ASSUME NEW S \in SUBSET Nat, S # {}, NEW n \in Nat, \A y \in S : y <= n
  PROVE  Max(S) \in S /\ \A y \in S : Max(S) >= y
  <1> DEFINE T == {k \in Nat : n - k \in S}
  <1>1. T # {}
    <2>1. PICK y \in S : TRUE
      OBVIOUS
    <2>2. n - y \in T
      BY <2>1
    <2> QED BY <2>2
  <1>2. Min(T) \in T /\ \A k \in T : Min(T) <= k
    BY <1>1, LeastNatural
  <1>3. \A y \in S : n - y \in T
    OBVIOUS
  <1>4. \E x \in S : \A y \in S : x >= y
    <2>1. n - Min(T) \in S /\ Min(T) \in Nat
      BY <1>2
    <2>2. \A y \in S : n - Min(T) >= y
      BY <1>2, <1>3, <2>1
    <2> QED BY <2>1, <2>2
  <1> QED BY <1>4 DEF Max
-----------------------------------------------------------------------------
(* The process queue as an order.                                          *)
In(q, a) == \E i \in DOMAIN q : q[i] = a
Ahead(q, a, b) == \E i, j \in DOMAIN q : i < j /\ q[i] = a /\ q[j] = b
Once(q) == \A i, j \in DOMAIN q : q[i] = q[j] => i = j

(* InsertAt and RemoveAt by position.                                      *)
LEMMA Inserted ==
  ASSUME NEW q \in Seq(Pids), NEW p \in Pids, NEW k \in 1 .. Len(q) + 1
  PROVE  LET r == InsertAt(q, k, p) IN
         /\ r \in Seq(Pids) /\ Len(r) = Len(q) + 1
         /\ r[k] = p
         /\ \A i \in 1 .. k - 1 : r[i] = q[i]
         /\ \A i \in k .. Len(q) : r[i + 1] = q[i]
  <1> DEFINE a == SubSeq(q, 1, k - 1)
             b == SubSeq(q, k, Len(q))
             m == a \o <<p>>
  <1>1. /\ a \in Seq(Pids) /\ Len(a) = k - 1
        /\ \A i \in 1 .. k - 1 : a[i] = q[i]
    BY SubSeqProperties
  <1>2. /\ b \in Seq(Pids) /\ Len(b) = Len(q) - k + 1
        /\ \A i \in 1 .. Len(q) - k + 1 : b[i] = q[k + i - 1]
    BY SubSeqProperties
  <1> HIDE DEF a, b
  <1>3. /\ m \in Seq(Pids) /\ Len(m) = k /\ m[k] = p
        /\ \A i \in 1 .. k - 1 : m[i] = q[i]
    BY <1>1
  <1> HIDE DEF m
  <1>4. /\ m \o b \in Seq(Pids) /\ Len(m \o b) = Len(q) + 1
        /\ \A i \in 1 .. k : (m \o b)[i] = m[i]
        /\ \A i \in k + 1 .. Len(q) + 1 : (m \o b)[i] = b[i - k]
    BY <1>2, <1>3, ConcatProperties
  <1>5. \A i \in k .. Len(q) : (m \o b)[i + 1] = q[i]
    BY <1>2, <1>4
  <1>6. \A i \in 1 .. k : (m \o b)[i] = IF i = k THEN p ELSE q[i]
    BY <1>3, <1>4
  <1>7. InsertAt(q, k, p) = m \o b
    BY DEF InsertAt, m, a, b
  <1> QED BY <1>4, <1>5, <1>6, <1>7

(* What RemoveAt leaves.                                                   *)
LEMMA Removed ==
  ASSUME NEW q \in Seq(Pids), NEW k \in 1 .. Len(q)
  PROVE  LET r == RemoveAt(q, k) IN
         /\ r \in Seq(Pids) /\ Len(r) = Len(q) - 1
         /\ \A i \in 1 .. k - 1 : r[i] = q[i]
         /\ \A i \in k .. Len(q) - 1 : r[i] = q[i + 1]
  <1> DEFINE a == SubSeq(q, 1, k - 1)
             b == SubSeq(q, k + 1, Len(q))
  <1>1. /\ a \in Seq(Pids) /\ Len(a) = k - 1
        /\ \A i \in 1 .. k - 1 : a[i] = q[i]
    BY SubSeqProperties
  <1>2. /\ b \in Seq(Pids) /\ Len(b) = Len(q) - k
        /\ \A i \in 1 .. Len(q) - k : b[i] = q[k + i]
    BY SubSeqProperties
  <1> HIDE DEF a, b
  <1>3. /\ a \o b \in Seq(Pids) /\ Len(a \o b) = Len(q) - 1
        /\ \A i \in 1 .. k - 1 : (a \o b)[i] = a[i]
        /\ \A i \in k .. Len(q) - 1 : (a \o b)[i] = b[i - k + 1]
    <2>1. /\ a \o b \in Seq(Pids) /\ Len(a \o b) = Len(a) + Len(b)
          /\ \A i \in 1 .. Len(a) + Len(b) :
               (a \o b)[i] = IF i <= Len(a) THEN a[i] ELSE b[i - Len(a)]
      BY <1>1, <1>2, ConcatProperties
    <2> QED BY <1>1, <1>2, <2>1
  <1>4. \A i \in k .. Len(q) - 1 : (a \o b)[i] = q[i + 1]
    BY <1>2, <1>3
  <1>5. RemoveAt(q, k) = a \o b
    BY DEF RemoveAt, a, b
  <1> QED BY <1>1, <1>3, <1>4, <1>5

(* What insertion does to the order.                                       *)
LEMMA InsertOrder ==
  ASSUME NEW q \in Seq(Pids), NEW p \in Pids, NEW k \in 1 .. Len(q) + 1,
         Once(q), ~In(q, p)
  PROVE  LET r == InsertAt(q, k, p) IN
         /\ r \in Seq(Pids) /\ Once(r)
         /\ \A a : In(r, a) <=> (a = p \/ In(q, a))
         /\ \A a, b : a # p /\ b # p => (Ahead(r, a, b) <=> Ahead(q, a, b))
         /\ \A a : Ahead(r, a, p) <=> \E i \in 1 .. k - 1 : q[i] = a
         /\ \A b : Ahead(r, p, b) <=> \E i \in k .. Len(q) : q[i] = b
  <1> DEFINE r == InsertAt(q, k, p)
             sh(i) == IF i < k THEN i ELSE i + 1
  <1>1. /\ r \in Seq(Pids) /\ Len(r) = Len(q) + 1 /\ r[k] = p
        /\ \A i \in 1 .. k - 1 : r[i] = q[i]
        /\ \A i \in k .. Len(q) : r[i + 1] = q[i]
    BY Inserted
  <1> HIDE DEF r
  <1>2. /\ DOMAIN q = 1 .. Len(q) /\ DOMAIN r = 1 .. Len(q) + 1 /\ Len(q) \in Nat
    BY <1>1
  <1>3. \A i \in DOMAIN q : sh(i) \in DOMAIN r /\ sh(i) # k /\ r[sh(i)] = q[i]
    BY <1>1, <1>2
  <1>4. \A i \in DOMAIN r : i # k => \E j \in DOMAIN q : i = sh(j)
    <2> SUFFICES ASSUME NEW i \in DOMAIN r, i # k
                 PROVE  \E j \in DOMAIN q : i = sh(j)
      OBVIOUS
    <2>1. CASE i < k
      <3>1. i \in DOMAIN q /\ i = sh(i)
        BY <2>1, <1>2
      <3> QED BY <3>1
    <2>2. CASE ~(i < k)
      <3>1. i - 1 \in DOMAIN q /\ i = sh(i - 1)
        BY <2>2, <1>2
      <3> QED BY <3>1
    <2> QED BY <2>1, <2>2
  <1>5. \A i, j \in DOMAIN q : (sh(i) < sh(j) <=> i < j) /\ (sh(i) = sh(j) <=> i = j)
    BY <1>2
  <1>6. \A i \in DOMAIN q : q[i] # p
    BY DEF In
  <1>7. \A i \in DOMAIN q : (sh(i) < k <=> i < k) /\ (sh(i) > k <=> i >= k)
    BY <1>2
  <1>8. k \in DOMAIN r /\ r[k] = p
    BY <1>1, <1>2
  <1>9. \A i \in DOMAIN r : r[i] = p <=> i = k
    BY <1>3, <1>4, <1>6, <1>8
  <1> HIDE DEF sh
  <1>10. Once(r)
    <2> SUFFICES ASSUME NEW i \in DOMAIN r, NEW j \in DOMAIN r, r[i] = r[j]
                 PROVE  i = j
      BY DEF Once
    <2>1. CASE i = k \/ j = k
      BY <2>1, <1>9, <1>8
    <2>2. CASE i # k /\ j # k
      <3>1. PICK x \in DOMAIN q : i = sh(x)
        BY <2>2, <1>4
      <3>2. PICK y \in DOMAIN q : j = sh(y)
        BY <2>2, <1>4
      <3> QED BY <3>1, <3>2, <1>3, <1>5 DEF Once
    <2> QED BY <2>1, <2>2
  <1>11. \A a : In(r, a) <=> (a = p \/ In(q, a))
    BY <1>3, <1>4, <1>8 DEF In
  <1>12. \A a, b : a # p /\ b # p => (Ahead(r, a, b) <=> Ahead(q, a, b))
    <2> TAKE a, b
    <2> HAVE a # p /\ b # p
    <2>1. ASSUME Ahead(q, a, b) PROVE Ahead(r, a, b)
      <3>1. PICK i, j \in DOMAIN q : i < j /\ q[i] = a /\ q[j] = b
        BY <2>1 DEF Ahead
      <3>2. sh(i) \in DOMAIN r /\ sh(j) \in DOMAIN r /\ sh(i) < sh(j)
            /\ r[sh(i)] = a /\ r[sh(j)] = b
        BY <3>1, <1>3, <1>5
      <3> QED BY <3>2 DEF Ahead
    <2>2. ASSUME Ahead(r, a, b) PROVE Ahead(q, a, b)
      <3>1. PICK i, j \in DOMAIN r : i < j /\ r[i] = a /\ r[j] = b
        BY <2>2 DEF Ahead
      <3>2. PICK x \in DOMAIN q : i = sh(x)
        BY <3>1, <1>4, <1>8
      <3>3. PICK y \in DOMAIN q : j = sh(y)
        BY <3>1, <1>4, <1>8
      <3>4. x < y /\ q[x] = a /\ q[y] = b
        BY <3>1, <3>2, <3>3, <1>3, <1>5
      <3> QED BY <3>4 DEF Ahead
    <2> QED BY <2>1, <2>2
  <1>13. \A a : Ahead(r, a, p) <=> \E i \in 1 .. k - 1 : q[i] = a
    <2> TAKE a
    <2>1. ASSUME NEW i \in 1 .. k - 1, q[i] = a PROVE Ahead(r, a, p)
      <3>1. i \in DOMAIN r /\ i < k /\ r[i] = a
        BY <2>1, <1>1, <1>2
      <3> QED BY <3>1, <1>8 DEF Ahead
    <2>2. ASSUME Ahead(r, a, p) PROVE \E i \in 1 .. k - 1 : q[i] = a
      <3>1. PICK i, j \in DOMAIN r : i < j /\ r[i] = a /\ r[j] = p
        BY <2>2 DEF Ahead
      <3>2. j = k
        BY <3>1, <1>9
      <3>3. i \in 1 .. k - 1
        BY <3>1, <3>2, <1>2
      <3> QED BY <3>1, <3>3, <1>1
    <2> QED BY <2>1, <2>2
  <1>14. \A b : Ahead(r, p, b) <=> \E i \in k .. Len(q) : q[i] = b
    <2> TAKE b
    <2>1. ASSUME NEW i \in k .. Len(q), q[i] = b PROVE Ahead(r, p, b)
      <3>1. i + 1 \in DOMAIN r /\ k < i + 1 /\ r[i + 1] = b
        BY <2>1, <1>1, <1>2
      <3> QED BY <3>1, <1>8 DEF Ahead
    <2>2. ASSUME Ahead(r, p, b) PROVE \E i \in k .. Len(q) : q[i] = b
      <3>1. PICK j, i \in DOMAIN r : j < i /\ r[j] = p /\ r[i] = b
        BY <2>2 DEF Ahead
      <3>2. j = k
        BY <3>1, <1>9
      <3>3. i - 1 \in k .. Len(q) /\ r[(i - 1) + 1] = r[i]
        BY <3>1, <3>2, <1>2
      <3> QED BY <3>1, <3>3, <1>1
    <2> QED BY <2>1, <2>2
  <1> QED BY <1>1, <1>10, <1>11, <1>12, <1>13, <1>14 DEF r

(* What removal does to it.                                                *)
LEMMA RemoveOrder ==
  ASSUME NEW q \in Seq(Pids), NEW k \in 1 .. Len(q), Once(q)
  PROVE  LET r == RemoveAt(q, k) IN
         /\ r \in Seq(Pids) /\ Once(r) /\ Len(r) = Len(q) - 1
         /\ \A a : In(r, a) <=> (a # q[k] /\ In(q, a))
         /\ \A a, b : Ahead(r, a, b) <=> (a # q[k] /\ b # q[k] /\ Ahead(q, a, b))
  <1> DEFINE r == RemoveAt(q, k)
             sh(i) == IF i < k THEN i ELSE i + 1
  <1>1. /\ r \in Seq(Pids) /\ Len(r) = Len(q) - 1
        /\ \A i \in 1 .. k - 1 : r[i] = q[i]
        /\ \A i \in k .. Len(q) - 1 : r[i] = q[i + 1]
    BY Removed
  <1> HIDE DEF r
  <1>2. /\ DOMAIN q = 1 .. Len(q) /\ DOMAIN r = 1 .. Len(q) - 1 /\ Len(q) \in Nat
    BY <1>1
  <1>3. \A i \in DOMAIN r : sh(i) \in DOMAIN q /\ sh(i) # k /\ q[sh(i)] = r[i]
    BY <1>1, <1>2
  <1>4. \A i \in DOMAIN q : i # k => \E j \in DOMAIN r : i = sh(j)
    <2> SUFFICES ASSUME NEW i \in DOMAIN q, i # k
                 PROVE  \E j \in DOMAIN r : i = sh(j)
      OBVIOUS
    <2>1. CASE i < k
      <3>1. i \in DOMAIN r /\ i = sh(i)
        BY <2>1, <1>2
      <3> QED BY <3>1
    <2>2. CASE ~(i < k)
      <3>1. i - 1 \in DOMAIN r /\ i = sh(i - 1)
        BY <2>2, <1>2
      <3> QED BY <3>1
    <2> QED BY <2>1, <2>2
  <1>5. \A i, j \in DOMAIN r : (sh(i) < sh(j) <=> i < j) /\ (sh(i) = sh(j) <=> i = j)
    BY <1>2
  <1>6. k \in DOMAIN q /\ \A i \in DOMAIN q : q[i] = q[k] <=> i = k
    BY <1>2 DEF Once
  <1> HIDE DEF sh
  <1>7. Once(r)
    BY <1>3, <1>5 DEF Once
  <1>8. \A a : In(r, a) <=> (a # q[k] /\ In(q, a))
    BY <1>3, <1>4, <1>6 DEF In
  <1>9. \A a, b : Ahead(r, a, b) <=> (a # q[k] /\ b # q[k] /\ Ahead(q, a, b))
    <2> TAKE a, b
    <2>1. ASSUME Ahead(r, a, b) PROVE a # q[k] /\ b # q[k] /\ Ahead(q, a, b)
      <3>1. PICK i, j \in DOMAIN r : i < j /\ r[i] = a /\ r[j] = b
        BY <2>1 DEF Ahead
      <3>2. /\ sh(i) \in DOMAIN q /\ sh(j) \in DOMAIN q /\ sh(i) < sh(j)
            /\ q[sh(i)] = a /\ q[sh(j)] = b /\ sh(i) # k /\ sh(j) # k
        BY <3>1, <1>3, <1>5
      <3> QED BY <3>2, <1>6 DEF Ahead
    <2>2. ASSUME a # q[k], b # q[k], Ahead(q, a, b) PROVE Ahead(r, a, b)
      <3>1. PICK i, j \in DOMAIN q : i < j /\ q[i] = a /\ q[j] = b
        BY <2>2 DEF Ahead
      <3>2. PICK x \in DOMAIN r : i = sh(x)
        BY <2>2, <3>1, <1>4
      <3>3. PICK y \in DOMAIN r : j = sh(y)
        BY <2>2, <3>1, <1>4
      <3>4. x < y /\ r[x] = a /\ r[y] = b
        BY <3>1, <3>2, <3>3, <1>3, <1>5
      <3> QED BY <3>4 DEF Ahead
    <2> QED BY <2>1, <2>2
  <1> QED BY <1>1, <1>7, <1>8, <1>9 DEF r

(* In a queue that holds each process once the order is strict and total.  *)
LEMMA StrictOrder ==
  ASSUME NEW q \in Seq(Pids), Once(q)
  PROVE  /\ \A a, b : Ahead(q, a, b) => In(q, a) /\ In(q, b) /\ a # b /\ ~Ahead(q, b, a)
         /\ \A a, b : In(q, a) /\ In(q, b) /\ a # b => Ahead(q, a, b) \/ Ahead(q, b, a)
         /\ \A a, b, c : Ahead(q, a, b) /\ Ahead(q, b, c) => Ahead(q, a, c)
         /\ \A i, j \in DOMAIN q : Ahead(q, q[i], q[j]) <=> i < j
  <1>1. DOMAIN q = 1 .. Len(q) /\ Len(q) \in Nat
    OBVIOUS
  <1>2. DOMAIN q \subseteq Int
    BY <1>1
  <1>3. \A i, j \in DOMAIN q : Ahead(q, q[i], q[j]) <=> i < j
    BY <1>2 DEF Ahead, Once
  <1>4. \A a, b : Ahead(q, a, b) => In(q, a) /\ In(q, b) /\ a # b /\ ~Ahead(q, b, a)
    <2> SUFFICES ASSUME NEW a, NEW b, Ahead(q, a, b)
                 PROVE  In(q, a) /\ In(q, b) /\ a # b /\ ~Ahead(q, b, a)
      OBVIOUS
    <2>1. PICK i, j \in DOMAIN q : i < j /\ q[i] = a /\ q[j] = b
      BY DEF Ahead
    <2>2. ~(j < i) /\ i # j
      BY <2>1, <1>2
    <2> QED BY <2>1, <2>2, <1>3 DEF In, Once
  <1>5. \A a, b : In(q, a) /\ In(q, b) /\ a # b => Ahead(q, a, b) \/ Ahead(q, b, a)
    <2> SUFFICES ASSUME NEW a, NEW b, In(q, a), In(q, b), a # b
                 PROVE  Ahead(q, a, b) \/ Ahead(q, b, a)
      OBVIOUS
    <2>1. PICK i \in DOMAIN q : q[i] = a
      BY DEF In
    <2>2. PICK j \in DOMAIN q : q[j] = b
      BY DEF In
    <2>3. i < j \/ j < i
      BY <2>1, <2>2, <1>2
    <2> QED BY <2>1, <2>2, <2>3 DEF Ahead
  <1>6. \A a, b, c : Ahead(q, a, b) /\ Ahead(q, b, c) => Ahead(q, a, c)
    <2> SUFFICES ASSUME NEW a, NEW b, NEW c, Ahead(q, a, b), Ahead(q, b, c)
                 PROVE  Ahead(q, a, c)
      OBVIOUS
    <2>1. PICK i, j \in DOMAIN q : i < j /\ q[i] = a /\ q[j] = b
      BY DEF Ahead
    <2>2. PICK k, l \in DOMAIN q : k < l /\ q[k] = b /\ q[l] = c
      BY DEF Ahead
    <2>3. j = k
      BY <2>1, <2>2 DEF Once
    <2>4. i < l
      BY <2>1, <2>2, <2>3, <1>2
    <2> QED BY <2>1, <2>2, <2>4 DEF Ahead
  <1> QED BY <1>3, <1>4, <1>5, <1>6

(* A process in the queue has a position.                                  *)
LEMMA Position ==
  ASSUME NEW s, NEW p, s.queue \in Seq(Pids), Once(s.queue), In(s.queue, p)
  PROVE  /\ positionOf(s, p) \in 1 .. Len(s.queue)
         /\ s.queue[positionOf(s, p)] = p
         /\ \A i \in DOMAIN s.queue : s.queue[i] = p => i = positionOf(s, p)
  <1>1. DOMAIN s.queue = 1 .. Len(s.queue)
    OBVIOUS
  <1>2. positionOf(s, p) \in DOMAIN s.queue /\ s.queue[positionOf(s, p)] = p
    BY DEF positionOf, In
  <1> QED BY <1>1, <1>2 DEF Once
-----------------------------------------------------------------------------
(***************************************************************************)
(* What every step of a call preserves, of the state record it works on.   *)
(***************************************************************************)
Rec == [proc: [Pids -> ProcessId], queue: Seq(Pids), flow: [Cpus -> SUBSET Pids],
        avail: [Cpus -> Nat], working: SUBSET Cpus]

(* A pinned process names its processor, and so does a running one.        *)
Placed(s) ==
  \A p \in Pids :
    s.proc[p].pinned \/ s.proc[p].state = "Running" => s.proc[p].cpu \in Cpus

RunsOn(s, p, c) == s.proc[p].state = "Running" /\ s.proc[p].cpu = c

FlowsExact(s) ==
  \A c \in Cpus :
    /\ \A p \in Pids : p \in s.flow[c] <=> RunsOn(s, p, c)
    /\ Cardinality(s.flow[c]) <= maxFlows[c]
    /\ s.flow[c] # {} => c \in s.working

Offers(s) ==
  \A c \in Cpus :
    /\ s.avail[c] <= availableFlows(s, c)
    /\ s.flow[c] = {} => s.avail[c] > 0

Ordered(s) ==
  /\ Once(s.queue)
  /\ \A p \in Pids : In(s.queue, p) <=> Runnable(s.proc[p])
  /\ \A a, b \in Pids : Ahead(s.queue, a, b) => prio(s, a) <= prio(s, b)

Good(s) == s \in Rec /\ Placed(s) /\ FlowsExact(s) /\ Offers(s) /\ Ordered(s)

(* A process that waits its turn, unless it is in D: where it may run,     *)
(* every flow is taken, by a process ahead of it in the queue.             *)
Fair(s, D) ==
  \A p \in Pids \ D, c \in Cpus :
    fits(s, p, c) => /\ availableFlows(s, c) = 0
                     /\ \A u \in Pids : u \in s.flow[c] => Ahead(s.queue, u, p)

(* Nothing of what a parent and its children know of each other changes.   *)
Akin(x, y) ==
  /\ x.ppid = y.ppid /\ x.nChilds = y.nChilds
  /\ x.state = "Free" <=> y.state = "Free"

(* The flows of a processor are a finite set.                              *)
LEMMA Flows ==
  ASSUME NEW s \in Rec, NEW c \in Cpus
  PROVE  /\ s.flow[c] \in SUBSET Pids /\ IsFiniteSet(s.flow[c])
         /\ Cardinality(s.flow[c]) \in Nat /\ maxFlows[c] \in Nat /\ maxFlows[c] > 0
         /\ s.flow[c] = {} <=> Cardinality(s.flow[c]) = 0
  <1>1. s.flow[c] \in SUBSET Pids
    BY DEF Rec
  <1>2. IsFiniteSet(s.flow[c])
    BY <1>1, PidAssumption, FS_Subset
  <1>3. Cardinality(s.flow[c]) \in Nat /\ (s.flow[c] = {} <=> Cardinality(s.flow[c]) = 0)
    BY <1>2, FS_CardinalityType, FS_EmptySet
  <1>4. maxFlows[c] \in Nat /\ maxFlows[c] > 0
    BY CpuAssumption
  <1> QED BY <1>1, <1>2, <1>3, <1>4

(* The fields of a state record and their types.                           *)
LEMMA Fields ==
  ASSUME NEW s \in Rec
  PROVE  /\ s.proc \in [Pids -> ProcessId] /\ s.queue \in Seq(Pids)
         /\ s.flow \in [Cpus -> SUBSET Pids] /\ s.avail \in [Cpus -> Nat]
         /\ s.working \in SUBSET Cpus
         /\ s = [proc |-> s.proc, queue |-> s.queue, flow |-> s.flow,
                 avail |-> s.avail, working |-> s.working]
         /\ \A p \in Pids : s.proc[p] \in ProcessId
  BY DEF Rec

(* Records of one process, as the steps change them.                       *)
Start(r, c) == [r EXCEPT !.cpu = c, !.state = "Running", !.pinned = @ \/ ~r.migrable]

(* What it leaves of the record.                                           *)
LEMMA StartType ==
  ASSUME NEW r \in ProcessId, NEW c \in Cpus
  PROVE  /\ Start(r, c) \in ProcessId /\ Akin(Start(r, c), [r EXCEPT !.state = "Running"])
         /\ Start(r, c).state = "Running" /\ Start(r, c).cpu = c
         /\ Start(r, c).priority = r.priority
         /\ Start(r, c).ppid = r.ppid /\ Start(r, c).nChilds = r.nChilds
  BY DEF Start, ProcessId, ProcessState, Akin

(* A record in another state.                                              *)
LEMMA StateType ==
  ASSUME NEW r \in ProcessId, NEW x \in ProcessState
  PROVE  LET u == [r EXCEPT !.state = x] IN
         /\ u \in ProcessId /\ u.state = x /\ u.cpu = r.cpu /\ u.pinned = r.pinned
         /\ u.priority = r.priority /\ u.ppid = r.ppid /\ u.nChilds = r.nChilds
         /\ u.migrable = r.migrable /\ u.suspendedCounter = r.suspendedCounter
  BY DEF ProcessId

(* What workingListAdd, workingListRemove and setState change.             *)
LEMMA AddEffect ==
  ASSUME NEW s \in Rec, NEW c \in Cpus
  PROVE  LET t == workingListAdd(s, c) IN
         /\ t \in Rec /\ t.proc = s.proc /\ t.queue = s.queue /\ t.flow = s.flow
         /\ t.working = s.working \cup {c}
         /\ t.avail = [s.avail EXCEPT ![c] = IF s.avail[c] > 0 THEN s.avail[c] - 1 ELSE 0]
  <1> DEFINE t == workingListAdd(s, c)
             n == IF s.avail[c] > 0 THEN s.avail[c] - 1 ELSE 0
  <1>1. /\ t.proc = s.proc /\ t.queue = s.queue /\ t.flow = s.flow
        /\ t.working = s.working \cup {c} /\ t.avail = [s.avail EXCEPT ![c] = n]
    BY DEF Rec, workingListAdd
  <1>2. n \in Nat
    BY Fields
  <1>3. t.avail \in [Cpus -> Nat]
    BY <1>1, <1>2, Fields
  <1>4. t \in Rec
    BY <1>1, <1>3 DEF Rec, workingListAdd
  <1> QED BY <1>1, <1>4

(* The processor is listed, once if it was not.                            *)
LEMMA RemoveEffect ==
  ASSUME NEW s \in Rec, NEW c \in Cpus
  PROVE  LET t == workingListRemove(s, c) IN
         /\ t \in Rec /\ t.proc = s.proc /\ t.queue = s.queue /\ t.flow = s.flow
         /\ t.working = s.working
         /\ t.avail = [s.avail EXCEPT ![c] = IF s.avail[c] = 0 THEN 1 ELSE s.avail[c]]
  <1> DEFINE t == workingListRemove(s, c)
             n == IF s.avail[c] = 0 THEN 1 ELSE s.avail[c]
  <1>1. /\ t.proc = s.proc /\ t.queue = s.queue /\ t.flow = s.flow
        /\ t.working = s.working /\ t.avail = [s.avail EXCEPT ![c] = n]
    BY DEF Rec, workingListRemove
  <1>2. n \in Nat
    BY Fields
  <1>3. t.avail \in [Cpus -> Nat]
    BY <1>1, <1>2, Fields
  <1>4. t \in Rec
    BY <1>1, <1>3 DEF Rec, workingListRemove
  <1> QED BY <1>1, <1>4

(* Only the state of the process changes.                                  *)
LEMMA SetEffect ==
  ASSUME NEW s \in Rec, NEW p \in Pids, NEW x \in ProcessState
  PROVE  LET t == setState(s, p, x) IN
         /\ t \in Rec /\ t.queue = s.queue /\ t.flow = s.flow
         /\ t.working = s.working /\ t.avail = s.avail
         /\ t.proc = [s.proc EXCEPT ![p] = [s.proc[p] EXCEPT !.state = x]]
  <1> DEFINE t == setState(s, p, x)
             r == [s.proc[p] EXCEPT !.state = x]
  <1>1. /\ t.queue = s.queue /\ t.flow = s.flow
        /\ t.working = s.working /\ t.avail = s.avail
        /\ t.proc = [s.proc EXCEPT ![p] = r]
    BY DEF Rec, setState
  <1>2. r \in ProcessId
    BY Fields, StateType
  <1>3. t.proc \in [Pids -> ProcessId]
    BY <1>1, <1>2, Fields
  <1>4. t \in Rec
    BY <1>1, <1>3 DEF Rec, setState
  <1> QED BY <1>1, <1>4

(* What switchIn and switchOut change.                                     *)
LEMMA SwitchInEffect ==
  ASSUME NEW s \in Rec, NEW c \in Cpus, NEW p \in Pids
  PROVE  LET t == switchIn(s, c, p) IN
         /\ t \in Rec /\ t.queue = s.queue /\ t.working = s.working \cup {c}
         /\ t.proc = [s.proc EXCEPT ![p] = Start(s.proc[p], c)]
         /\ t.flow = [s.flow EXCEPT ![c] = s.flow[c] \cup {p}]
         /\ t.avail = [s.avail EXCEPT ![c] = IF s.avail[c] > 0 THEN s.avail[c] - 1 ELSE 0]
  <1> DEFINE w == workingListAdd(s, c)
             m == ~s.proc[p].migrable
             t == switchIn(s, c, p)
  <1>1. /\ w \in Rec /\ w.proc = s.proc /\ w.queue = s.queue /\ w.flow = s.flow
        /\ w.working = s.working \cup {c}
        /\ w.avail = [s.avail EXCEPT ![c] = IF s.avail[c] > 0 THEN s.avail[c] - 1 ELSE 0]
    BY AddEffect
  <1>2. t = [w EXCEPT !.proc[p].cpu = c, !.proc[p].state = "Running",
                      !.proc[p].pinned = @ \/ m, !.flow[c] = @ \cup {p}]
    BY DEF switchIn
  <1> HIDE DEF w, m, t
  <1>3. t.proc = [w.proc EXCEPT ![p] = [w.proc[p] EXCEPT !.cpu = c, !.state = "Running",
                                          !.pinned = w.proc[p].pinned \/ m]]
    BY <1>1, <1>2 DEF Rec, ProcessId
  <1>4. /\ t.avail = w.avail /\ t.queue = w.queue /\ t.working = w.working
        /\ t.flow = [w.flow EXCEPT ![c] = w.flow[c] \cup {p}]
    BY <1>1, <1>2 DEF Rec
  <1>5. t.proc = [s.proc EXCEPT ![p] = Start(s.proc[p], c)]
    BY <1>1, <1>3 DEF Start, m
  <1>6. t.proc \in [Pids -> ProcessId]
    <2>1. Start(s.proc[p], c) \in ProcessId
      BY Fields, StartType
    <2> QED BY <1>5, <2>1, Fields
  <1>7. t.flow \in [Cpus -> SUBSET Pids]
    BY <1>1, <1>4, Fields
  <1>8. t \in Rec
    BY <1>1, <1>2, <1>4, <1>6, <1>7 DEF Rec
  <1> QED BY <1>1, <1>4, <1>5, <1>8 DEF t

(* The process leaves the flow and is ready.                               *)
LEMMA SwitchOutEffect ==
  ASSUME NEW s \in Rec, NEW c \in Cpus, NEW p \in Pids
  PROVE  LET t == switchOut(s, c, p) IN
         /\ t \in Rec /\ t.queue = s.queue /\ t.working = s.working
         /\ t.proc = [s.proc EXCEPT ![p] = [s.proc[p] EXCEPT !.state = "Ready"]]
         /\ t.flow = [s.flow EXCEPT ![c] = s.flow[c] \ {p}]
         /\ t.avail = [s.avail EXCEPT ![c] = IF s.avail[c] = 0 THEN 1 ELSE s.avail[c]]
  <1> DEFINE w == setState(s, p, "Ready")
             u == [w EXCEPT !.flow[c] = @ \ {p}]
             t == switchOut(s, c, p)
  <1>1. /\ w \in Rec /\ w.queue = s.queue /\ w.flow = s.flow
        /\ w.working = s.working /\ w.avail = s.avail
        /\ w.proc = [s.proc EXCEPT ![p] = [s.proc[p] EXCEPT !.state = "Ready"]]
    BY SetEffect DEF ProcessState
  <1> HIDE DEF w
  <1>2. /\ u.proc = w.proc /\ u.queue = w.queue /\ u.working = w.working
        /\ u.avail = w.avail /\ u.flow = [w.flow EXCEPT ![c] = w.flow[c] \ {p}]
    BY <1>1 DEF Rec
  <1>3. u.flow \in [Cpus -> SUBSET Pids]
    BY <1>1, <1>2, Fields
  <1>4. u \in Rec
    BY <1>1, <1>2, <1>3 DEF Rec
  <1> HIDE DEF u
  <1>5. t = workingListRemove(u, c)
    BY DEF switchOut, u, w
  <1> HIDE DEF t
  <1>6. /\ t \in Rec /\ t.proc = u.proc /\ t.queue = u.queue /\ t.flow = u.flow
        /\ t.working = u.working
        /\ t.avail = [u.avail EXCEPT ![c] = IF u.avail[c] = 0 THEN 1 ELSE u.avail[c]]
    BY <1>4, <1>5, RemoveEffect
  <1> QED BY <1>1, <1>2, <1>6 DEF t

(* A step that only changes the queue, or only the process table.          *)
LEMMA QueueEffect ==
  ASSUME NEW s \in Rec, NEW q \in Seq(Pids)
  PROVE  LET t == [s EXCEPT !.queue = q] IN
         /\ t \in Rec /\ t.queue = q /\ t.proc = s.proc /\ t.flow = s.flow
         /\ t.working = s.working /\ t.avail = s.avail
  BY DEF Rec

(* The process table is replaced.                                          *)
LEMMA ProcEffect ==
  ASSUME NEW s \in Rec, NEW f \in [Pids -> ProcessId]
  PROVE  LET t == [s EXCEPT !.proc = f] IN
         /\ t \in Rec /\ t.proc = f /\ t.queue = s.queue /\ t.flow = s.flow
         /\ t.working = s.working /\ t.avail = s.avail
  BY DEF Rec
-----------------------------------------------------------------------------
(***************************************************************************)
(* The steps of a call keep a good state good.                             *)
(***************************************************************************)
(* The order only depends on the queue, on which processes are runnable    *)
(* and on the priorities.                                                  *)
LEMMA SameOrder ==
  ASSUME NEW s \in Rec, NEW t \in Rec, Ordered(s), t.queue = s.queue,
         \A p \in Pids : /\ Runnable(t.proc[p]) <=> Runnable(s.proc[p])
                         /\ Runnable(s.proc[p]) => prio(t, p) = prio(s, p)
  PROVE  Ordered(t)
  <1>1. \A a, b : Ahead(s.queue, a, b) => In(s.queue, a) /\ In(s.queue, b)
    BY DEF Ahead, In
  <1> QED BY <1>1 DEF Ordered

(* Switching in a ready process on a processor with a free flow.           *)
LEMMA SwitchInGood ==
  ASSUME NEW s \in Rec, NEW c \in Cpus, NEW p \in Pids, Good(s),
         s.proc[p].state = "Ready", availableFlows(s, c) > 0
  PROVE  LET t == switchIn(s, c, p) IN
         /\ Good(t) /\ t.queue = s.queue
         /\ t.proc = [s.proc EXCEPT ![p] = Start(s.proc[p], c)]
         /\ t.flow = [s.flow EXCEPT ![c] = s.flow[c] \cup {p}]
         /\ p \notin s.flow[c]
         /\ availableFlows(t, c) = availableFlows(s, c) - 1
         /\ \A d \in Cpus \ {c} : availableFlows(t, d) = availableFlows(s, d)
  <1> DEFINE t == switchIn(s, c, p)
  <1>1. /\ t \in Rec /\ t.queue = s.queue /\ t.working = s.working \cup {c}
        /\ t.proc = [s.proc EXCEPT ![p] = Start(s.proc[p], c)]
        /\ t.flow = [s.flow EXCEPT ![c] = s.flow[c] \cup {p}]
        /\ t.avail = [s.avail EXCEPT ![c] = IF s.avail[c] > 0 THEN s.avail[c] - 1 ELSE 0]
    BY SwitchInEffect
  <1> HIDE DEF t
  <1>2. /\ t.proc[p] = Start(s.proc[p], c)
        /\ \A q \in Pids : q # p => t.proc[q] = s.proc[q]
        /\ t.flow[c] = s.flow[c] \cup {p}
        /\ \A d \in Cpus : d # c => t.flow[d] = s.flow[d] /\ t.avail[d] = s.avail[d]
        /\ t.avail[c] = IF s.avail[c] > 0 THEN s.avail[c] - 1 ELSE 0
    BY <1>1, Fields
  <1>3. /\ t.proc[p].state = "Running" /\ t.proc[p].cpu = c
        /\ t.proc[p].priority = s.proc[p].priority
    <2>1. s.proc[p] \in ProcessId
      BY Fields
    <2>2. LET r == Start(s.proc[p], c) IN
          r.state = "Running" /\ r.cpu = c /\ r.priority = s.proc[p].priority
      BY <2>1, StartType
    <2> QED BY <1>2, <2>2
  <1>4. /\ \A d \in Cpus : p \notin s.flow[d]
        /\ \A q \in Pids, d \in Cpus : q \in s.flow[d] <=> RunsOn(s, q, d)
        /\ \A d \in Cpus : s.flow[d] # {} => d \in s.working
    BY DEF Good, FlowsExact, RunsOn
  <1>5. Cardinality(t.flow[c]) = Cardinality(s.flow[c]) + 1
    <2>1. IsFiniteSet(s.flow[c]) /\ p \notin s.flow[c]
      BY <1>4, Flows
    <2> QED BY <1>2, <2>1, FS_AddElement
  <1>6. Placed(t)
    BY <1>2, <1>3 DEF Good, Placed
  <1>7. FlowsExact(t)
    <2> SUFFICES ASSUME NEW d \in Cpus
                 PROVE  /\ \A q \in Pids : q \in t.flow[d] <=> RunsOn(t, q, d)
                        /\ Cardinality(t.flow[d]) <= maxFlows[d]
                        /\ t.flow[d] # {} => d \in t.working
      BY DEF FlowsExact
    <2>1. \A q \in Pids : q \in t.flow[d] <=> RunsOn(t, q, d)
      BY <1>2, <1>3, <1>4 DEF RunsOn
    <2>2. Cardinality(s.flow[d]) <= maxFlows[d]
      BY DEF Good, FlowsExact
    <2>3. Cardinality(t.flow[d]) <= maxFlows[d]
      <3>1. Cardinality(s.flow[c]) \in Nat /\ maxFlows[c] \in Nat
        BY Flows
      <3>2. Cardinality(s.flow[c]) + 1 <= maxFlows[c]
        BY <3>1 DEF availableFlows
      <3> QED BY <1>2, <1>5, <2>2, <3>2
    <2>4. t.flow[d] # {} => d \in t.working
      BY <1>1, <1>2, <1>4
    <2> QED BY <2>1, <2>3, <2>4
  <1>8. /\ availableFlows(t, c) = availableFlows(s, c) - 1
        /\ \A d \in Cpus \ {c} : availableFlows(t, d) = availableFlows(s, d)
    BY <1>2, <1>5, Flows DEF availableFlows
  <1>9. Offers(t)
    <2> SUFFICES ASSUME NEW d \in Cpus
                 PROVE  /\ t.avail[d] <= availableFlows(t, d)
                        /\ t.flow[d] = {} => t.avail[d] > 0
      BY DEF Offers
    <2>1. /\ s.avail[d] <= availableFlows(s, d) /\ s.avail[d] \in Nat
          /\ s.flow[d] = {} => s.avail[d] > 0
      BY Fields DEF Good, Offers
    <2>2. availableFlows(s, d) \in Int
      BY Flows DEF availableFlows
    <2>3. CASE d = c
      <3>1. t.flow[d] # {}
        BY <1>2, <2>3
      <3>2. t.avail[d] <= availableFlows(t, d)
        BY <1>2, <1>8, <2>1, <2>2, <2>3
      <3> QED BY <3>1, <3>2
    <2>4. CASE d # c
      BY <1>2, <1>8, <2>1, <2>4
    <2> QED BY <2>3, <2>4
  <1>10. Ordered(t)
    <2>1. \A q \in Pids : /\ Runnable(t.proc[q]) <=> Runnable(s.proc[q])
                          /\ Runnable(s.proc[q]) => prio(t, q) = prio(s, q)
      BY <1>2, <1>3 DEF Runnable, prio
    <2> QED BY <1>1, <2>1, SameOrder DEF Good
  <1> QED BY <1>1, <1>4, <1>6, <1>7, <1>8, <1>9, <1>10 DEF Good, t

(* Switching out a running process.                                        *)
LEMMA SwitchOutGood ==
  ASSUME NEW s \in Rec, NEW c \in Cpus, NEW p \in Pids, Good(s), RunsOn(s, p, c)
  PROVE  LET t == switchOut(s, c, p) IN
         /\ Good(t) /\ t.queue = s.queue
         /\ t.proc = [s.proc EXCEPT ![p] = [s.proc[p] EXCEPT !.state = "Ready"]]
         /\ t.flow = [s.flow EXCEPT ![c] = s.flow[c] \ {p}]
         /\ p \in s.flow[c]
         /\ availableFlows(t, c) = availableFlows(s, c) + 1 /\ availableFlows(t, c) > 0
         /\ \A d \in Cpus \ {c} : availableFlows(t, d) = availableFlows(s, d)
  <1> DEFINE t == switchOut(s, c, p)
  <1>1. /\ t \in Rec /\ t.queue = s.queue /\ t.working = s.working
        /\ t.proc = [s.proc EXCEPT ![p] = [s.proc[p] EXCEPT !.state = "Ready"]]
        /\ t.flow = [s.flow EXCEPT ![c] = s.flow[c] \ {p}]
        /\ t.avail = [s.avail EXCEPT ![c] = IF s.avail[c] = 0 THEN 1 ELSE s.avail[c]]
    BY SwitchOutEffect
  <1> HIDE DEF t
  <1>2. /\ t.proc[p] = [s.proc[p] EXCEPT !.state = "Ready"]
        /\ \A q \in Pids : q # p => t.proc[q] = s.proc[q]
        /\ t.flow[c] = s.flow[c] \ {p}
        /\ \A d \in Cpus : d # c => t.flow[d] = s.flow[d] /\ t.avail[d] = s.avail[d]
        /\ t.avail[c] = IF s.avail[c] = 0 THEN 1 ELSE s.avail[c]
    BY <1>1, Fields
  <1>3. /\ t.proc[p].state = "Ready" /\ t.proc[p].cpu = s.proc[p].cpu
        /\ t.proc[p].priority = s.proc[p].priority /\ t.proc[p].pinned = s.proc[p].pinned
    BY <1>2, Fields, StateType DEF ProcessState
  <1>4. /\ p \in s.flow[c] /\ s.proc[p].state = "Running" /\ s.proc[p].cpu = c
        /\ \A q \in Pids, d \in Cpus : q \in s.flow[d] <=> RunsOn(s, q, d)
        /\ \A d \in Cpus : s.flow[d] # {} => d \in s.working
    BY DEF Good, FlowsExact, RunsOn
  <1>5. Cardinality(t.flow[c]) = Cardinality(s.flow[c]) - 1
    <2>1. IsFiniteSet(s.flow[c]) /\ p \in s.flow[c]
      BY <1>4, Flows
    <2>2. Cardinality(s.flow[c] \ {p}) = Cardinality(s.flow[c]) - 1
      BY <2>1, FS_RemoveElement
    <2> QED BY <1>2, <2>2
  <1>6. Placed(t)
    BY <1>2, <1>3, <1>4 DEF Good, Placed
  <1>7. FlowsExact(t)
    <2> SUFFICES ASSUME NEW d \in Cpus
                 PROVE  /\ \A q \in Pids : q \in t.flow[d] <=> RunsOn(t, q, d)
                        /\ Cardinality(t.flow[d]) <= maxFlows[d]
                        /\ t.flow[d] # {} => d \in t.working
      BY DEF FlowsExact
    <2>1. \A q \in Pids : q \in t.flow[d] <=> RunsOn(t, q, d)
      <3> SUFFICES ASSUME NEW q \in Pids
                   PROVE  q \in t.flow[d] <=> RunsOn(t, q, d)
        OBVIOUS
      <3>1. q \in s.flow[d] <=> RunsOn(s, q, d)
        BY <1>4
      <3>2. CASE q = p
        <4>1. ~RunsOn(t, q, d)
          BY <3>2, <1>3 DEF RunsOn
        <4>2. q \notin t.flow[d]
          BY <3>1, <3>2, <1>2, <1>4 DEF RunsOn
        <4> QED BY <4>1, <4>2
      <3>3. CASE q # p
        BY <3>1, <3>3, <1>2 DEF RunsOn
      <3> QED BY <3>2, <3>3
    <2>2. Cardinality(s.flow[d]) <= maxFlows[d]
      BY DEF Good, FlowsExact
    <2>3. Cardinality(t.flow[d]) <= maxFlows[d]
      <3>1. Cardinality(s.flow[c]) \in Nat /\ maxFlows[c] \in Nat
        BY Flows
      <3>2. CASE d = c
        BY <1>5, <2>2, <3>1, <3>2
      <3>3. CASE d # c
        BY <1>2, <2>2, <3>3
      <3> QED BY <3>2, <3>3
    <2>4. t.flow[d] # {} => d \in t.working
      BY <1>1, <1>2, <1>4
    <2> QED BY <2>1, <2>3, <2>4
  <1>8. /\ availableFlows(t, c) = availableFlows(s, c) + 1
        /\ \A d \in Cpus \ {c} : availableFlows(t, d) = availableFlows(s, d)
    BY <1>2, <1>5, Flows DEF availableFlows
  <1>9. \A d \in Cpus : /\ s.avail[d] <= availableFlows(s, d) /\ s.avail[d] \in Nat
                        /\ s.flow[d] = {} => s.avail[d] > 0
                        /\ availableFlows(s, d) \in Int
    BY Fields, Flows DEF Good, Offers, availableFlows
  <1>10. Offers(t)
    <2> SUFFICES ASSUME NEW d \in Cpus
                 PROVE  /\ t.avail[d] <= availableFlows(t, d)
                        /\ t.flow[d] = {} => t.avail[d] > 0
      BY DEF Offers
    <2>1. CASE d = c
      BY <1>2, <1>8, <1>9, <2>1
    <2>2. CASE d # c
      BY <1>2, <1>8, <1>9, <2>2
    <2> QED BY <2>1, <2>2
  <1>11. Ordered(t)
    <2>1. \A q \in Pids : /\ Runnable(t.proc[q]) <=> Runnable(s.proc[q])
                          /\ Runnable(s.proc[q]) => prio(t, q) = prio(s, q)
      BY <1>2, <1>3, <1>4 DEF Runnable, prio
    <2> QED BY <1>1, <2>1, SameOrder DEF Good
  <1>12. availableFlows(t, c) > 0
    BY <1>8, <1>9
  <1> QED BY <1>1, <1>4, <1>6, <1>7, <1>8, <1>10, <1>11, <1>12 DEF Good, t
-----------------------------------------------------------------------------
(***************************************************************************)
(* The queue: where a process is put, and what that says of its priority.  *)
(***************************************************************************)
Sorted(q, f) == \A a, b \in Pids : Ahead(q, a, b) => f[a] <= f[b]

(* Behind the processes as good as it and ahead of the worse ones.         *)
LEMMA PutInOrder ==
  ASSUME NEW q \in Seq(Pids), NEW p \in Pids, NEW j \in 1 .. Len(q) + 1,
         NEW f \in [Pids -> Int], Once(q), ~In(q, p), Sorted(q, f),
         \A i \in 1 .. j - 1 : f[q[i]] <= f[p],
         \A i \in j .. Len(q) : f[q[i]] > f[p]
  PROVE  LET r == InsertAt(q, j, p) IN
         /\ r \in Seq(Pids) /\ Once(r) /\ Sorted(r, f)
         /\ \A a : In(r, a) <=> (a = p \/ In(q, a))
         /\ \A a, b : a # p /\ b # p => (Ahead(r, a, b) <=> Ahead(q, a, b))
         /\ \A u \in Pids : In(q, u) => /\ Ahead(r, u, p) <=> f[u] <= f[p]
                                        /\ Ahead(r, p, u) <=> f[u] > f[p]
  <1> DEFINE r == InsertAt(q, j, p)
  <1>1. /\ r \in Seq(Pids) /\ Once(r)
        /\ \A a : In(r, a) <=> (a = p \/ In(q, a))
        /\ \A a, b : a # p /\ b # p => (Ahead(r, a, b) <=> Ahead(q, a, b))
        /\ \A a : Ahead(r, a, p) <=> \E i \in 1 .. j - 1 : q[i] = a
        /\ \A b : Ahead(r, p, b) <=> \E i \in j .. Len(q) : q[i] = b
    BY InsertOrder
  <1> HIDE DEF r
  <1>2. DOMAIN q = 1 .. Len(q) /\ Len(q) \in Nat /\ f[p] \in Int
    OBVIOUS
  <1>3. \A a : Ahead(r, a, p) => f[a] <= f[p]
    BY <1>1
  <1>4. \A b : Ahead(r, p, b) => f[b] > f[p]
    BY <1>1
  <1>5. \A u \in Pids : In(q, u) => Ahead(r, u, p) \/ Ahead(r, p, u)
    <2> SUFFICES ASSUME NEW u \in Pids, In(q, u)
                 PROVE  Ahead(r, u, p) \/ Ahead(r, p, u)
      OBVIOUS
    <2>1. PICK i \in DOMAIN q : q[i] = u
      BY DEF In
    <2>2. i \in 1 .. j - 1 \/ i \in j .. Len(q)
      BY <1>2, <2>1
    <2> QED BY <1>1, <2>1, <2>2
  <1>6. \A u \in Pids : In(q, u) => /\ Ahead(r, u, p) <=> f[u] <= f[p]
                                    /\ Ahead(r, p, u) <=> f[u] > f[p]
    <2> SUFFICES ASSUME NEW u \in Pids, In(q, u)
                 PROVE  /\ Ahead(r, u, p) <=> f[u] <= f[p]
                        /\ Ahead(r, p, u) <=> f[u] > f[p]
      OBVIOUS
    <2>1. f[u] \in Int /\ ~(f[u] <= f[p] /\ f[u] > f[p])
      BY <1>2
    <2> QED BY <1>3, <1>4, <1>5, <2>1
  <1>7. Sorted(r, f)
    <2> SUFFICES ASSUME NEW a \in Pids, NEW b \in Pids, Ahead(r, a, b)
                 PROVE  f[a] <= f[b]
      BY DEF Sorted
    <2>1. CASE a = p
      <3>1. f[b] > f[p] /\ f[b] \in Int
        BY <1>4, <2>1
      <3> QED BY <1>2, <2>1, <3>1
    <2>2. CASE a # p /\ b = p
      BY <1>3, <2>2
    <2>3. CASE a # p /\ b # p
      BY <1>1, <2>3 DEF Sorted
    <2> QED BY <2>1, <2>2, <2>3
  <1> QED BY <1>1, <1>6, <1>7 DEF r

Prios(s) == [x \in Pids |-> prio(s, x)]

(* Priorities are integers, and an ordered queue is sorted by them.        *)
LEMMA PriosType ==
  ASSUME NEW s \in Rec
  PROVE  /\ Prios(s) \in [Pids -> Int]
         /\ \A x \in Pids : Prios(s)[x] = prio(s, x) /\ prio(s, x) \in Int
         /\ Ordered(s) => Sorted(s.queue, Prios(s))
  <1>1. \A x \in Pids : prio(s, x) \in Int
    BY Fields, BoundAssumption DEF prio, ProcessId
  <1>2. Prios(s) \in [Pids -> Int] /\ \A x \in Pids : Prios(s)[x] = prio(s, x)
    BY <1>1 DEF Prios
  <1> QED BY <1>1, <1>2 DEF Ordered, Sorted

(* What queuePromote passes is worse than p; what it stops at is not.      *)
LEMMA Promoted ==
  ASSUME NEW s \in Rec, NEW p \in Pids, NEW k \in 1 .. Len(s.queue) + 1
  PROVE  LET j == promotedTo(s, p, k) IN
         /\ j \in 1 .. k
         /\ \A i \in j .. k - 1 : prio(s, s.queue[i]) > prio(s, p)
         /\ j > 1 => prio(s, s.queue[j - 1]) <= prio(s, p)
  <1> DEFINE S == {0} \cup {i \in 1 .. k - 1 : prio(s, s.queue[i]) <= prio(s, p)}
  <1>1. Len(s.queue) \in Nat /\ DOMAIN s.queue = 1 .. Len(s.queue)
    BY Fields
  <1>2. S \in SUBSET Nat /\ S # {} /\ \A y \in S : y <= k
    BY <1>1
  <1>3. Max(S) \in S /\ \A y \in S : Max(S) >= y
    <2>1. k \in Nat
      BY <1>1
    <2> QED BY <1>2, <2>1, GreatestNatural
  <1>4. promotedTo(s, p, k) = 1 + Max(S)
    BY DEF promotedTo
  <1>5. \A i \in 1 .. k - 1 : prio(s, s.queue[i]) \in Int /\ prio(s, p) \in Int
    <2>1. \A i \in 1 .. k - 1 : s.queue[i] \in Pids
      BY <1>1, Fields
    <2> QED BY <2>1, PriosType
  <1>6. Max(S) \in 0 .. k - 1 /\ (Max(S) > 0 => prio(s, s.queue[Max(S)]) <= prio(s, p))
    BY <1>1, <1>3
  <1>7. \A i \in 1 .. k - 1 : i > Max(S) => prio(s, s.queue[i]) > prio(s, p)
    <2> SUFFICES ASSUME NEW i \in 1 .. k - 1, i > Max(S)
                 PROVE  prio(s, s.queue[i]) > prio(s, p)
      OBVIOUS
    <2>1. i \notin S
      BY <1>3, <1>6
    <2> QED BY <1>5, <2>1
  <1> HIDE DEF S
  <1>8. promotedTo(s, p, k) \in 1 .. k /\ promotedTo(s, p, k) - 1 = Max(S)
    BY <1>4, <1>6
  <1>9. \A i \in promotedTo(s, p, k) .. k - 1 : i \in 1 .. k - 1 /\ i > Max(S)
    BY <1>1, <1>4, <1>6
  <1> QED BY <1>4, <1>6, <1>7, <1>8, <1>9

(* The same of queueDemote.                                                *)
LEMMA Demoted ==
  ASSUME NEW s \in Rec, NEW p \in Pids, NEW k \in 1 .. Len(s.queue)
  PROVE  LET j == demotedTo(s, p, k) IN
         /\ j \in k .. Len(s.queue)
         /\ \A i \in k + 1 .. j : prio(s, s.queue[i]) <= prio(s, p)
         /\ j < Len(s.queue) => prio(s, s.queue[j + 1]) > prio(s, p)
  <1> DEFINE S == {Len(s.queue) + 1} \cup
                  {i \in k + 1 .. Len(s.queue) : prio(s, s.queue[i]) > prio(s, p)}
  <1>1. Len(s.queue) \in Nat /\ DOMAIN s.queue = 1 .. Len(s.queue)
    BY Fields
  <1>2. S \in SUBSET Nat /\ S # {}
    BY <1>1
  <1>3. Min(S) \in S /\ \A y \in S : Min(S) <= y
    BY <1>2, LeastNatural
  <1>4. demotedTo(s, p, k) = Min(S) - 1
    BY DEF demotedTo
  <1>5. \A i \in k + 1 .. Len(s.queue) : prio(s, s.queue[i]) \in Int /\ prio(s, p) \in Int
    <2>1. \A i \in k + 1 .. Len(s.queue) : s.queue[i] \in Pids
      BY <1>1, Fields
    <2> QED BY <2>1, PriosType
  <1>6. /\ Min(S) \in k + 1 .. Len(s.queue) + 1
        /\ Min(S) <= Len(s.queue) => prio(s, s.queue[Min(S)]) > prio(s, p)
    BY <1>1, <1>3
  <1>7. \A i \in k + 1 .. Len(s.queue) : i < Min(S) => prio(s, s.queue[i]) <= prio(s, p)
    <2> SUFFICES ASSUME NEW i \in k + 1 .. Len(s.queue), i < Min(S)
                 PROVE  prio(s, s.queue[i]) <= prio(s, p)
      OBVIOUS
    <2>1. i \notin S
      BY <1>1, <1>3, <1>6
    <2> QED BY <1>5, <2>1
  <1> HIDE DEF S
  <1>8. /\ demotedTo(s, p, k) \in k .. Len(s.queue)
        /\ demotedTo(s, p, k) + 1 = Min(S)
    BY <1>1, <1>4, <1>6
  <1>9. \A i \in k + 1 .. demotedTo(s, p, k) : i \in k + 1 .. Len(s.queue) /\ i < Min(S)
    BY <1>1, <1>4, <1>6
  <1>10. demotedTo(s, p, k) < Len(s.queue) => Min(S) <= Len(s.queue)
    BY <1>1, <1>8
  <1> QED BY <1>6, <1>7, <1>8, <1>9, <1>10

(* So everything ahead of where it stops is as good, if the queue is       *)
(* sorted up to there.                                                     *)
LEMMA PromotedBehind ==
  ASSUME NEW s \in Rec, NEW p \in Pids, NEW k \in 1 .. Len(s.queue) + 1,
         \A i, l \in 1 .. k - 1 : i < l => prio(s, s.queue[i]) <= prio(s, s.queue[l])
  PROVE  \A i \in 1 .. promotedTo(s, p, k) - 1 : prio(s, s.queue[i]) <= prio(s, p)
  <1> DEFINE j == promotedTo(s, p, k)
  <1>1. j \in 1 .. k /\ (j > 1 => prio(s, s.queue[j - 1]) <= prio(s, p))
    BY Promoted
  <1> HIDE DEF j
  <1>2. s.queue \in Seq(Pids) /\ Len(s.queue) \in Nat
    BY Fields
  <1> SUFFICES ASSUME NEW i \in 1 .. j - 1
               PROVE  prio(s, s.queue[i]) <= prio(s, p)
    BY DEF j
  <1>3. /\ j > 1 /\ j - 1 \in 1 .. k - 1 /\ i \in 1 .. k - 1 /\ (i = j - 1 \/ i < j - 1)
        /\ i \in 1 .. Len(s.queue) /\ j - 1 \in 1 .. Len(s.queue)
    BY <1>1, <1>2
  <1>4. s.queue[i] \in Pids /\ s.queue[j - 1] \in Pids
    BY <1>2, <1>3
  <1>5. prio(s, s.queue[i]) \in Int /\ prio(s, s.queue[j - 1]) \in Int /\ prio(s, p) \in Int
    BY <1>4, PriosType
  <1>6. prio(s, s.queue[i]) <= prio(s, s.queue[j - 1])
    BY <1>3, <1>5
  <1> QED BY <1>1, <1>3, <1>5, <1>6

(* And everything behind where queueDemote stops is worse.                 *)
LEMMA DemotedAhead ==
  ASSUME NEW s \in Rec, NEW p \in Pids, NEW k \in 1 .. Len(s.queue),
         \A i, l \in k + 1 .. Len(s.queue) :
           i < l => prio(s, s.queue[i]) <= prio(s, s.queue[l])
  PROVE  \A i \in demotedTo(s, p, k) + 1 .. Len(s.queue) : prio(s, s.queue[i]) > prio(s, p)
  <1> DEFINE j == demotedTo(s, p, k)
  <1>1. /\ j \in k .. Len(s.queue)
        /\ j < Len(s.queue) => prio(s, s.queue[j + 1]) > prio(s, p)
    BY Demoted
  <1> HIDE DEF j
  <1>2. s.queue \in Seq(Pids) /\ Len(s.queue) \in Nat
    BY Fields
  <1> SUFFICES ASSUME NEW i \in j + 1 .. Len(s.queue)
               PROVE  prio(s, s.queue[i]) > prio(s, p)
    BY DEF j
  <1>3. /\ j < Len(s.queue) /\ j + 1 \in k + 1 .. Len(s.queue) /\ i \in k + 1 .. Len(s.queue)
        /\ (i = j + 1 \/ j + 1 < i)
        /\ i \in 1 .. Len(s.queue) /\ j + 1 \in 1 .. Len(s.queue)
    BY <1>1, <1>2
  <1>4. s.queue[i] \in Pids /\ s.queue[j + 1] \in Pids
    BY <1>2, <1>3
  <1>5. prio(s, s.queue[i]) \in Int /\ prio(s, s.queue[j + 1]) \in Int /\ prio(s, p) \in Int
    BY <1>4, PriosType
  <1>6. prio(s, s.queue[j + 1]) <= prio(s, s.queue[i])
    BY <1>3, <1>5
  <1> QED BY <1>1, <1>3, <1>5, <1>6

(* The processors only depend on which process runs where.                 *)
LEMMA SameFlows ==
  ASSUME NEW s \in Rec, NEW t \in Rec, FlowsExact(s), Offers(s),
         t.flow = s.flow, t.avail = s.avail, t.working = s.working,
         \A q \in Pids, c \in Cpus : RunsOn(t, q, c) <=> RunsOn(s, q, c)
  PROVE  FlowsExact(t) /\ Offers(t) /\ \A c \in Cpus : availableFlows(t, c) = availableFlows(s, c)
  BY DEF FlowsExact, Offers, availableFlows

(* becomeReady puts the process behind those as good as it.                *)
LEMMA ReadyGood ==
  ASSUME NEW s \in Rec, NEW p \in Pids, Good(s), ~Runnable(s.proc[p])
  PROVE  LET t == becomeReady(s, p) IN
         /\ Good(t) /\ t.flow = s.flow
         /\ t.proc = [s.proc EXCEPT ![p] = [s.proc[p] EXCEPT !.state = "Ready"]]
         /\ \A a, b : a # p /\ b # p => (Ahead(t.queue, a, b) <=> Ahead(s.queue, a, b))
         /\ \A u \in Pids : Runnable(s.proc[u]) =>
              /\ Ahead(t.queue, u, p) <=> prio(s, u) <= prio(s, p)
              /\ Ahead(t.queue, p, u) <=> prio(s, u) > prio(s, p)
  <1> DEFINE w == setState(s, p, "Ready")
             j == promotedTo(s, p, Len(s.queue) + 1)
             r == InsertAt(s.queue, j, p)
             t == becomeReady(s, p)
             f == Prios(s)
  <1>1. /\ w \in Rec /\ w.queue = s.queue /\ w.flow = s.flow
        /\ w.working = s.working /\ w.avail = s.avail
        /\ w.proc = [s.proc EXCEPT ![p] = [s.proc[p] EXCEPT !.state = "Ready"]]
    BY SetEffect DEF ProcessState
  <1>2. t = [w EXCEPT !.queue = r]
    BY <1>1 DEF becomeReady, queueInsertAt
  <1>3. s.queue \in Seq(Pids) /\ Len(s.queue) \in Nat /\ DOMAIN s.queue = 1 .. Len(s.queue)
    BY Fields
  <1>4. /\ Once(s.queue) /\ ~In(s.queue, p)
        /\ \A u \in Pids : In(s.queue, u) <=> Runnable(s.proc[u])
    BY DEF Good, Ordered
  <1>5. /\ j \in 1 .. Len(s.queue) + 1
        /\ \A i \in j .. Len(s.queue) : prio(s, s.queue[i]) > prio(s, p)
        /\ j > 1 => prio(s, s.queue[j - 1]) <= prio(s, p)
    BY <1>3, Promoted
  <1> HIDE DEF w, r, t, j, f
  <1>6. /\ f \in [Pids -> Int] /\ Sorted(s.queue, f)
        /\ \A x \in Pids : f[x] = prio(s, x) /\ prio(s, x) \in Int
    BY PriosType DEF Good, f
  <1>7. \A i \in DOMAIN s.queue : s.queue[i] \in Pids
    BY <1>3
  <1>8. \A i \in 1 .. j - 1 : f[s.queue[i]] <= f[p]
    <2>1. \A i, l \in 1 .. Len(s.queue) : i < l => prio(s, s.queue[i]) <= prio(s, s.queue[l])
      <3> SUFFICES ASSUME NEW i \in 1 .. Len(s.queue), NEW l \in 1 .. Len(s.queue), i < l
                   PROVE  prio(s, s.queue[i]) <= prio(s, s.queue[l])
        OBVIOUS
      <3>1. Ahead(s.queue, s.queue[i], s.queue[l])
        BY <1>3 DEF Ahead
      <3>2. f[s.queue[i]] <= f[s.queue[l]]
        BY <3>1, <1>3, <1>6, <1>7 DEF Sorted
      <3> QED BY <3>2, <1>3, <1>6, <1>7
    <2>2. \A i \in 1 .. j - 1 : prio(s, s.queue[i]) <= prio(s, p)
      <3>1. /\ s \in Rec /\ p \in Pids /\ Len(s.queue) + 1 \in 1 .. Len(s.queue) + 1
            /\ (Len(s.queue) + 1) - 1 = Len(s.queue)
        BY <1>3
      <3>2. j = promotedTo(s, p, Len(s.queue) + 1)
        BY DEF j
      <3>3. \A i \in 1 .. promotedTo(s, p, Len(s.queue) + 1) - 1 : prio(s, s.queue[i]) <= prio(s, p)
        BY <2>1, <3>1, PromotedBehind
      <3> QED BY <3>2, <3>3
    <2>3. \A i \in 1 .. j - 1 : s.queue[i] \in Pids
      BY <1>3, <1>5, <1>7
    <2> QED BY <1>6, <2>2, <2>3
  <1>9. \A i \in j .. Len(s.queue) : f[s.queue[i]] > f[p]
    BY <1>3, <1>5, <1>6, <1>7
  <1>10. /\ r \in Seq(Pids) /\ Once(r) /\ Sorted(r, f)
         /\ \A a : In(r, a) <=> (a = p \/ In(s.queue, a))
         /\ \A a, b : a # p /\ b # p => (Ahead(r, a, b) <=> Ahead(s.queue, a, b))
         /\ \A u \in Pids : In(s.queue, u) => /\ Ahead(r, u, p) <=> f[u] <= f[p]
                                              /\ Ahead(r, p, u) <=> f[u] > f[p]
    <2>1. /\ s.queue \in Seq(Pids) /\ j \in 1 .. Len(s.queue) + 1 /\ f \in [Pids -> Int]
          /\ Once(s.queue) /\ ~In(s.queue, p) /\ Sorted(s.queue, f)
      BY <1>3, <1>4, <1>5, <1>6
    <2> QED BY <2>1, <1>8, <1>9, PutInOrder DEF r
  <1>11. /\ t \in Rec /\ t.queue = r /\ t.proc = w.proc /\ t.flow = s.flow
         /\ t.working = s.working /\ t.avail = s.avail
    BY <1>1, <1>2, <1>10, QueueEffect
  <1>12. /\ t.proc[p] = [s.proc[p] EXCEPT !.state = "Ready"]
         /\ \A q \in Pids : q # p => t.proc[q] = s.proc[q]
    BY <1>1, <1>11, Fields
  <1>13. /\ t.proc[p].state = "Ready" /\ t.proc[p].cpu = s.proc[p].cpu
         /\ t.proc[p].priority = s.proc[p].priority /\ t.proc[p].pinned = s.proc[p].pinned
    BY <1>12, Fields, StateType DEF ProcessState
  <1>14. \A q \in Pids : prio(t, q) = prio(s, q)
    BY <1>12, <1>13 DEF prio
  <1>15. Placed(t)
    BY <1>12, <1>13 DEF Good, Placed
  <1>16. \A q \in Pids, c \in Cpus : RunsOn(t, q, c) <=> RunsOn(s, q, c)
    BY <1>12, <1>13 DEF RunsOn, Runnable
  <1>17. FlowsExact(t) /\ Offers(t)
    BY <1>11, <1>16, SameFlows DEF Good
  <1>18. Ordered(t)
    <2>1. \A q \in Pids : In(t.queue, q) <=> Runnable(t.proc[q])
      BY <1>4, <1>10, <1>11, <1>12, <1>13 DEF Runnable
    <2>2. \A a, b \in Pids : Ahead(t.queue, a, b) => prio(t, a) <= prio(t, b)
      BY <1>6, <1>10, <1>11, <1>14 DEF Sorted
    <2> QED BY <1>10, <1>11, <2>1, <2>2 DEF Ordered
  <1>19. \A u \in Pids : Runnable(s.proc[u]) =>
              /\ Ahead(t.queue, u, p) <=> prio(s, u) <= prio(s, p)
              /\ Ahead(t.queue, p, u) <=> prio(s, u) > prio(s, p)
    BY <1>4, <1>6, <1>10, <1>11
  <1>20. \A a, b : a # p /\ b # p => (Ahead(t.queue, a, b) <=> Ahead(s.queue, a, b))
    BY <1>10, <1>11
  <1> QED BY <1>1, <1>11, <1>15, <1>17, <1>18, <1>19, <1>20 DEF Good, t

(* becomeNonReady takes it out of the queue.                               *)
LEMMA NonReadyGood ==
  ASSUME NEW s \in Rec, NEW p \in Pids, Good(s), s.proc[p].state = "Ready"
  PROVE  LET t == becomeNonReady(s, p) IN
         /\ Good(t) /\ t.flow = s.flow
         /\ t.proc = [s.proc EXCEPT ![p] = [s.proc[p] EXCEPT !.state = "Invalid"]]
         /\ \A a, b : a # p /\ b # p => (Ahead(t.queue, a, b) <=> Ahead(s.queue, a, b))
  <1> DEFINE w == setState(s, p, "Invalid")
             k == positionOf(w, p)
             r == RemoveAt(w.queue, k)
             t == becomeNonReady(s, p)
  <1>1. /\ w \in Rec /\ w.queue = s.queue /\ w.flow = s.flow
        /\ w.working = s.working /\ w.avail = s.avail
        /\ w.proc = [s.proc EXCEPT ![p] = [s.proc[p] EXCEPT !.state = "Invalid"]]
    BY SetEffect DEF ProcessState
  <1>2. t = [w EXCEPT !.queue = r]
    BY DEF becomeNonReady, queueRemove
  <1>3. s.queue \in Seq(Pids) /\ Len(s.queue) \in Nat /\ DOMAIN s.queue = 1 .. Len(s.queue)
    BY Fields
  <1>4. /\ Once(s.queue) /\ In(s.queue, p)
        /\ \A u \in Pids : In(s.queue, u) <=> Runnable(s.proc[u])
    BY DEF Good, Ordered, Runnable
  <1> HIDE DEF w, t
  <1>5. k \in 1 .. Len(w.queue) /\ w.queue[k] = p
    BY <1>1, <1>3, <1>4, Position
  <1> HIDE DEF k
  <1>6. /\ r \in Seq(Pids) /\ Once(r)
        /\ \A a : In(r, a) <=> (a # p /\ In(s.queue, a))
        /\ \A a, b : Ahead(r, a, b) <=> (a # p /\ b # p /\ Ahead(s.queue, a, b))
    BY <1>1, <1>3, <1>4, <1>5, RemoveOrder
  <1> HIDE DEF r
  <1>7. /\ t \in Rec /\ t.queue = r /\ t.proc = w.proc /\ t.flow = s.flow
        /\ t.working = s.working /\ t.avail = s.avail
    BY <1>1, <1>2, <1>6, QueueEffect
  <1>8. /\ t.proc[p] = [s.proc[p] EXCEPT !.state = "Invalid"]
        /\ \A q \in Pids : q # p => t.proc[q] = s.proc[q]
    BY <1>1, <1>7, Fields
  <1>9. /\ t.proc[p].state = "Invalid" /\ t.proc[p].cpu = s.proc[p].cpu
        /\ t.proc[p].priority = s.proc[p].priority /\ t.proc[p].pinned = s.proc[p].pinned
    BY <1>8, Fields, StateType DEF ProcessState
  <1>10. \A q \in Pids : prio(t, q) = prio(s, q)
    BY <1>8, <1>9 DEF prio
  <1>11. Placed(t)
    BY <1>8, <1>9 DEF Good, Placed
  <1>12. \A q \in Pids, c \in Cpus : RunsOn(t, q, c) <=> RunsOn(s, q, c)
    BY <1>8, <1>9 DEF RunsOn
  <1>13. FlowsExact(t) /\ Offers(t)
    BY <1>7, <1>12, SameFlows DEF Good
  <1>14. Ordered(t)
    <2>1. \A q \in Pids : In(t.queue, q) <=> Runnable(t.proc[q])
      BY <1>4, <1>6, <1>7, <1>8, <1>9 DEF Runnable
    <2>2. \A a, b \in Pids : Ahead(t.queue, a, b) => prio(t, a) <= prio(t, b)
      BY <1>6, <1>7, <1>10 DEF Good, Ordered
    <2> QED BY <1>6, <1>7, <2>1, <2>2 DEF Ordered
  <1>15. \A a, b : a # p /\ b # p => (Ahead(t.queue, a, b) <=> Ahead(s.queue, a, b))
    BY <1>6, <1>7
  <1> QED BY <1>1, <1>7, <1>11, <1>13, <1>14, <1>15 DEF Good, t
-----------------------------------------------------------------------------
(***************************************************************************)
(* RunningProcs                                                            *)
(***************************************************************************)
(* queueGet finds the first process that fits, if there is one.            *)
LEMMA Got ==
  ASSUME NEW s \in Rec, NEW c \in Cpus, Good(s)
  PROVE  LET n == queueGet(s, c) IN
         \/ n = None /\ \A p \in Pids : ~fits(s, p, c)
         \/ /\ n \in Pids /\ n # None /\ fits(s, n, c)
            /\ \A p \in Pids : fits(s, p, c) /\ p # n => Ahead(s.queue, n, p)
  <1> DEFINE ready == {i \in DOMAIN s.queue : fits(s, s.queue[i], c)}
             n == queueGet(s, c)
  <1>1. s.queue \in Seq(Pids) /\ Len(s.queue) \in Nat /\ DOMAIN s.queue = 1 .. Len(s.queue)
    BY Fields
  <1>2. \A p \in Pids : fits(s, p, c) => \E i \in ready : s.queue[i] = p
    BY DEF Good, Ordered, In, fits, Runnable
  <1>3. CASE ready = {}
    BY <1>2, <1>3 DEF queueGet
  <1>4. CASE ready # {}
    <2>1. Min(ready) \in ready /\ \A y \in ready : Min(ready) <= y
      <3>1. ready \in SUBSET Nat
        BY <1>1
      <3> QED BY <1>4, <3>1, LeastNatural
    <2>2. n = s.queue[Min(ready)]
      BY <1>4 DEF queueGet
    <2> HIDE DEF n
    <2>3. PICK m \in ready : n = s.queue[m] /\ \A y \in ready : m <= y
      BY <2>1, <2>2
    <2>4. m \in DOMAIN s.queue /\ fits(s, s.queue[m], c)
      BY <2>3
    <2>5. n \in Pids /\ fits(s, n, c)
      BY <1>1, <2>3, <2>4
    <2>6. ASSUME NEW p \in Pids, fits(s, p, c), p # n
          PROVE  Ahead(s.queue, n, p)
      <3>1. PICK i \in ready : s.queue[i] = p
        BY <1>2, <2>6
      <3>2. i \in DOMAIN s.queue /\ m <= i /\ m # i
        BY <2>3, <2>6, <3>1
      <3>3. m < i
        BY <1>1, <2>4, <3>2
      <3> QED BY <2>3, <2>4, <3>1, <3>2, <3>3 DEF Ahead
    <2> QED BY <2>5, <2>6, PidAssumption DEF n
  <1> QED BY <1>3, <1>4

(* Only the processes that wait their turn matter to Fair.                 *)
LEMMA FairReady ==
  ASSUME NEW s \in Rec, NEW D, NEW F, Fair(s, D),
         \A p \in Pids : p \in D /\ s.proc[p].state = "Ready" => p \in F
  PROVE  Fair(s, F)
  BY DEF Fair, fits

(* What a call changes for the processes other than the ones it is about.  *)
Undisturbed(x, y) ==
  /\ Akin(x, y) /\ x.priority = y.priority
  /\ x.state = y.state \/ (y.state = "Ready" /\ x.state = "Running")
  /\ ~Runnable(y) => x = y

(* The flow that is given up goes to the first process that fits.          *)
LEMMA MakeNonRunnable ==
  ASSUME NEW s \in Rec, NEW p \in Pids, NEW D, Good(s), Fair(s, D), Runnable(s.proc[p])
  PROVE  LET t == makeNonRunnable(s, p) IN
         /\ Good(t) /\ Fair(t, D)
         /\ t.proc[p] = [s.proc[p] EXCEPT !.state = "Invalid"]
         /\ \A q \in Pids : q # p => Undisturbed(t.proc[q], s.proc[q])
  <1> DEFINE t == makeNonRunnable(s, p)
             c == s.proc[p].cpu
  <1>0. s.proc[p].state \in {"Ready", "Running"}
    BY DEF Runnable
  <1>1. CASE s.proc[p].state = "Ready"
    <2>1. t = becomeNonReady(s, p)
      BY <1>1 DEF makeNonRunnable
    <2>2. /\ Good(t) /\ t.flow = s.flow
          /\ t.proc = [s.proc EXCEPT ![p] = [s.proc[p] EXCEPT !.state = "Invalid"]]
          /\ \A a, b : a # p /\ b # p => (Ahead(t.queue, a, b) <=> Ahead(s.queue, a, b))
      BY <1>1, <2>1, NonReadyGood
    <2> HIDE DEF t
    <2>3. /\ t.proc[p] = [s.proc[p] EXCEPT !.state = "Invalid"]
          /\ \A q \in Pids : q # p => t.proc[q] = s.proc[q]
      BY <2>2, Fields
    <2>4. t.proc[p].state = "Invalid"
      BY <2>3, Fields, StateType DEF ProcessState
    <2>5. \A d \in Cpus : p \notin s.flow[d]
      BY <1>1 DEF Good, FlowsExact, RunsOn
    <2>6. Fair(t, D)
      <3> SUFFICES ASSUME NEW q \in Pids \ D, NEW d \in Cpus, fits(t, q, d)
                   PROVE  /\ availableFlows(t, d) = 0
                          /\ \A u \in Pids : u \in t.flow[d] => Ahead(t.queue, u, q)
        BY DEF Fair
      <3>1. q # p
        BY <2>4 DEF fits
      <3>2. fits(s, q, d)
        BY <3>1, <2>3 DEF fits
      <3>3. /\ availableFlows(s, d) = 0
            /\ \A u \in Pids : u \in s.flow[d] => Ahead(s.queue, u, q)
        BY <3>2 DEF Fair
      <3> QED BY <2>2, <2>5, <3>1, <3>3 DEF availableFlows
    <2>7. \A q \in Pids : q # p => Undisturbed(t.proc[q], s.proc[q])
      BY <2>3 DEF Undisturbed, Akin
    <2> QED BY <2>2, <2>3, <2>6, <2>7 DEF t
  <1>2. CASE s.proc[p].state = "Running"
    <2> DEFINE w == switchOut(s, c, p)
               o == becomeNonReady(w, p)
               n == queueGet(o, c)
    <2>1. c \in Cpus /\ RunsOn(s, p, c)
      BY <1>2 DEF Good, Placed, RunsOn
    <2>2. /\ Good(w) /\ w.queue = s.queue
          /\ w.proc = [s.proc EXCEPT ![p] = [s.proc[p] EXCEPT !.state = "Ready"]]
          /\ w.flow = [s.flow EXCEPT ![c] = s.flow[c] \ {p}]
          /\ p \in s.flow[c]
          /\ availableFlows(w, c) = availableFlows(s, c) + 1 /\ availableFlows(w, c) > 0
          /\ \A d \in Cpus \ {c} : availableFlows(w, d) = availableFlows(s, d)
      BY <2>1, SwitchOutGood
    <2> HIDE DEF w
    <2>3. w \in Rec /\ s.proc[p] \in ProcessId
      BY <2>2, Fields DEF Good
    <2>4. /\ w.proc[p] = [s.proc[p] EXCEPT !.state = "Ready"] /\ w.proc[p].state = "Ready"
          /\ \A q \in Pids : q # p => w.proc[q] = s.proc[q]
      <3>1. w.proc[p] = [s.proc[p] EXCEPT !.state = "Ready"]
            /\ \A q \in Pids : q # p => w.proc[q] = s.proc[q]
        BY <2>2, Fields
      <3> QED BY <3>1, <2>3, StateType DEF ProcessState
    <2>5. /\ Good(o) /\ o.flow = w.flow
          /\ o.proc = [w.proc EXCEPT ![p] = [w.proc[p] EXCEPT !.state = "Invalid"]]
          /\ \A a, b : a # p /\ b # p => (Ahead(o.queue, a, b) <=> Ahead(s.queue, a, b))
      <3>1. w.proc[p].state = "Ready" /\ Good(w)
        BY <2>2, <2>4
      <3>2. /\ Good(o) /\ o.flow = w.flow
            /\ o.proc = [w.proc EXCEPT ![p] = [w.proc[p] EXCEPT !.state = "Invalid"]]
            /\ \A a, b : a # p /\ b # p => (Ahead(o.queue, a, b) <=> Ahead(w.queue, a, b))
        BY <3>1, <2>3, NonReadyGood
      <3> QED BY <3>2, <2>2
    <2> HIDE DEF o
    <2>6. o \in Rec
      BY <2>5 DEF Good
    <2>7. /\ o.proc[p] = [s.proc[p] EXCEPT !.state = "Invalid"] /\ o.proc[p].state = "Invalid"
          /\ \A q \in Pids : q # p => o.proc[q] = s.proc[q]
      <3>1. w.proc \in [Pids -> ProcessId]
        BY <2>3, Fields
      <3>2. o.proc[p] = [w.proc[p] EXCEPT !.state = "Invalid"]
        BY <3>1, <2>5
      <3>3. o.proc[p] = [s.proc[p] EXCEPT !.state = "Invalid"]
        BY <3>2, <2>3, <2>4 DEF ProcessId
      <3>4. o.proc[p].state = "Invalid"
        BY <3>3, <2>3, StateType DEF ProcessState
      <3>5. \A q \in Pids : q # p => o.proc[q] = s.proc[q]
        BY <3>1, <2>4, <2>5
      <3> QED BY <3>3, <3>4, <3>5
    <2>8. /\ availableFlows(o, c) = availableFlows(s, c) + 1 /\ availableFlows(o, c) > 0
          /\ \A d \in Cpus \ {c} : availableFlows(o, d) = availableFlows(s, d)
          /\ \A d \in Cpus, u \in Pids : u \in o.flow[d] => u \in s.flow[d] /\ u # p
      <3>1. /\ availableFlows(o, c) = availableFlows(s, c) + 1 /\ availableFlows(o, c) > 0
            /\ \A d \in Cpus \ {c} : availableFlows(o, d) = availableFlows(s, d)
        BY <2>2, <2>5 DEF availableFlows
      <3>2. \A d \in Cpus, u \in Pids : u \in o.flow[d] => u \in s.flow[d]
        BY <2>2, <2>5, Fields
      <3>3. \A d \in Cpus, u \in Pids : u \in o.flow[d] => u # p
        BY <2>5, <2>7 DEF Good, FlowsExact, RunsOn
      <3> QED BY <3>1, <3>2, <3>3
    <2>9. \/ n = None /\ \A q \in Pids : ~fits(o, q, c)
          \/ /\ n \in Pids /\ n # None /\ fits(o, n, c)
             /\ \A q \in Pids : fits(o, q, c) /\ q # n => Ahead(o.queue, n, q)
      BY <2>1, <2>5, <2>6, Got
    <2> HIDE DEF n
    <2>10. t = IF n = None THEN o ELSE switchIn(o, c, n)
      BY <1>2 DEF makeNonRunnable, n, o, w
    <2> HIDE DEF t, c
    <2>11. \A q \in Pids \ D, d \in Cpus : fits(o, q, d) =>
             /\ q # p /\ availableFlows(s, d) = 0
             /\ \A u \in Pids : u \in o.flow[d] => Ahead(o.queue, u, q)
      <3> SUFFICES ASSUME NEW q \in Pids \ D, NEW d \in Cpus, fits(o, q, d)
                   PROVE  /\ q # p /\ availableFlows(s, d) = 0
                          /\ \A u \in Pids : u \in o.flow[d] => Ahead(o.queue, u, q)
        OBVIOUS
      <3>1. q # p
        BY <2>7 DEF fits
      <3>2. fits(s, q, d)
        BY <3>1, <2>7 DEF fits
      <3>3. /\ availableFlows(s, d) = 0
            /\ \A u \in Pids : u \in s.flow[d] => Ahead(s.queue, u, q)
        BY <3>2 DEF Fair
      <3> QED BY <2>5, <2>8, <3>1, <3>3
    <2>12. CASE n = None
      <3>1. t = o
        BY <2>10, <2>12
      <3>2. \A q \in Pids : ~fits(o, q, c)
        BY <2>9, <2>12
      <3>3. Fair(t, D)
        BY <3>1, <3>2, <2>1, <2>8, <2>11 DEF Fair
      <3>4. \A q \in Pids : q # p => Undisturbed(t.proc[q], s.proc[q])
        BY <3>1, <2>7 DEF Undisturbed, Akin
      <3> QED BY <2>5, <2>7, <3>1, <3>3, <3>4 DEF t
    <2>13. CASE n # None
      <3>1. /\ t = switchIn(o, c, n) /\ n \in Pids /\ fits(o, n, c)
            /\ \A q \in Pids : fits(o, q, c) /\ q # n => Ahead(o.queue, n, q)
        BY <2>9, <2>10, <2>13
      <3>2. /\ Good(t) /\ t.queue = o.queue
            /\ t.proc = [o.proc EXCEPT ![n] = Start(o.proc[n], c)]
            /\ t.flow = [o.flow EXCEPT ![c] = o.flow[c] \cup {n}]
            /\ availableFlows(t, c) = availableFlows(o, c) - 1
            /\ \A d \in Cpus \ {c} : availableFlows(t, d) = availableFlows(o, d)
        <4>1. o.proc[n].state = "Ready" /\ Good(o) /\ availableFlows(o, c) > 0
          BY <3>1, <2>5, <2>8 DEF fits
        <4> QED BY <4>1, <3>1, <2>1, <2>6, SwitchInGood
      <3>3. /\ t.proc[n] = Start(o.proc[n], c)
            /\ \A q \in Pids : q # n => t.proc[q] = o.proc[q]
            /\ t.flow[c] = o.flow[c] \cup {n}
            /\ \A d \in Cpus : d # c => t.flow[d] = o.flow[d]
        BY <3>1, <3>2, <2>1, <2>6, Fields
      <3>4. /\ n # p /\ o.proc[n] = s.proc[n] /\ s.proc[n].state = "Ready"
            /\ s.proc[n] \in ProcessId
        BY <3>1, <2>7, Fields DEF fits
      <3>5. /\ t.proc[n].state = "Running" /\ t.proc[n].priority = s.proc[n].priority
            /\ t.proc[n].ppid = s.proc[n].ppid /\ t.proc[n].nChilds = s.proc[n].nChilds
        <4>1. LET r == Start(s.proc[n], c) IN
              /\ r.state = "Running" /\ r.priority = s.proc[n].priority
              /\ r.ppid = s.proc[n].ppid /\ r.nChilds = s.proc[n].nChilds
          BY <3>4, <2>1, StartType
        <4> QED BY <3>3, <3>4, <4>1
      <3>6. Fair(t, D)
        <4> SUFFICES ASSUME NEW q \in Pids \ D, NEW d \in Cpus, fits(t, q, d)
                     PROVE  /\ availableFlows(t, d) = 0
                            /\ \A u \in Pids : u \in t.flow[d] => Ahead(t.queue, u, q)
          BY DEF Fair
        <4>1. q # n
          BY <3>5 DEF fits
        <4>2. fits(o, q, d)
          BY <4>1, <3>3 DEF fits
        <4>3. /\ q # p /\ availableFlows(s, d) = 0
              /\ \A u \in Pids : u \in o.flow[d] => Ahead(o.queue, u, q)
          BY <4>2, <2>11
        <4>4. CASE d = c
          <5>1. availableFlows(t, d) = 0
            BY <4>3, <4>4, <3>2, <2>8
          <5>2. \A u \in Pids : u \in t.flow[d] => u = n \/ u \in o.flow[d]
            BY <4>4, <3>3
          <5>3. Ahead(o.queue, n, q)
            BY <4>1, <4>2, <4>4, <3>1
          <5> QED BY <5>1, <5>2, <5>3, <4>3, <3>2
        <4>5. CASE d # c
          BY <4>3, <4>5, <3>2, <3>3, <2>8
        <4> QED BY <4>4, <4>5
      <3>7. \A q \in Pids : q # p => Undisturbed(t.proc[q], s.proc[q])
        <4> SUFFICES ASSUME NEW q \in Pids, q # p
                     PROVE  Undisturbed(t.proc[q], s.proc[q])
          OBVIOUS
        <4>1. CASE q = n
          BY <4>1, <3>4, <3>5 DEF Undisturbed, Akin, Runnable
        <4>2. CASE q # n
          BY <4>2, <3>3, <2>7 DEF Undisturbed, Akin
        <4> QED BY <4>1, <4>2
      <3>8. t.proc[p] = [s.proc[p] EXCEPT !.state = "Invalid"]
        BY <3>3, <3>4, <2>7
      <3> QED BY <3>2, <3>6, <3>7, <3>8 DEF t
    <2> QED BY <2>12, <2>13
  <1> QED BY <1>0, <1>1, <1>2
-----------------------------------------------------------------------------
(***************************************************************************)
(* The inductive invariant                                                 *)
(***************************************************************************)
Children(f, p) == {q \in Pids : f[q].state # "Free" /\ f[q].ppid = p}

KinExact(f, A) ==
  /\ \A p \in Pids : f[p].ppid # p
  /\ \A p \in Pids \ A : f[p].state # "Free" =>
       /\ f[p].nChilds = Cardinality(Children(f, p))
       /\ f[p].state = "Waiting" => f[p].nChilds > 0

PendingInvalid ==
  /\ pending \in Pids \cup {None}
  /\ pending # None => pidTable[pending].state = "Invalid"

IInv ==
  /\ Good(Now) /\ Fair(Now, displaced) /\ KinExact(pidTable, adopted)
  /\ PendingInvalid /\ adopted \in SUBSET Pids /\ displaced \in SUBSET Pids

(* The fields of the state a call begins with.                             *)
LEMMA NowFields ==
  /\ Now.proc = pidTable /\ Now.queue = processQueue /\ Now.flow = flow
  /\ Now.avail = availableProcessors /\ Now.working = workingList
  BY DEF Now

(* A call that leaves a good state t keeps the invariant.                  *)
LEMMA Closing ==
  ASSUME NEW t \in Rec, NEW D \in SUBSET Pids, IInv, Becomes(t, D), Good(t),
         Fair(t, displaced \cup D), KinExact(t.proc, adopted'), adopted' \in SUBSET Pids,
         pending' \in Pids \cup {None},
         pending' # None => t.proc[pending'].state = "Invalid"
  PROVE  IInv'
  <1>1. /\ pidTable' = t.proc /\ processQueue' = t.queue /\ flow' = t.flow
        /\ availableProcessors' = t.avail /\ workingList' = t.working
        /\ displaced' = {p \in displaced \cup D : t.proc[p].state = "Ready"}
    BY DEF Becomes
  <1>2. Now' = t
    BY <1>1, Fields DEF Now
  <1>3. displaced' \in SUBSET Pids
    BY <1>1 DEF IInv
  <1>4. Fair(t, displaced')
    <2>1. \A p \in Pids : p \in displaced \cup D /\ t.proc[p].state = "Ready" => p \in displaced'
      BY <1>1
    <2> QED BY <2>1, FairReady
  <1>5. Good(Now')
    BY <1>2
  <1>6. Fair(Now', displaced')
    BY <1>2, <1>4
  <1>7. KinExact(pidTable', adopted')
    BY <1>1
  <1>8. PendingInvalid'
    BY <1>1 DEF PendingInvalid
  <1> QED BY <1>3, <1>5, <1>6, <1>7, <1>8 DEF IInv

(* The kinship frame: what is needed when no process is born or dies.      *)
LEMMA SameKin ==
  ASSUME NEW f, NEW g, NEW A, KinExact(f, A),
         \A q \in Pids : Akin(g[q], f[q]),
         \A q \in Pids : g[q].state = "Waiting" => f[q].state = "Waiting" \/ f[q].nChilds # 0
  PROVE  KinExact(g, A)
  <1>1. \A p \in Pids : Children(g, p) = Children(f, p)
    BY DEF Children, Akin
  <1>2. \A p \in Pids : Cardinality(Children(f, p)) \in Nat
    <2> TAKE p \in Pids
    <2>1. Children(f, p) \in SUBSET Pids
      BY DEF Children
    <2> QED BY <2>1, PidAssumption, FS_Subset, FS_CardinalityType
  <1>3. \A p \in Pids : g[p].ppid # p
    BY DEF KinExact, Akin
  <1>4. ASSUME NEW p \in Pids \ A, g[p].state # "Free"
        PROVE  /\ g[p].nChilds = Cardinality(Children(g, p))
               /\ g[p].state = "Waiting" => g[p].nChilds > 0
    <2>1. /\ f[p].nChilds = Cardinality(Children(f, p)) /\ g[p].nChilds = f[p].nChilds
          /\ f[p].state = "Waiting" => f[p].nChilds > 0
      BY <1>4 DEF KinExact, Akin
    <2>2. f[p].nChilds # 0 => f[p].nChilds > 0
      BY <1>2, <2>1
    <2> QED BY <1>1, <2>1, <2>2
  <1> QED BY <1>3, <1>4 DEF KinExact
-----------------------------------------------------------------------------
(***************************************************************************)
(* makeRunnable                                                            *)
(***************************************************************************)
LEMMA PendingFacts ==
  ASSUME NEW p \in Pids, IInv, pending = p
  PROVE  /\ Now \in Rec /\ Good(Now) /\ Fair(Now, displaced)
         /\ Now.proc[p].state = "Invalid" /\ ~Runnable(Now.proc[p])
         /\ Now.proc[p] \in ProcessId /\ p # None
  <1>1. Now \in Rec /\ Good(Now) /\ Fair(Now, displaced)
    BY DEF IInv, Good
  <1>2. Now.proc[p].state = "Invalid" /\ p # None
    BY NowFields, PidAssumption DEF IInv, PendingInvalid
  <1> QED BY <1>1, <1>2, Fields DEF Runnable

(* p runs on a processor that had a free flow: nobody else waits for it.   *)
LEMMA RunOnFree ==
  ASSUME NEW p \in Pids, NEW c \in Cpus, IInv, pending = p, availableFlows(Now, c) > 0,
         Becomes(switchIn(becomeReady(Now, p), c, p), {}),
         pending' = None, adopted' = adopted
  PROVE  IInv'
  <1> DEFINE s == Now
             w == becomeReady(s, p)
             t == switchIn(w, c, p)
  <1> HIDE DEF s
  <1>1. /\ s \in Rec /\ Good(s) /\ Fair(s, displaced) /\ s.proc[p].state = "Invalid"
        /\ ~Runnable(s.proc[p]) /\ s.proc[p] \in ProcessId /\ availableFlows(s, c) > 0
    BY PendingFacts DEF s
  <1>2. /\ Good(w) /\ w.flow = s.flow
        /\ w.proc = [s.proc EXCEPT ![p] = [s.proc[p] EXCEPT !.state = "Ready"]]
        /\ \A a, b : a # p /\ b # p => (Ahead(w.queue, a, b) <=> Ahead(s.queue, a, b))
    BY <1>1, ReadyGood
  <1> HIDE DEF w
  <1>3. /\ w.proc[p] = [s.proc[p] EXCEPT !.state = "Ready"]
        /\ \A q \in Pids : q # p => w.proc[q] = s.proc[q]
    BY <1>1, <1>2, Fields
  <1>4. /\ w.proc[p].state = "Ready" /\ w.proc[p] \in ProcessId
        /\ w.proc[p].ppid = s.proc[p].ppid /\ w.proc[p].nChilds = s.proc[p].nChilds
    <2>1. LET r == [s.proc[p] EXCEPT !.state = "Ready"] IN
          /\ r.state = "Ready" /\ r \in ProcessId
          /\ r.ppid = s.proc[p].ppid /\ r.nChilds = s.proc[p].nChilds
      BY <1>1, StateType DEF ProcessState
    <2> QED BY <1>3, <2>1
  <1>5. w \in Rec /\ \A d \in Cpus : availableFlows(w, d) = availableFlows(s, d)
    BY <1>2 DEF Good, availableFlows
  <1>6. /\ Good(t) /\ t.queue = w.queue
        /\ t.proc = [w.proc EXCEPT ![p] = Start(w.proc[p], c)]
        /\ t.flow = [w.flow EXCEPT ![c] = w.flow[c] \cup {p}]
        /\ \A d \in Cpus \ {c} : availableFlows(t, d) = availableFlows(w, d)
    <2>1. w \in Rec /\ Good(w) /\ w.proc[p].state = "Ready" /\ availableFlows(w, c) > 0
      BY <1>1, <1>2, <1>4, <1>5
    <2> QED BY <2>1, SwitchInGood
  <1> HIDE DEF t
  <1>7. t \in Rec /\ t.proc[p] = Start(w.proc[p], c)
        /\ (\A q \in Pids : q # p => t.proc[q] = s.proc[q])
        /\ (\A d \in Cpus : d # c => t.flow[d] = s.flow[d])
    BY <1>2, <1>3, <1>5, <1>6, Fields DEF Good
  <1>8. /\ t.proc[p].state = "Running" /\ t.proc[p].ppid = s.proc[p].ppid
        /\ t.proc[p].nChilds = s.proc[p].nChilds
    <2>1. LET r == Start(w.proc[p], c) IN
          r.state = "Running" /\ r.ppid = w.proc[p].ppid /\ r.nChilds = w.proc[p].nChilds
      BY <1>4, StartType
    <2> QED BY <1>4, <1>7, <2>1
  <1>9. Fair(t, displaced \cup {})
    <2> SUFFICES ASSUME NEW q \in Pids \ displaced, NEW d \in Cpus, fits(t, q, d)
                 PROVE  /\ availableFlows(t, d) = 0
                        /\ \A u \in Pids : u \in t.flow[d] => Ahead(t.queue, u, q)
      BY DEF Fair
    <2>1. q # p
      BY <1>8 DEF fits
    <2>2. fits(s, q, d)
      BY <2>1, <1>7 DEF fits
    <2>3. /\ availableFlows(s, d) = 0
          /\ \A u \in Pids : u \in s.flow[d] => Ahead(s.queue, u, q)
      BY <2>2, <1>1 DEF Fair
    <2>4. d # c
      BY <2>3, <1>1
    <2>5. p \notin s.flow[d]
      BY <1>1 DEF Good, FlowsExact, RunsOn
    <2>6. availableFlows(t, d) = 0
      BY <2>3, <2>4, <1>5, <1>6
    <2>7. \A u \in Pids : u \in t.flow[d] => Ahead(t.queue, u, q)
      BY <2>1, <2>3, <2>4, <2>5, <1>2, <1>6, <1>7
    <2> QED BY <2>6, <2>7
  <1>10. KinExact(t.proc, adopted')
    <2>1. KinExact(s.proc, adopted)
      BY NowFields DEF IInv, s
    <2>2. \A q \in Pids : Akin(t.proc[q], s.proc[q])
      BY <1>1, <1>7, <1>8 DEF Akin
    <2>3. \A q \in Pids : t.proc[q].state = "Waiting" => s.proc[q].state = "Waiting"
      BY <1>7, <1>8
    <2> QED BY <2>1, <2>2, <2>3, SameKin
  <1>11. adopted' \in SUBSET Pids /\ Becomes(t, {})
    BY DEF IInv, t, w, s
  <1> QED BY <1>6, <1>7, <1>9, <1>10, <1>11, Closing

(* makeRunnable finds a free flow on the processor the process names.      *)
LEMMA RunWhereWanted ==
  ASSUME NEW p \in Pids, IInv, runWhereWanted(p)
  PROVE  IInv'
  <1>1. /\ pending = p /\ pending' = None /\ adopted' = adopted
        /\ pidTable[p].cpu # AnyCpu /\ availableFlows(Now, pidTable[p].cpu) > 0
        /\ Becomes(switchIn(becomeReady(Now, p), pidTable[p].cpu, p), {})
    BY DEF runWhereWanted, wantsCpu
  <1>2. pidTable[p].cpu \in Cpus
    BY <1>1, PendingFacts, NowFields DEF ProcessId
  <1> QED BY <1>1, <1>2, RunOnFree

(* What getAvailableProcessor returns has a free flow, and it returns      *)
(* something if there is one.                                              *)
LEMMA AvailableProcessor ==
  ASSUME NEW s \in Rec, Good(s)
  PROVE  /\ \A c \in getAvailableProcessor(s) : c \in Cpus /\ availableFlows(s, c) > 0
         /\ getAvailableProcessor(s) = {} => \A c \in Cpus : availableFlows(s, c) = 0
  <1> DEFINE listed == {c \in Cpus : s.avail[c] > 0}
             idlest == {c \in listed : availableFlows(s, c) = maxFlows[c]}
             free   == {c \in Cpus : availableFlows(s, c) > 0}
  <1>1. getAvailableProcessor(s) =
          IF listed = {} THEN {c \in free : c = Min(free)}
          ELSE IF idlest # {} THEN idlest ELSE listed
    BY DEF getAvailableProcessor
  <1>2. \A c \in Cpus : /\ availableFlows(s, c) \in Nat /\ s.avail[c] \in Nat
                        /\ s.avail[c] <= availableFlows(s, c)
    BY Fields, Flows DEF Good, Offers, FlowsExact, availableFlows
  <1>3. listed \subseteq free
    BY <1>2
  <1>4. free # {} => Min(free) \in free
    <2>1. free \in SUBSET Nat
      BY CpuAssumption
    <2> QED BY <2>1, LeastNatural
  <1>5. getAvailableProcessor(s) \subseteq free
    BY <1>1, <1>3
  <1>6. getAvailableProcessor(s) = {} => free = {}
    BY <1>1, <1>4
  <1> QED BY <1>2, <1>5, <1>6

(* Or on one of the available processors.                                  *)
LEMMA RunElsewhere ==
  ASSUME NEW p \in Pids, NEW c \in Cpus, IInv, runElsewhere(p, c)
  PROVE  IInv'
  <1>1. /\ pending = p /\ pending' = None /\ adopted' = adopted
        /\ c \in getAvailableProcessor(Now)
        /\ Becomes(switchIn(becomeReady(Now, p), c, p), {})
    BY DEF runElsewhere, elsewhere
  <1>2. availableFlows(Now, c) > 0
    BY <1>1, PendingFacts, AvailableProcessor
  <1> QED BY <1>1, <1>2, RunOnFree

(* A running process p may take the place of.                              *)
Replaces(s, p, v) ==
  /\ s.proc[v].state = "Running"
  /\ ~s.proc[p].pinned \/ s.proc[p].cpu = s.proc[v].cpu

(* victimOf finds one among those queuePromote passes, if there is one.    *)
LEMMA VictimPassed ==
  ASSUME NEW s \in Rec, NEW p \in Pids, NEW k \in 1 .. Len(s.queue) + 1
  PROVE  LET v == victimOf(s, p, k) IN
         \/ v = None /\ \A i \in promotedTo(s, p, k) .. k - 1 : ~Replaces(s, p, s.queue[i])
         \/ /\ v \in Pids /\ v # None
            /\ \E i \in promotedTo(s, p, k) .. k - 1 : v = s.queue[i] /\ Replaces(s, p, v)
  <1> DEFINE j == promotedTo(s, p, k)
             passed == {i \in j .. k - 1 : Replaces(s, p, s.queue[i])}
             v == victimOf(s, p, k)
  <1>1. j \in 1 .. k
    BY Promoted
  <1>2. s.queue \in Seq(Pids) /\ Len(s.queue) \in Nat
    BY Fields
  <1>3. v = IF passed = {} THEN None ELSE s.queue[Max(passed)]
    BY DEF victimOf, Replaces
  <1> HIDE DEF v, j
  <1>4. CASE passed = {}
    BY <1>3, <1>4 DEF v, j
  <1>5. CASE passed # {}
    <2>1. Max(passed) \in passed
      <3>1. passed \in SUBSET Nat /\ k \in Nat /\ \A y \in passed : y <= k
        BY <1>1, <1>2
      <3> QED BY <1>5, <3>1, GreatestNatural
    <2>2. PICK i \in j .. k - 1 : v = s.queue[i] /\ Replaces(s, p, s.queue[i])
      BY <1>3, <1>5, <2>1
    <2>3. i \in 1 .. Len(s.queue)
      BY <1>1, <1>2, <2>2
    <2>4. v \in Pids
      BY <1>2, <2>2, <2>3
    <2> QED BY <2>2, <2>4, PidAssumption DEF v, j
  <1> QED BY <1>4, <1>5

(* The victim of a process that is made runnable: a running one of worse   *)
(* priority, if there is one it can replace.                               *)
LEMMA Victim ==
  ASSUME NEW p \in Pids, IInv, pending = p
  PROVE  LET v == victim(p) IN
         \/ /\ v = None
            /\ \A u \in Pids : Replaces(Now, p, u) => prio(Now, u) <= prio(Now, p)
         \/ /\ v \in Pids /\ v # None /\ v # p
            /\ Replaces(Now, p, v) /\ prio(Now, v) > prio(Now, p)
  <1> DEFINE n == Now
             s == setState(n, p, "Ready")
             k == Len(n.queue) + 1
             j == promotedTo(s, p, k)
             v == victimOf(s, p, k)
  <1> HIDE DEF n
  <1>1. /\ n \in Rec /\ Good(n) /\ n.proc[p].state = "Invalid" /\ n.proc[p] \in ProcessId
        /\ ~Runnable(n.proc[p])
    BY PendingFacts DEF n
  <1>2. /\ s \in Rec /\ s.queue = n.queue
        /\ s.proc = [n.proc EXCEPT ![p] = [n.proc[p] EXCEPT !.state = "Ready"]]
    BY <1>1, SetEffect DEF ProcessState
  <1> HIDE DEF s
  <1>3. /\ s.proc[p] = [n.proc[p] EXCEPT !.state = "Ready"]
        /\ \A q \in Pids : q # p => s.proc[q] = n.proc[q]
    BY <1>1, <1>2, Fields
  <1>4. /\ s.proc[p].state = "Ready" /\ s.proc[p].cpu = n.proc[p].cpu
        /\ s.proc[p].pinned = n.proc[p].pinned /\ s.proc[p].priority = n.proc[p].priority
    <2>1. LET r == [n.proc[p] EXCEPT !.state = "Ready"] IN
          /\ r.state = "Ready" /\ r.cpu = n.proc[p].cpu
          /\ r.pinned = n.proc[p].pinned /\ r.priority = n.proc[p].priority
      BY <1>1, StateType DEF ProcessState
    <2> QED BY <1>3, <2>1
  <1>5. \A u \in Pids : /\ prio(s, u) = prio(n, u) /\ prio(n, u) \in Int
                        /\ Replaces(s, p, u) <=> Replaces(n, p, u)
    <2>1. \A u \in Pids : prio(s, u) = prio(n, u) /\ prio(n, u) \in Int
      BY <1>1, <1>3, <1>4, PriosType DEF prio
    <2>2. \A u \in Pids : Replaces(s, p, u) <=> Replaces(n, p, u)
      BY <1>1, <1>3, <1>4 DEF Replaces
    <2> QED BY <2>1, <2>2
  <1>6. /\ n.queue \in Seq(Pids) /\ Len(n.queue) \in Nat
        /\ DOMAIN n.queue = 1 .. Len(n.queue) /\ \A i \in DOMAIN n.queue : n.queue[i] \in Pids
    BY <1>1, Fields
  <1>7. k \in 1 .. Len(s.queue) + 1
    BY <1>2, <1>6
  <1>8. /\ j \in 1 .. k
        /\ \A i \in j .. k - 1 : prio(s, s.queue[i]) > prio(s, p)
    BY <1>2, <1>7, Promoted
  <1>9. \A i, l \in 1 .. k - 1 : i < l => prio(s, s.queue[i]) <= prio(s, s.queue[l])
    <2> SUFFICES ASSUME NEW i \in 1 .. k - 1, NEW l \in 1 .. k - 1, i < l
                 PROVE  prio(s, s.queue[i]) <= prio(s, s.queue[l])
      OBVIOUS
    <2>1. i \in DOMAIN n.queue /\ l \in DOMAIN n.queue
      BY <1>6
    <2>2. Ahead(n.queue, n.queue[i], n.queue[l])
      BY <2>1 DEF Ahead
    <2>3. prio(n, n.queue[i]) <= prio(n, n.queue[l])
      BY <2>1, <2>2, <1>1, <1>6 DEF Good, Ordered
    <2> QED BY <2>1, <2>3, <1>2, <1>5, <1>6
  <1>10. \A i \in 1 .. j - 1 : prio(s, s.queue[i]) <= prio(s, p)
    BY <1>2, <1>7, <1>9, PromotedBehind
  <1>11. \/ v = None /\ \A i \in j .. k - 1 : ~Replaces(s, p, s.queue[i])
         \/ /\ v \in Pids /\ v # None
            /\ \E i \in j .. k - 1 : v = s.queue[i] /\ Replaces(s, p, v)
    BY <1>2, <1>7, VictimPassed
  <1>12. v = victim(p)
    BY NowFields DEF victim, n, s
  <1> HIDE DEF v, j
  <1>13. CASE v = None /\ \A i \in j .. k - 1 : ~Replaces(s, p, s.queue[i])
    <2>1. ASSUME NEW u \in Pids, Replaces(n, p, u)
          PROVE  prio(n, u) <= prio(n, p)
      <3>1. In(n.queue, u)
        BY <2>1, <1>1 DEF Good, Ordered, Replaces, Runnable
      <3>2. PICK i \in DOMAIN n.queue : n.queue[i] = u
        BY <3>1 DEF In
      <3>3. i \notin j .. k - 1
        BY <1>13, <2>1, <3>2, <1>2, <1>5
      <3>4. i \in 1 .. j - 1
        BY <3>2, <3>3, <1>6, <1>8
      <3>5. prio(s, u) <= prio(s, p)
        BY <3>2, <3>4, <1>2, <1>10
      <3> QED BY <3>5, <1>5
    <2> QED BY <1>12, <1>13, <2>1 DEF n
  <1>14. CASE /\ v \in Pids /\ v # None
              /\ \E i \in j .. k - 1 : v = s.queue[i] /\ Replaces(s, p, v)
    <2>1. PICK i \in j .. k - 1 : v = s.queue[i] /\ Replaces(s, p, v)
      BY <1>14
    <2>2. prio(s, v) > prio(s, p)
      BY <2>1, <1>8
    <2>3. prio(n, v) > prio(n, p) /\ Replaces(n, p, v)
      BY <2>1, <2>2, <1>5, <1>14
    <2>4. v # p
      BY <2>3, <1>1 DEF Replaces
    <2> QED BY <2>3, <2>4, <1>12, <1>14 DEF n
  <1> QED BY <1>11, <1>13, <1>14

(* becomeReady, point by point.                                            *)
LEMMA BecameReady ==
  ASSUME NEW s \in Rec, NEW p \in Pids, Good(s), ~Runnable(s.proc[p])
  PROVE  LET w == becomeReady(s, p) IN
         /\ w \in Rec /\ Good(w) /\ w.flow = s.flow
         /\ \A d \in Cpus : availableFlows(w, d) = availableFlows(s, d)
         /\ w.proc[p] \in ProcessId /\ w.proc[p].state = "Ready"
         /\ w.proc[p].cpu = s.proc[p].cpu /\ w.proc[p].pinned = s.proc[p].pinned
         /\ w.proc[p].ppid = s.proc[p].ppid /\ w.proc[p].nChilds = s.proc[p].nChilds
         /\ \A q \in Pids : q # p => w.proc[q] = s.proc[q]
         /\ \A a, b : a # p /\ b # p => (Ahead(w.queue, a, b) <=> Ahead(s.queue, a, b))
         /\ \A u \in Pids : Runnable(s.proc[u]) =>
              /\ Ahead(w.queue, u, p) <=> prio(s, u) <= prio(s, p)
              /\ Ahead(w.queue, p, u) <=> prio(s, u) > prio(s, p)
  <1> DEFINE w == becomeReady(s, p)
  <1>1. /\ Good(w) /\ w.flow = s.flow
        /\ w.proc = [s.proc EXCEPT ![p] = [s.proc[p] EXCEPT !.state = "Ready"]]
        /\ \A a, b : a # p /\ b # p => (Ahead(w.queue, a, b) <=> Ahead(s.queue, a, b))
        /\ \A u \in Pids : Runnable(s.proc[u]) =>
              /\ Ahead(w.queue, u, p) <=> prio(s, u) <= prio(s, p)
              /\ Ahead(w.queue, p, u) <=> prio(s, u) > prio(s, p)
    BY ReadyGood
  <1> HIDE DEF w
  <1>2. /\ w.proc[p] = [s.proc[p] EXCEPT !.state = "Ready"] /\ s.proc[p] \in ProcessId
        /\ \A q \in Pids : q # p => w.proc[q] = s.proc[q]
    BY <1>1, Fields
  <1>3. LET r == [s.proc[p] EXCEPT !.state = "Ready"] IN
        /\ r \in ProcessId /\ r.state = "Ready" /\ r.cpu = s.proc[p].cpu
        /\ r.pinned = s.proc[p].pinned /\ r.ppid = s.proc[p].ppid
        /\ r.nChilds = s.proc[p].nChilds
    BY <1>2, StateType DEF ProcessState
  <1>4. \A d \in Cpus : availableFlows(w, d) = availableFlows(s, d)
    BY <1>1 DEF availableFlows
  <1>5. /\ w.proc[p] \in ProcessId /\ w.proc[p].state = "Ready"
        /\ w.proc[p].cpu = s.proc[p].cpu /\ w.proc[p].pinned = s.proc[p].pinned
        /\ w.proc[p].ppid = s.proc[p].ppid /\ w.proc[p].nChilds = s.proc[p].nChilds
    BY <1>2, <1>3
  <1>6. w \in Rec
    BY <1>1 DEF Good
  <1> QED BY <1>1, <1>2, <1>4, <1>5, <1>6 DEF w

(* Nothing is free and nobody worse can be replaced: it is fair to wait.   *)
LEMMA WaitItsTurn ==
  ASSUME NEW p \in Pids, IInv, waitItsTurn(p)
  PROVE  IInv'
  <1> DEFINE s == Now
             t == becomeReady(s, p)
  <1>1. /\ pending = p /\ pending' = None /\ adopted' = adopted /\ Becomes(t, {})
        /\ ~wantsCpu(p) /\ elsewhere(p) = {} /\ victim(p) = None
    BY DEF waitItsTurn
  <1>2. \A u \in Pids : Replaces(s, p, u) => prio(s, u) <= prio(s, p)
    BY <1>1, Victim
  <1>3. /\ s.proc[p].cpu # AnyCpu => ~(availableFlows(s, s.proc[p].cpu) > 0)
        /\ ~s.proc[p].pinned => getAvailableProcessor(s) = {}
    BY <1>1, NowFields DEF wantsCpu, elsewhere
  <1> HIDE DEF s
  <1>4. /\ s \in Rec /\ Good(s) /\ Fair(s, displaced) /\ s.proc[p].state = "Invalid"
        /\ ~Runnable(s.proc[p]) /\ s.proc[p] \in ProcessId
    BY <1>1, PendingFacts DEF s
  <1>5. /\ t \in Rec /\ Good(t) /\ t.flow = s.flow
        /\ \A d \in Cpus : availableFlows(t, d) = availableFlows(s, d)
        /\ t.proc[p].state = "Ready"
        /\ t.proc[p].cpu = s.proc[p].cpu /\ t.proc[p].pinned = s.proc[p].pinned
        /\ t.proc[p].ppid = s.proc[p].ppid /\ t.proc[p].nChilds = s.proc[p].nChilds
        /\ \A q \in Pids : q # p => t.proc[q] = s.proc[q]
        /\ \A a, b : a # p /\ b # p => (Ahead(t.queue, a, b) <=> Ahead(s.queue, a, b))
        /\ \A u \in Pids : Runnable(s.proc[u]) =>
             (Ahead(t.queue, u, p) <=> prio(s, u) <= prio(s, p))
    BY <1>4, BecameReady
  <1> HIDE DEF t
  <1>6. Fair(t, displaced \cup {})
    <2> SUFFICES ASSUME NEW q \in Pids \ displaced, NEW d \in Cpus, fits(t, q, d)
                 PROVE  /\ availableFlows(t, d) = 0
                        /\ \A u \in Pids : u \in t.flow[d] => Ahead(t.queue, u, q)
      BY DEF Fair
    <2>1. CASE q # p
      <3>1. fits(s, q, d)
        BY <2>1, <1>5 DEF fits
      <3>2. /\ availableFlows(s, d) = 0
            /\ \A u \in Pids : u \in s.flow[d] => Ahead(s.queue, u, q)
        BY <3>1, <1>4 DEF Fair
      <3>3. p \notin s.flow[d]
        BY <1>4 DEF Good, FlowsExact, RunsOn
      <3> QED BY <2>1, <3>2, <3>3, <1>5
    <2>2. CASE q = p
      <3>1. ~s.proc[p].pinned \/ s.proc[p].cpu = d
        BY <2>2, <1>5 DEF fits
      <3>2. availableFlows(s, d) = 0
        <4>1. CASE ~s.proc[p].pinned
          BY <4>1, <1>3, <1>4, AvailableProcessor
        <4>2. CASE s.proc[p].cpu = d
          <5>1. d # AnyCpu
            BY CpuAssumption DEF AnyCpu
          <5>2. availableFlows(s, d) >= 0 /\ availableFlows(s, d) \in Int
            BY <1>4, Flows DEF Good, FlowsExact, availableFlows
          <5> QED BY <4>2, <5>1, <5>2, <1>3
        <4> QED BY <3>1, <4>1, <4>2
      <3>3. ASSUME NEW u \in Pids, u \in t.flow[d]
            PROVE  Ahead(t.queue, u, q)
        <4>1. RunsOn(s, u, d)
          BY <3>3, <1>4, <1>5 DEF Good, FlowsExact
        <4>2. Replaces(s, p, u) /\ Runnable(s.proc[u])
          BY <4>1, <3>1 DEF Replaces, RunsOn, Runnable
        <4> QED BY <4>2, <2>2, <1>2, <1>5
      <3> QED BY <3>2, <3>3, <1>5
    <2> QED BY <2>1, <2>2
  <1>7. KinExact(t.proc, adopted')
    <2>1. KinExact(s.proc, adopted)
      BY NowFields DEF IInv, s
    <2>2. \A q \in Pids : Akin(t.proc[q], s.proc[q])
      BY <1>4, <1>5 DEF Akin
    <2>3. \A q \in Pids : t.proc[q].state = "Waiting" => s.proc[q].state = "Waiting"
      BY <1>5
    <2> QED BY <1>1, <2>1, <2>2, <2>3, SameKin
  <1>8. adopted' \in SUBSET Pids
    BY <1>1 DEF IInv
  <1> QED BY <1>1, <1>5, <1>6, <1>7, <1>8, Closing

(* The other steps, point by point.                                        *)
LEMMA SwitchedIn ==
  ASSUME NEW s \in Rec, NEW c \in Cpus, NEW p \in Pids, Good(s),
         s.proc[p].state = "Ready", availableFlows(s, c) > 0
  PROVE  LET t == switchIn(s, c, p) IN
         /\ t \in Rec /\ Good(t) /\ t.queue = s.queue
         /\ t.proc[p].state = "Running" /\ t.proc[p].priority = s.proc[p].priority
         /\ t.proc[p].ppid = s.proc[p].ppid /\ t.proc[p].nChilds = s.proc[p].nChilds
         /\ \A q \in Pids : q # p => t.proc[q] = s.proc[q]
         /\ t.flow[c] = s.flow[c] \cup {p}
         /\ \A d \in Cpus : d # c => t.flow[d] = s.flow[d]
         /\ availableFlows(t, c) = availableFlows(s, c) - 1
         /\ \A d \in Cpus : d # c => availableFlows(t, d) = availableFlows(s, d)
  <1> DEFINE t == switchIn(s, c, p)
  <1>1. /\ Good(t) /\ t.queue = s.queue
        /\ t.proc = [s.proc EXCEPT ![p] = Start(s.proc[p], c)]
        /\ t.flow = [s.flow EXCEPT ![c] = s.flow[c] \cup {p}]
        /\ availableFlows(t, c) = availableFlows(s, c) - 1
        /\ \A d \in Cpus \ {c} : availableFlows(t, d) = availableFlows(s, d)
    BY SwitchInGood
  <1> HIDE DEF t
  <1>2. /\ t.proc[p] = Start(s.proc[p], c) /\ s.proc[p] \in ProcessId
        /\ \A q \in Pids : q # p => t.proc[q] = s.proc[q]
        /\ t.flow[c] = s.flow[c] \cup {p}
        /\ \A d \in Cpus : d # c => t.flow[d] = s.flow[d]
    BY <1>1, Fields
  <1>3. LET r == Start(s.proc[p], c) IN
        /\ r.state = "Running" /\ r.priority = s.proc[p].priority
        /\ r.ppid = s.proc[p].ppid /\ r.nChilds = s.proc[p].nChilds
    BY <1>2, StartType
  <1>4. /\ t.proc[p].state = "Running" /\ t.proc[p].priority = s.proc[p].priority
        /\ t.proc[p].ppid = s.proc[p].ppid /\ t.proc[p].nChilds = s.proc[p].nChilds
    BY <1>2, <1>3
  <1>5. t \in Rec
    BY <1>1 DEF Good
  <1> QED BY <1>1, <1>2, <1>4, <1>5 DEF t

(* The records after a process is switched out.                            *)
LEMMA SwitchedOut ==
  ASSUME NEW s \in Rec, NEW c \in Cpus, NEW p \in Pids, Good(s), RunsOn(s, p, c)
  PROVE  LET t == switchOut(s, c, p) IN
         /\ t \in Rec /\ Good(t) /\ t.queue = s.queue
         /\ t.proc[p].state = "Ready" /\ t.proc[p].priority = s.proc[p].priority
         /\ t.proc[p].ppid = s.proc[p].ppid /\ t.proc[p].nChilds = s.proc[p].nChilds
         /\ \A q \in Pids : q # p => t.proc[q] = s.proc[q]
         /\ p \in s.flow[c] /\ t.flow[c] = s.flow[c] \ {p}
         /\ \A d \in Cpus : d # c => t.flow[d] = s.flow[d]
         /\ availableFlows(t, c) = availableFlows(s, c) + 1 /\ availableFlows(t, c) > 0
         /\ \A d \in Cpus : d # c => availableFlows(t, d) = availableFlows(s, d)
  <1> DEFINE t == switchOut(s, c, p)
  <1>1. /\ Good(t) /\ t.queue = s.queue
        /\ t.proc = [s.proc EXCEPT ![p] = [s.proc[p] EXCEPT !.state = "Ready"]]
        /\ t.flow = [s.flow EXCEPT ![c] = s.flow[c] \ {p}] /\ p \in s.flow[c]
        /\ availableFlows(t, c) = availableFlows(s, c) + 1 /\ availableFlows(t, c) > 0
        /\ \A d \in Cpus \ {c} : availableFlows(t, d) = availableFlows(s, d)
    BY SwitchOutGood
  <1> HIDE DEF t
  <1>2. /\ t.proc[p] = [s.proc[p] EXCEPT !.state = "Ready"] /\ s.proc[p] \in ProcessId
        /\ \A q \in Pids : q # p => t.proc[q] = s.proc[q]
        /\ t.flow[c] = s.flow[c] \ {p}
        /\ \A d \in Cpus : d # c => t.flow[d] = s.flow[d]
    BY <1>1, Fields
  <1>3. LET r == [s.proc[p] EXCEPT !.state = "Ready"] IN
        /\ r.state = "Ready" /\ r.priority = s.proc[p].priority
        /\ r.ppid = s.proc[p].ppid /\ r.nChilds = s.proc[p].nChilds
    BY <1>2, StateType DEF ProcessState
  <1>4. /\ t.proc[p].state = "Ready" /\ t.proc[p].priority = s.proc[p].priority
        /\ t.proc[p].ppid = s.proc[p].ppid /\ t.proc[p].nChilds = s.proc[p].nChilds
    BY <1>2, <1>3
  <1>5. t \in Rec
    BY <1>1 DEF Good
  <1> QED BY <1>1, <1>2, <1>4, <1>5 DEF t

(* The records after a process leaves the queue.                           *)
LEMMA BecameNonReady ==
  ASSUME NEW s \in Rec, NEW p \in Pids, Good(s), s.proc[p].state = "Ready"
  PROVE  LET t == becomeNonReady(s, p) IN
         /\ t \in Rec /\ Good(t) /\ t.flow = s.flow
         /\ \A d \in Cpus : availableFlows(t, d) = availableFlows(s, d)
         /\ t.proc[p].state = "Invalid"
         /\ t.proc[p].ppid = s.proc[p].ppid /\ t.proc[p].nChilds = s.proc[p].nChilds
         /\ \A q \in Pids : q # p => t.proc[q] = s.proc[q]
         /\ \A a, b : a # p /\ b # p => (Ahead(t.queue, a, b) <=> Ahead(s.queue, a, b))
  <1> DEFINE t == becomeNonReady(s, p)
  <1>1. /\ Good(t) /\ t.flow = s.flow
        /\ t.proc = [s.proc EXCEPT ![p] = [s.proc[p] EXCEPT !.state = "Invalid"]]
        /\ \A a, b : a # p /\ b # p => (Ahead(t.queue, a, b) <=> Ahead(s.queue, a, b))
    BY NonReadyGood
  <1> HIDE DEF t
  <1>2. /\ t.proc[p] = [s.proc[p] EXCEPT !.state = "Invalid"] /\ s.proc[p] \in ProcessId
        /\ \A q \in Pids : q # p => t.proc[q] = s.proc[q]
    BY <1>1, Fields
  <1>3. LET r == [s.proc[p] EXCEPT !.state = "Invalid"] IN
        /\ r.state = "Invalid" /\ r.ppid = s.proc[p].ppid /\ r.nChilds = s.proc[p].nChilds
    BY <1>2, StateType DEF ProcessState
  <1>4. /\ t.proc[p].state = "Invalid"
        /\ t.proc[p].ppid = s.proc[p].ppid /\ t.proc[p].nChilds = s.proc[p].nChilds
    BY <1>2, <1>3
  <1>5. t \in Rec /\ \A d \in Cpus : availableFlows(t, d) = availableFlows(s, d)
    BY <1>1 DEF Good, availableFlows
  <1> QED BY <1>1, <1>2, <1>4, <1>5 DEF t

(* b takes the processor a runs on; the rest of the state stands still.    *)
LEMMA Swapped ==
  ASSUME NEW s \in Rec, NEW c \in Cpus, NEW a \in Pids, NEW b \in Pids, Good(s),
         RunsOn(s, a, c), s.proc[b].state = "Ready"
  PROVE  LET t == switchIn(switchOut(s, c, a), c, b) IN
         /\ t \in Rec /\ Good(t) /\ t.queue = s.queue /\ a # b
         /\ t.proc[a].state = "Ready" /\ t.proc[b].state = "Running"
         /\ \A q \in Pids : Akin(t.proc[q], s.proc[q]) /\ prio(t, q) = prio(s, q)
         /\ \A q \in Pids : q # a /\ q # b => t.proc[q] = s.proc[q]
         /\ t.flow[c] = (s.flow[c] \ {a}) \cup {b} /\ a \in s.flow[c]
         /\ \A d \in Cpus : d # c => t.flow[d] = s.flow[d]
         /\ \A d \in Cpus : availableFlows(t, d) = availableFlows(s, d)
  <1> DEFINE w == switchOut(s, c, a)
             t == switchIn(w, c, b)
  <1>0. a # b /\ s.proc[a].state = "Running"
    BY DEF RunsOn
  <1>1. /\ w \in Rec /\ Good(w) /\ w.queue = s.queue
        /\ w.proc[a].state = "Ready" /\ w.proc[a].priority = s.proc[a].priority
        /\ w.proc[a].ppid = s.proc[a].ppid /\ w.proc[a].nChilds = s.proc[a].nChilds
        /\ \A q \in Pids : q # a => w.proc[q] = s.proc[q]
        /\ a \in s.flow[c] /\ w.flow[c] = s.flow[c] \ {a}
        /\ \A d \in Cpus : d # c => w.flow[d] = s.flow[d]
        /\ availableFlows(w, c) = availableFlows(s, c) + 1 /\ availableFlows(w, c) > 0
        /\ \A d \in Cpus : d # c => availableFlows(w, d) = availableFlows(s, d)
    BY SwitchedOut
  <1> HIDE DEF w
  <1>2. w.proc[b].state = "Ready"
    BY <1>0, <1>1
  <1>3. /\ t \in Rec /\ Good(t) /\ t.queue = w.queue
        /\ t.proc[b].state = "Running" /\ t.proc[b].priority = w.proc[b].priority
        /\ t.proc[b].ppid = w.proc[b].ppid /\ t.proc[b].nChilds = w.proc[b].nChilds
        /\ \A q \in Pids : q # b => t.proc[q] = w.proc[q]
        /\ t.flow[c] = w.flow[c] \cup {b}
        /\ \A d \in Cpus : d # c => t.flow[d] = w.flow[d]
        /\ availableFlows(t, c) = availableFlows(w, c) - 1
        /\ \A d \in Cpus : d # c => availableFlows(t, d) = availableFlows(w, d)
    BY <1>1, <1>2, SwitchedIn
  <1> HIDE DEF t
  <1>4. \A q \in Pids : Akin(t.proc[q], s.proc[q]) /\ prio(t, q) = prio(s, q)
    <2> SUFFICES ASSUME NEW q \in Pids
                 PROVE  Akin(t.proc[q], s.proc[q]) /\ prio(t, q) = prio(s, q)
      OBVIOUS
    <2>1. CASE q = a
      BY <2>1, <1>0, <1>1, <1>3 DEF Akin, prio
    <2>2. CASE q = b
      BY <2>2, <1>0, <1>1, <1>3 DEF Akin, prio
    <2>3. CASE q # a /\ q # b
      BY <2>3, <1>1, <1>3 DEF Akin, prio
    <2> QED BY <2>1, <2>2, <2>3
  <1>5. \A d \in Cpus : availableFlows(t, d) = availableFlows(s, d)
    <2>1. availableFlows(s, c) \in Int
      BY Flows DEF availableFlows
    <2> QED BY <2>1, <1>1, <1>3
  <1>6. \A q \in Pids : q # a /\ q # b => t.proc[q] = s.proc[q]
    BY <1>1, <1>3
  <1>7. t.proc[a].state = "Ready"
    BY <1>0, <1>1, <1>3
  <1>8. /\ t.flow[c] = (s.flow[c] \ {a}) \cup {b} /\ a \in s.flow[c]
        /\ \A d \in Cpus : d # c => t.flow[d] = s.flow[d]
    BY <1>1, <1>3
  <1> QED BY <1>0, <1>1, <1>3, <1>4, <1>5, <1>6, <1>7, <1>8 DEF t, w

(* The processes that wait for v's processor wait behind v, and p goes     *)
(* ahead of v.                                                             *)
LEMMA Preempt ==
  ASSUME NEW p \in Pids, IInv, preempt(p)
  PROVE  IInv'
  <1> DEFINE n == Now
             v == victim(p)
             c == n.proc[v].cpu
             w == becomeReady(n, p)
             s == switchIn(switchOut(w, c, v), c, p)
             t == becomeNonReady(s, v)
  <1>1. /\ pending = p /\ pending' = v /\ adopted' = adopted /\ v # None
        /\ Becomes(t, {})
    BY NowFields DEF preempt
  <1>2. /\ v \in Pids /\ v # p /\ Replaces(n, p, v) /\ prio(n, v) > prio(n, p)
    BY <1>1, Victim
  <1> HIDE DEF n, v
  <1>3. /\ n \in Rec /\ Good(n) /\ Fair(n, displaced) /\ n.proc[p].state = "Invalid"
        /\ ~Runnable(n.proc[p]) /\ n.proc[p] \in ProcessId
    BY <1>1, PendingFacts DEF n
  <1>4. RunsOn(n, v, c) /\ c \in Cpus
    BY <1>2, <1>3 DEF Replaces, RunsOn, Good, Placed
  <1> HIDE DEF c
  <1>5. /\ w \in Rec /\ Good(w) /\ w.flow = n.flow
        /\ \A d \in Cpus : availableFlows(w, d) = availableFlows(n, d)
        /\ w.proc[p].state = "Ready"
        /\ w.proc[p].ppid = n.proc[p].ppid /\ w.proc[p].nChilds = n.proc[p].nChilds
        /\ \A q \in Pids : q # p => w.proc[q] = n.proc[q]
        /\ \A a, b : a # p /\ b # p => (Ahead(w.queue, a, b) <=> Ahead(n.queue, a, b))
        /\ \A u \in Pids : Runnable(n.proc[u]) =>
             (Ahead(w.queue, p, u) <=> prio(n, u) > prio(n, p))
    BY <1>3, BecameReady
  <1> HIDE DEF w
  <1>6. RunsOn(w, v, c)
    BY <1>2, <1>4, <1>5 DEF RunsOn
  <1>7. /\ s \in Rec /\ Good(s) /\ s.queue = w.queue
        /\ s.proc[v].state = "Ready" /\ s.proc[p].state = "Running"
        /\ \A q \in Pids : Akin(s.proc[q], w.proc[q])
        /\ \A q \in Pids : q # v /\ q # p => s.proc[q] = w.proc[q]
        /\ s.flow[c] = (w.flow[c] \ {v}) \cup {p}
        /\ \A d \in Cpus : d # c => s.flow[d] = w.flow[d]
        /\ \A d \in Cpus : availableFlows(s, d) = availableFlows(w, d)
    BY <1>2, <1>4, <1>5, <1>6, Swapped
  <1> HIDE DEF s
  <1>8. /\ t \in Rec /\ Good(t) /\ t.flow = s.flow
        /\ \A d \in Cpus : availableFlows(t, d) = availableFlows(s, d)
        /\ t.proc[v].state = "Invalid"
        /\ t.proc[v].ppid = s.proc[v].ppid /\ t.proc[v].nChilds = s.proc[v].nChilds
        /\ \A q \in Pids : q # v => t.proc[q] = s.proc[q]
        /\ \A a, b : a # v /\ b # v => (Ahead(t.queue, a, b) <=> Ahead(s.queue, a, b))
    BY <1>2, <1>7, BecameNonReady
  <1> HIDE DEF t
  <1>9. Fair(t, displaced \cup {})
    <2> SUFFICES ASSUME NEW q \in Pids \ displaced, NEW d \in Cpus, fits(t, q, d)
                 PROVE  /\ availableFlows(t, d) = 0
                        /\ \A u \in Pids : u \in t.flow[d] => Ahead(t.queue, u, q)
      BY DEF Fair
    <2>1. q # p /\ q # v
      BY <1>2, <1>7, <1>8 DEF fits
    <2>2. t.proc[q] = n.proc[q]
      BY <2>1, <1>5, <1>7, <1>8
    <2>3. fits(n, q, d)
      BY <2>2 DEF fits
    <2>4. /\ availableFlows(n, d) = 0
          /\ \A u \in Pids : u \in n.flow[d] => Ahead(n.queue, u, q)
      BY <2>3, <1>3 DEF Fair
    <2>5. availableFlows(t, d) = 0
      BY <2>4, <1>5, <1>7, <1>8
    <2>6. \A a : a # v => (Ahead(t.queue, a, q) <=> Ahead(w.queue, a, q))
      BY <2>1, <1>7, <1>8
    <2>7. p \notin n.flow[d] /\ (v \in n.flow[d] <=> d = c)
      BY <1>2, <1>3, <1>4 DEF Good, FlowsExact, RunsOn
    <2>8. ASSUME NEW u \in Pids, u \in t.flow[d]
          PROVE  Ahead(t.queue, u, q)
      <3>1. u # v /\ (u \in n.flow[d] \/ (u = p /\ d = c))
        BY <2>7, <2>8, <1>2, <1>4, <1>5, <1>7, <1>8
      <3>2. CASE u \in n.flow[d]
        BY <3>1, <3>2, <2>1, <2>4, <2>6, <2>7, <1>5
      <3>3. CASE u = p /\ d = c
        <4>1. Ahead(n.queue, v, q)
          BY <3>3, <2>4, <2>7, <1>2
        <4>2. prio(n, v) <= prio(n, q) /\ Runnable(n.proc[q])
          BY <4>1, <2>3, <1>2, <1>3 DEF Good, Ordered, fits, Runnable
        <4>3. prio(n, q) > prio(n, p)
          <5>1. prio(n, q) \in Int /\ prio(n, v) \in Int /\ prio(n, p) \in Int
            BY <1>2, <1>3, PriosType
          <5> QED BY <5>1, <4>2, <1>2
        <4> QED BY <3>1, <3>3, <4>2, <4>3, <2>6, <1>5
      <3> QED BY <3>1, <3>2, <3>3
    <2> QED BY <2>5, <2>8
  <1>10. KinExact(t.proc, adopted')
    <2>1. KinExact(n.proc, adopted)
      BY NowFields DEF IInv, n
    <2>2. \A q \in Pids : Akin(w.proc[q], n.proc[q])
      BY <1>3, <1>5 DEF Akin
    <2>3. \A q \in Pids : Akin(t.proc[q], s.proc[q])
      BY <1>7, <1>8 DEF Akin
    <2>4. \A q \in Pids : Akin(t.proc[q], n.proc[q])
      BY <2>2, <2>3, <1>7 DEF Akin
    <2>5. \A q \in Pids : t.proc[q].state = "Waiting" => n.proc[q].state = "Waiting"
      BY <1>2, <1>5, <1>7, <1>8
    <2> QED BY <1>1, <2>1, <2>4, <2>5, SameKin
  <1>11. adopted' \in SUBSET Pids /\ pending' \in Pids \cup {None}
    BY <1>1, <1>2 DEF IInv
  <1>12. pending' # None => t.proc[pending'].state = "Invalid"
    BY <1>1, <1>8
  <1> QED BY <1>1, <1>8, <1>9, <1>10, <1>11, <1>12, Closing
-----------------------------------------------------------------------------
(***************************************************************************)
(* The calls                                                               *)
(***************************************************************************)
LEMMA InvFacts ==
  ASSUME IInv
  PROVE  /\ Now \in Rec /\ Good(Now) /\ Fair(Now, displaced)
         /\ KinExact(Now.proc, adopted)
         /\ adopted \in SUBSET Pids /\ displaced \in SUBSET Pids
         /\ \A p \in Pids : Now.proc[p] = pidTable[p] /\ pidTable[p] \in ProcessId
  <1>1. Now \in Rec /\ Good(Now) /\ Fair(Now, displaced)
    BY DEF IInv, Good
  <1> QED BY <1>1, NowFields, Fields DEF IInv

(* run() drops an idle processor from its list.                            *)
LEMMA Idle ==
  ASSUME NEW c \in Cpus, IInv, idle(c)
  PROVE  IInv'
  <1> DEFINE n == Now
             w == workingListRemove(n, c)
             t == [w EXCEPT !.working = @ \ {c}]
  <1>1. Becomes(t, {}) /\ pending' = pending /\ adopted' = adopted /\ n.flow[c] = {}
        /\ pending = None
    BY NowFields DEF idle
  <1> HIDE DEF n
  <1>2. n \in Rec /\ Good(n) /\ Fair(n, displaced) /\ KinExact(n.proc, adopted)
    BY InvFacts DEF n
  <1>3. /\ w \in Rec /\ w.proc = n.proc /\ w.queue = n.queue /\ w.flow = n.flow
        /\ w.working = n.working
        /\ w.avail = [n.avail EXCEPT ![c] = IF n.avail[c] = 0 THEN 1 ELSE n.avail[c]]
    BY <1>2, RemoveEffect
  <1> HIDE DEF w
  <1>4. /\ t.proc = n.proc /\ t.queue = n.queue /\ t.flow = n.flow
        /\ t.working = n.working \ {c} /\ t.avail = w.avail
    BY <1>3 DEF Rec
  <1>5. t \in Rec
    BY <1>3 DEF Rec
  <1> HIDE DEF t
  <1>6. \A d \in Cpus : availableFlows(t, d) = availableFlows(n, d)
    BY <1>4 DEF availableFlows
  <1>7. Placed(t) /\ Ordered(t)
    BY <1>2, <1>4 DEF Good, Placed, Ordered, prio
  <1>8. FlowsExact(t)
    BY <1>1, <1>2, <1>4 DEF Good, FlowsExact, RunsOn
  <1>9. Offers(t)
    <2> SUFFICES ASSUME NEW d \in Cpus
                 PROVE  /\ t.avail[d] <= availableFlows(t, d)
                        /\ t.flow[d] = {} => t.avail[d] > 0
      BY DEF Offers
    <2>1. /\ n.avail[d] <= availableFlows(n, d) /\ n.avail[d] \in Nat
          /\ n.flow[d] = {} => n.avail[d] > 0
      BY <1>2, Fields DEF Good, Offers
    <2>2. t.avail[d] = n.avail[d]
      BY <2>1, <1>1, <1>2, <1>3, <1>4, Fields
    <2> QED BY <2>1, <2>2, <1>4, <1>6
  <1>10. Fair(t, displaced \cup {})
    BY <1>2, <1>4, <1>6 DEF Fair, fits
  <1>11. KinExact(t.proc, adopted') /\ adopted' \in SUBSET Pids
    BY <1>1, <1>2, <1>4 DEF IInv
  <1> QED BY <1>1, <1>5, <1>7, <1>8, <1>9, <1>10, <1>11, Closing DEF Good

(* The processes ahead of the one that is yielded to are passed over.      *)
LEMMA EventYield ==
  ASSUME NEW p \in Pids, NEW q \in Pids, IInv, eventYield(p, q)
  PROVE  IInv'
  <1> DEFINE n == Now
             c == n.proc[p].cpu
             ahead == {u \in Pids : fits(n, u, c) /\ positionOf(n, u) < positionOf(n, q)}
             D == {p} \cup ahead
             t == switchIn(switchOut(n, c, p), c, q)
  <1>1. /\ pending = None /\ n.proc[p].state = "Running" /\ fits(n, q, c) /\ Becomes(t, D)
        /\ pending' = pending /\ adopted' = adopted
    BY NowFields DEF eventYield, calls, st
  <1> HIDE DEF n
  <1>2. n \in Rec /\ Good(n) /\ Fair(n, displaced) /\ KinExact(n.proc, adopted)
    BY InvFacts DEF n
  <1>3. c \in Cpus /\ RunsOn(n, p, c) /\ n.proc[q].state = "Ready"
    BY <1>1, <1>2 DEF Good, Placed, RunsOn, fits
  <1> HIDE DEF c
  <1>4. /\ t \in Rec /\ Good(t) /\ t.queue = n.queue /\ p # q
        /\ t.proc[p].state = "Ready" /\ t.proc[q].state = "Running"
        /\ \A x \in Pids : Akin(t.proc[x], n.proc[x])
        /\ \A x \in Pids : x # p /\ x # q => t.proc[x] = n.proc[x]
        /\ t.flow[c] = (n.flow[c] \ {p}) \cup {q}
        /\ \A d \in Cpus : d # c => t.flow[d] = n.flow[d]
        /\ \A d \in Cpus : availableFlows(t, d) = availableFlows(n, d)
    BY <1>2, <1>3, Swapped
  <1> HIDE DEF t
  <1>5. Fair(t, displaced \cup D)
    <2> SUFFICES ASSUME NEW x \in Pids \ (displaced \cup D), NEW d \in Cpus, fits(t, x, d)
                 PROVE  /\ availableFlows(t, d) = 0
                        /\ \A u \in Pids : u \in t.flow[d] => Ahead(t.queue, u, x)
      BY DEF Fair
    <2>1. x # p /\ x # q
      BY <1>4 DEF fits
    <2>2. fits(n, x, d)
      BY <2>1, <1>4 DEF fits
    <2>3. /\ availableFlows(n, d) = 0
          /\ \A u \in Pids : u \in n.flow[d] => Ahead(n.queue, u, x)
      BY <2>2, <1>2 DEF Fair
    <2>4. d = c => Ahead(n.queue, q, x)
      <3> SUFFICES ASSUME d = c
                   PROVE  Ahead(n.queue, q, x)
        OBVIOUS
      <3>1. ~(positionOf(n, x) < positionOf(n, q))
        BY <2>2
      <3>2. In(n.queue, x) /\ In(n.queue, q) /\ Once(n.queue) /\ n.queue \in Seq(Pids)
        BY <2>2, <1>2, <1>3, Fields DEF Good, Ordered, Runnable, fits
      <3>3. /\ positionOf(n, x) \in 1 .. Len(n.queue) /\ n.queue[positionOf(n, x)] = x
            /\ positionOf(n, q) \in 1 .. Len(n.queue) /\ n.queue[positionOf(n, q)] = q
        BY <3>2, Position
      <3>4. positionOf(n, q) < positionOf(n, x)
        <4>1. positionOf(n, q) # positionOf(n, x)
          BY <3>3, <2>1
        <4>2. Len(n.queue) \in Nat
          BY <3>2
        <4> QED BY <3>1, <3>3, <4>1, <4>2
      <3>5. DOMAIN n.queue = 1 .. Len(n.queue)
        BY <3>2
      <3> QED BY <3>3, <3>4, <3>5 DEF Ahead
    <2>5. availableFlows(t, d) = 0
      BY <2>3, <1>4
    <2>6. \A u \in Pids : u \in t.flow[d] => Ahead(t.queue, u, x)
      BY <2>3, <2>4, <1>4
    <2> QED BY <2>5, <2>6
  <1>6. KinExact(t.proc, adopted')
    <2>1. \A x \in Pids : t.proc[x].state = "Waiting" => n.proc[x].state = "Waiting"
      BY <1>4
    <2> QED BY <1>1, <1>2, <1>4, <2>1, SameKin
  <1>7. D \in SUBSET Pids /\ adopted' \in SUBSET Pids
    BY <1>1 DEF IInv
  <1> HIDE DEF D
  <1> QED BY <1>1, <1>4, <1>5, <1>6, <1>7, Closing

(* Steps that only rewrite process records.                                *)
LEMMA ProcAt ==
  ASSUME NEW s \in Rec, NEW p \in Pids, NEW r \in ProcessId
  PROVE  LET t == [s EXCEPT !.proc[p] = r] IN
         /\ t \in Rec /\ t.queue = s.queue /\ t.flow = s.flow /\ t.avail = s.avail
         /\ t.working = s.working /\ t.proc[p] = r
         /\ \A q \in Pids : q # p => t.proc[q] = s.proc[q]
  <1> DEFINE t == [s EXCEPT !.proc[p] = r]
  <1>1. /\ t.queue = s.queue /\ t.flow = s.flow /\ t.avail = s.avail
        /\ t.working = s.working /\ t.proc = [s.proc EXCEPT ![p] = r]
    BY DEF Rec
  <1>2. t.proc \in [Pids -> ProcessId]
    BY <1>1, Fields
  <1>3. t \in Rec
    BY <1>1, <1>2 DEF Rec
  <1>4. t.proc[p] = r /\ \A q \in Pids : q # p => t.proc[q] = s.proc[q]
    BY <1>1, Fields
  <1> QED BY <1>1, <1>3, <1>4

(* If nothing the queue and the processors depend on changes.              *)
LEMMA Relabelled ==
  ASSUME NEW s \in Rec, NEW t \in Rec, NEW D, NEW E, Good(s), Fair(s, D),
         t.queue = s.queue, t.flow = s.flow, t.avail = s.avail, t.working = s.working,
         \A q \in Pids : /\ Runnable(t.proc[q]) <=> Runnable(s.proc[q])
                         /\ Runnable(s.proc[q]) => t.proc[q].priority = s.proc[q].priority
                         /\ t.proc[q].state = "Running" <=> s.proc[q].state = "Running"
                         /\ s.proc[q].state = "Running" => t.proc[q].cpu = s.proc[q].cpu
                         /\ t.proc[q].pinned => t.proc[q].cpu \in Cpus
                         /\ q \notin E /\ t.proc[q].state = "Ready" =>
                              t.proc[q].pinned = s.proc[q].pinned /\ t.proc[q].cpu = s.proc[q].cpu
  PROVE  Good(t) /\ Fair(t, D \cup E)
  <1>1. Ordered(t)
    <2>1. \A q \in Pids : /\ Runnable(t.proc[q]) <=> Runnable(s.proc[q])
                          /\ Runnable(s.proc[q]) => prio(t, q) = prio(s, q)
      BY DEF prio
    <2> QED BY <2>1, SameOrder DEF Good
  <1>2. /\ FlowsExact(t) /\ Offers(t)
        /\ \A c \in Cpus : availableFlows(t, c) = availableFlows(s, c)
    <2>1. \A q \in Pids, c \in Cpus : RunsOn(t, q, c) <=> RunsOn(s, q, c)
      BY DEF RunsOn
    <2> QED BY <2>1, SameFlows DEF Good
  <1>3. Placed(t)
    BY DEF Good, Placed
  <1>4. Fair(t, D \cup E)
    <2> SUFFICES ASSUME NEW q \in Pids \ (D \cup E), NEW d \in Cpus, fits(t, q, d)
                 PROVE  /\ availableFlows(t, d) = 0
                        /\ \A u \in Pids : u \in t.flow[d] => Ahead(t.queue, u, q)
      BY DEF Fair
    <2>1. s.proc[q].state = "Ready"
      BY DEF fits, Runnable
    <2>2. fits(s, q, d)
      BY <2>1 DEF fits
    <2> QED BY <2>2, <1>2 DEF Fair
  <1> QED BY <1>1, <1>2, <1>3, <1>4 DEF Good

(* A process that is not runnable changes its state for another such.      *)
Asleep == {"Free", "Invalid", "Suspended", "Waiting"}

(* Such a change of state keeps a good state good and fair.                *)
LEMMA StateSet ==
  ASSUME NEW s \in Rec, NEW p \in Pids, NEW x \in Asleep, NEW D, Good(s), Fair(s, D),
         ~Runnable(s.proc[p])
  PROVE  LET t == setState(s, p, x) IN
         /\ t \in Rec /\ Good(t) /\ Fair(t, D)
         /\ t.proc[p] = [s.proc[p] EXCEPT !.state = x]
         /\ \A q \in Pids : q # p => t.proc[q] = s.proc[q]
  <1> DEFINE t == setState(s, p, x)
             r == [s.proc[p] EXCEPT !.state = x]
  <1>1. s.proc[p] \in ProcessId /\ x \in ProcessState
    BY Fields DEF Asleep, ProcessState
  <1>2. r \in ProcessId /\ r.state = x /\ r.cpu = s.proc[p].cpu /\ r.pinned = s.proc[p].pinned
    BY <1>1, StateType
  <1>3. t = [s EXCEPT !.proc[p] = r]
    BY DEF setState
  <1> HIDE DEF r, t
  <1>4. /\ t \in Rec /\ t.queue = s.queue /\ t.flow = s.flow /\ t.avail = s.avail
        /\ t.working = s.working /\ t.proc[p] = r
        /\ \A q \in Pids : q # p => t.proc[q] = s.proc[q]
    BY <1>2, <1>3, ProcAt
  <1>5. Good(t) /\ Fair(t, D \cup {})
    <2>1. ASSUME NEW q \in Pids
          PROVE  /\ Runnable(t.proc[q]) <=> Runnable(s.proc[q])
                 /\ Runnable(s.proc[q]) => t.proc[q].priority = s.proc[q].priority
                 /\ t.proc[q].state = "Running" <=> s.proc[q].state = "Running"
                 /\ s.proc[q].state = "Running" => t.proc[q].cpu = s.proc[q].cpu
                 /\ t.proc[q].pinned => t.proc[q].cpu \in Cpus
                 /\ q \notin {} /\ t.proc[q].state = "Ready" =>
                      t.proc[q].pinned = s.proc[q].pinned /\ t.proc[q].cpu = s.proc[q].cpu
      <3>1. CASE q = p
        BY <3>1, <1>2, <1>4 DEF Runnable, Asleep, Good, Placed
      <3>2. CASE q # p
        BY <3>2, <1>4 DEF Good, Placed
      <3> QED BY <3>1, <3>2
    <2>2. /\ t.queue = s.queue /\ t.flow = s.flow /\ t.avail = s.avail
          /\ t.working = s.working /\ t \in Rec
      BY <1>4
    <2> QED BY <2>1, <2>2, Relabelled
  <1>6. D \cup {} = D
    OBVIOUS
  <1> QED BY <1>4, <1>5, <1>6 DEF t, r

(* makeNonRunnable, and what the caller makes of the process then.         *)
LEMMA Stopped ==
  ASSUME NEW s \in Rec, NEW p \in Pids, NEW x \in Asleep, NEW D, Good(s), Fair(s, D),
         Runnable(s.proc[p])
  PROVE  LET t == setState(makeNonRunnable(s, p), p, x) IN
         /\ t \in Rec /\ Good(t) /\ Fair(t, D) /\ t.proc[p].state = x
         /\ t.proc[p].ppid = s.proc[p].ppid /\ t.proc[p].nChilds = s.proc[p].nChilds
         /\ \A q \in Pids : q # p => Undisturbed(t.proc[q], s.proc[q])
  <1> DEFINE w == makeNonRunnable(s, p)
             t == setState(w, p, x)
  <1>1. /\ Good(w) /\ Fair(w, D)
        /\ w.proc[p] = [s.proc[p] EXCEPT !.state = "Invalid"]
        /\ \A q \in Pids : q # p => Undisturbed(w.proc[q], s.proc[q])
    BY MakeNonRunnable
  <1> HIDE DEF w
  <1>2. w \in Rec /\ s.proc[p] \in ProcessId
    BY <1>1, Fields DEF Good
  <1>3. LET r == [s.proc[p] EXCEPT !.state = "Invalid"] IN
        r.state = "Invalid" /\ r.ppid = s.proc[p].ppid /\ r.nChilds = s.proc[p].nChilds
    BY <1>2, StateType DEF ProcessState
  <1>4. ~Runnable(w.proc[p])
    BY <1>1, <1>3 DEF Runnable
  <1>5. /\ t \in Rec /\ Good(t) /\ Fair(t, D)
        /\ t.proc[p] = [w.proc[p] EXCEPT !.state = x]
        /\ \A q \in Pids : q # p => t.proc[q] = w.proc[q]
    <2>1. w \in Rec /\ Good(w) /\ Fair(w, D) /\ ~Runnable(w.proc[p])
      BY <1>1, <1>2, <1>4
    <2> QED BY <2>1, StateSet
  <1> HIDE DEF t
  <1>6. w.proc[p] \in ProcessId /\ x \in ProcessState
    BY <1>2, Fields DEF Asleep, ProcessState
  <1>7. LET r == [w.proc[p] EXCEPT !.state = x] IN
        r.state = x /\ r.ppid = w.proc[p].ppid /\ r.nChilds = w.proc[p].nChilds
    BY <1>6, StateType
  <1>8. t.proc[p].state = x /\ t.proc[p].ppid = s.proc[p].ppid
        /\ t.proc[p].nChilds = s.proc[p].nChilds
    BY <1>1, <1>3, <1>5, <1>7
  <1> QED BY <1>1, <1>5, <1>8 DEF t, w

(* A process that waits has a child.                                       *)
LEMMA EventWait ==
  ASSUME NEW p \in Pids, IInv, eventWait(p)
  PROVE  IInv'
  <1> DEFINE n == Now
             t == setState(makeNonRunnable(n, p), p, "Waiting")
  <1>1. /\ pending = None /\ n.proc[p].state = "Running" /\ n.proc[p].nChilds # 0
        /\ Becomes(t, {}) /\ pending' = pending /\ adopted' = adopted
    BY NowFields DEF eventWait, calls, st
  <1> HIDE DEF n
  <1>2. n \in Rec /\ Good(n) /\ Fair(n, displaced) /\ KinExact(n.proc, adopted)
    BY InvFacts DEF n
  <1>3. /\ t \in Rec /\ Good(t) /\ Fair(t, displaced) /\ t.proc[p].state = "Waiting"
        /\ t.proc[p].ppid = n.proc[p].ppid /\ t.proc[p].nChilds = n.proc[p].nChilds
        /\ \A q \in Pids : q # p => Undisturbed(t.proc[q], n.proc[q])
    BY <1>1, <1>2, Stopped DEF Asleep, Runnable
  <1> HIDE DEF t
  <1>4. \A q \in Pids : Akin(t.proc[q], n.proc[q])
    BY <1>1, <1>3 DEF Undisturbed, Akin
  <1>5. \A q \in Pids :
          t.proc[q].state = "Waiting" => n.proc[q].state = "Waiting" \/ n.proc[q].nChilds # 0
    BY <1>1, <1>3 DEF Undisturbed
  <1>6. KinExact(t.proc, adopted')
    BY <1>1, <1>2, <1>4, <1>5, SameKin
  <1>7. adopted' \in SUBSET Pids /\ displaced \cup {} = displaced
    BY <1>1 DEF IInv
  <1> QED BY <1>1, <1>3, <1>6, <1>7, Closing

(* A count of suspensions is not what makes a process runnable.            *)
LEMMA Recounted ==
  ASSUME NEW s \in Rec, NEW q \in Pids, NEW k \in -SuspendBound .. SuspendBound, NEW D,
         Good(s), Fair(s, D)
  PROVE  LET t == [s EXCEPT !.proc[q].suspendedCounter = k] IN
         /\ t \in Rec /\ Good(t) /\ Fair(t, D)
         /\ t.proc[q] = [s.proc[q] EXCEPT !.suspendedCounter = k]
         /\ \A x \in Pids : Akin(t.proc[x], s.proc[x]) /\ t.proc[x].state = s.proc[x].state
  <1> DEFINE t == [s EXCEPT !.proc[q].suspendedCounter = k]
             r == [s.proc[q] EXCEPT !.suspendedCounter = k]
  <1>1. s.proc[q] \in ProcessId
    BY Fields
  <1>2. /\ r \in ProcessId /\ r.state = s.proc[q].state /\ r.cpu = s.proc[q].cpu
        /\ r.pinned = s.proc[q].pinned /\ r.priority = s.proc[q].priority
        /\ r.ppid = s.proc[q].ppid /\ r.nChilds = s.proc[q].nChilds
    BY <1>1 DEF ProcessId
  <1>3. t = [s EXCEPT !.proc[q] = r]
    OBVIOUS
  <1> HIDE DEF r, t
  <1>4. /\ t \in Rec /\ t.queue = s.queue /\ t.flow = s.flow /\ t.avail = s.avail
        /\ t.working = s.working /\ t.proc[q] = r
        /\ \A x \in Pids : x # q => t.proc[x] = s.proc[x]
    BY <1>2, <1>3, ProcAt
  <1>5. \A x \in Pids : /\ t.proc[x].state = s.proc[x].state /\ t.proc[x].cpu = s.proc[x].cpu
                        /\ t.proc[x].pinned = s.proc[x].pinned
                        /\ t.proc[x].priority = s.proc[x].priority
                        /\ t.proc[x].ppid = s.proc[x].ppid
                        /\ t.proc[x].nChilds = s.proc[x].nChilds
    BY <1>2, <1>4
  <1>6. Good(t) /\ Fair(t, D \cup {})
    <2>1. ASSUME NEW x \in Pids
          PROVE  /\ Runnable(t.proc[x]) <=> Runnable(s.proc[x])
                 /\ Runnable(s.proc[x]) => t.proc[x].priority = s.proc[x].priority
                 /\ t.proc[x].state = "Running" <=> s.proc[x].state = "Running"
                 /\ s.proc[x].state = "Running" => t.proc[x].cpu = s.proc[x].cpu
                 /\ t.proc[x].pinned => t.proc[x].cpu \in Cpus
                 /\ x \notin {} /\ t.proc[x].state = "Ready" =>
                      t.proc[x].pinned = s.proc[x].pinned /\ t.proc[x].cpu = s.proc[x].cpu
      BY <1>5 DEF Runnable, Good, Placed
    <2>2. /\ t.queue = s.queue /\ t.flow = s.flow /\ t.avail = s.avail
          /\ t.working = s.working /\ t \in Rec
      BY <1>4
    <2> QED BY <2>1, <2>2, Relabelled
  <1>7. D \cup {} = D
    OBVIOUS
  <1>8. \A x \in Pids : Akin(t.proc[x], s.proc[x])
    BY <1>5 DEF Akin
  <1> QED BY <1>4, <1>5, <1>6, <1>7, <1>8 DEF t, r

(* Suspending a process, or only counting it.                              *)
LEMMA EventSuspend ==
  ASSUME NEW p \in Pids, NEW q \in Pids, IInv, eventSuspend(p, q)
  PROVE  IInv'
  <1> DEFINE n == Now
             k == n.proc[q].suspendedCounter + 1
             s == [n EXCEPT !.proc[q].suspendedCounter = k]
             t == setState(makeNonRunnable(s, q), q, "Suspended")
  <1>1. /\ pending = None /\ n.proc[q].state \in {"Ready", "Running", "Suspended"}
        /\ n.proc[q].suspendedCounter < SuspendBound
        /\ \/ n.proc[q].state # "Suspended" /\ Becomes(t, {})
           \/ Becomes(s, {})
        /\ pending' = pending /\ adopted' = adopted
    BY NowFields DEF eventSuspend, calls, st
  <1> HIDE DEF n
  <1>2. n \in Rec /\ Good(n) /\ Fair(n, displaced) /\ KinExact(n.proc, adopted)
    BY InvFacts DEF n
  <1>3. k \in -SuspendBound .. SuspendBound
    BY <1>1, <1>2, Fields, BoundAssumption DEF ProcessId
  <1> HIDE DEF k
  <1>4. /\ s \in Rec /\ Good(s) /\ Fair(s, displaced)
        /\ \A x \in Pids : Akin(s.proc[x], n.proc[x]) /\ s.proc[x].state = n.proc[x].state
    BY <1>2, <1>3, Recounted
  <1> HIDE DEF s
  <1>5. adopted' \in SUBSET Pids /\ displaced \cup {} = displaced
    BY <1>1 DEF IInv
  <1>6. KinExact(s.proc, adopted')
    BY <1>1, <1>2, <1>4, SameKin
  <1>7. CASE Becomes(s, {})
    BY <1>1, <1>4, <1>5, <1>6, <1>7, Closing
  <1>8. CASE n.proc[q].state # "Suspended" /\ Becomes(t, {})
    <2>1. Runnable(s.proc[q])
      BY <1>1, <1>4, <1>8 DEF Runnable
    <2>2. /\ t \in Rec /\ Good(t) /\ Fair(t, displaced) /\ t.proc[q].state = "Suspended"
          /\ t.proc[q].ppid = s.proc[q].ppid /\ t.proc[q].nChilds = s.proc[q].nChilds
          /\ \A x \in Pids : x # q => Undisturbed(t.proc[x], s.proc[x])
      BY <1>4, <2>1, Stopped DEF Asleep
    <2> HIDE DEF t
    <2>3. \A x \in Pids : Akin(t.proc[x], s.proc[x])
      BY <2>1, <2>2 DEF Undisturbed, Akin, Runnable
    <2>4. \A x \in Pids : t.proc[x].state = "Waiting" => s.proc[x].state = "Waiting"
      BY <2>2 DEF Undisturbed
    <2>5. KinExact(t.proc, adopted')
      BY <1>6, <2>3, <2>4, SameKin
    <2> QED BY <1>1, <1>5, <1>8, <2>2, <2>5, Closing
  <1> QED BY <1>1, <1>7, <1>8

(* Resuming a process, or only counting it.                                *)
LEMMA EventResume ==
  ASSUME NEW p \in Pids, NEW q \in Pids, IInv, eventResume(p, q)
  PROVE  IInv'
  <1> DEFINE n == Now
             k == n.proc[q].suspendedCounter - 1
             s == [n EXCEPT !.proc[q].suspendedCounter = k]
             t == setState(s, q, "Invalid")
  <1>1. /\ pending = None
        /\ n.proc[q].suspendedCounter > -SuspendBound
        /\ \/ n.proc[q].state = "Suspended" /\ Becomes(t, {}) /\ pending' = q
           \/ Becomes(s, {}) /\ pending' = pending
        /\ adopted' = adopted
    BY NowFields DEF eventResume, calls, st
  <1> HIDE DEF n
  <1>2. n \in Rec /\ Good(n) /\ Fair(n, displaced) /\ KinExact(n.proc, adopted)
    BY InvFacts DEF n
  <1>3. k \in -SuspendBound .. SuspendBound
    BY <1>1, <1>2, Fields, BoundAssumption DEF ProcessId
  <1> HIDE DEF k
  <1>4. /\ s \in Rec /\ Good(s) /\ Fair(s, displaced)
        /\ \A x \in Pids : Akin(s.proc[x], n.proc[x]) /\ s.proc[x].state = n.proc[x].state
    BY <1>2, <1>3, Recounted
  <1> HIDE DEF s
  <1>5. adopted' \in SUBSET Pids /\ displaced \cup {} = displaced
    BY <1>1 DEF IInv
  <1>6. KinExact(s.proc, adopted')
    BY <1>1, <1>2, <1>4, SameKin
  <1>7. CASE Becomes(s, {}) /\ pending' = pending
    BY <1>1, <1>4, <1>5, <1>6, <1>7, Closing
  <1>8. CASE n.proc[q].state = "Suspended" /\ Becomes(t, {}) /\ pending' = q
    <2>1. ~Runnable(s.proc[q]) /\ s.proc[q].state = "Suspended" /\ s.proc[q] \in ProcessId
      BY <1>4, <1>8, Fields DEF Runnable
    <2>2. /\ t \in Rec /\ Good(t) /\ Fair(t, displaced)
          /\ t.proc[q] = [s.proc[q] EXCEPT !.state = "Invalid"]
          /\ \A x \in Pids : x # q => t.proc[x] = s.proc[x]
      BY <1>4, <2>1, StateSet DEF Asleep
    <2> HIDE DEF t
    <2>3. LET r == [s.proc[q] EXCEPT !.state = "Invalid"] IN
          r.state = "Invalid" /\ r.ppid = s.proc[q].ppid /\ r.nChilds = s.proc[q].nChilds
      BY <2>1, StateType DEF ProcessState
    <2>4. /\ t.proc[q].state = "Invalid" /\ t.proc[q].ppid = s.proc[q].ppid
          /\ t.proc[q].nChilds = s.proc[q].nChilds
      BY <2>2, <2>3
    <2>5. \A x \in Pids : Akin(t.proc[x], s.proc[x])
      BY <2>1, <2>2, <2>4 DEF Akin
    <2>6. \A x \in Pids : t.proc[x].state = "Waiting" => s.proc[x].state = "Waiting"
      BY <2>2, <2>4
    <2>7. KinExact(t.proc, adopted')
      BY <1>6, <2>5, <2>6, SameKin
    <2>8. pending' \in Pids \cup {None} /\ t.proc[pending'].state = "Invalid"
      BY <1>8, <2>4
    <2> QED BY <1>5, <1>8, <2>2, <2>7, <2>8, Closing
  <1> QED BY <1>1, <1>7, <1>8

(* What sysconf makes of a record.                                         *)
LEMMA SysconfType ==
  ASSUME NEW r \in ProcessId, NEW f \in Flags
  PROVE  LET y == sysconf(r, f) IN
         /\ y \in ProcessId /\ y.state = r.state /\ y.priority = r.priority
         /\ y.ppid = r.ppid /\ y.nChilds = r.nChilds
         /\ r.state = "Running" => y.cpu = r.cpu
         /\ y.pinned /\ r.state # "Running" => y.cpu \in Cpus
  <1>1. CASE r.state = "Running"
    BY <1>1 DEF sysconf, ProcessId, Flags
  <1>2. CASE r.state # "Running"
    BY <1>2 DEF sysconf, ProcessId, Flags
  <1> QED BY <1>1, <1>2

(* A process that is reconfigured in place counts as displaced.            *)
LEMMA Reconfigured ==
  ASSUME NEW s \in Rec, NEW q \in Pids, NEW f \in Flags, NEW D, Good(s), Fair(s, D)
  PROVE  LET t == [s EXCEPT !.proc[q] = sysconf(@, f)] IN
         /\ t \in Rec /\ Good(t) /\ Fair(t, D \cup {q})
         /\ \A x \in Pids : Akin(t.proc[x], s.proc[x]) /\ t.proc[x].state = s.proc[x].state
  <1> DEFINE t == [s EXCEPT !.proc[q] = sysconf(@, f)]
             r == sysconf(s.proc[q], f)
  <1>1. s.proc[q] \in ProcessId
    BY Fields
  <1>2. /\ r \in ProcessId /\ r.state = s.proc[q].state /\ r.priority = s.proc[q].priority
        /\ r.ppid = s.proc[q].ppid /\ r.nChilds = s.proc[q].nChilds
        /\ s.proc[q].state = "Running" => r.cpu = s.proc[q].cpu
        /\ r.pinned /\ s.proc[q].state # "Running" => r.cpu \in Cpus
    BY <1>1, SysconfType
  <1>3. t = [s EXCEPT !.proc[q] = r]
    OBVIOUS
  <1> HIDE DEF r, t
  <1>4. /\ t \in Rec /\ t.queue = s.queue /\ t.flow = s.flow /\ t.avail = s.avail
        /\ t.working = s.working /\ t.proc[q] = r
        /\ \A x \in Pids : x # q => t.proc[x] = s.proc[x]
    BY <1>2, <1>3, ProcAt
  <1>5. Good(t) /\ Fair(t, D \cup {q})
    <2>1. ASSUME NEW x \in Pids
          PROVE  /\ Runnable(t.proc[x]) <=> Runnable(s.proc[x])
                 /\ Runnable(s.proc[x]) => t.proc[x].priority = s.proc[x].priority
                 /\ t.proc[x].state = "Running" <=> s.proc[x].state = "Running"
                 /\ s.proc[x].state = "Running" => t.proc[x].cpu = s.proc[x].cpu
                 /\ t.proc[x].pinned => t.proc[x].cpu \in Cpus
                 /\ x \notin {q} /\ t.proc[x].state = "Ready" =>
                      t.proc[x].pinned = s.proc[x].pinned /\ t.proc[x].cpu = s.proc[x].cpu
      <3>1. CASE x = q
        BY <3>1, <1>2, <1>4 DEF Runnable, Good, Placed
      <3>2. CASE x # q
        BY <3>2, <1>4 DEF Good, Placed
      <3> QED BY <3>1, <3>2
    <2>2. /\ t.queue = s.queue /\ t.flow = s.flow /\ t.avail = s.avail
          /\ t.working = s.working /\ t \in Rec
      BY <1>4
    <2> QED BY <2>1, <2>2, Relabelled
  <1>6. \A x \in Pids : Akin(t.proc[x], s.proc[x]) /\ t.proc[x].state = s.proc[x].state
    BY <1>2, <1>4 DEF Akin
  <1> QED BY <1>4, <1>5, <1>6 DEF t

(* sysconf, of a process it may stay with or must move.                    *)
LEMMA EventSysconf ==
  ASSUME NEW p \in Pids, NEW q \in Pids, NEW f \in Flags, IInv, eventSysconf(p, q, f)
  PROVE  IInv'
  <1> DEFINE n == Now
             w == makeNonRunnable(n, q)
             s == [w EXCEPT !.proc[q] = sysconf(@, f)]
             t == [n EXCEPT !.proc[q] = sysconf(@, f)]
  <1>1. /\ pending = None /\ adopted' = adopted
        /\ \/ refuses(n.proc[q], f) /\ Becomes(s, {}) /\ pending' = q
           \/ Becomes(t, {q}) /\ pending' = pending
    BY NowFields DEF eventSysconf, calls, st
  <1> HIDE DEF n
  <1>2. /\ n \in Rec /\ Good(n) /\ Fair(n, displaced) /\ KinExact(n.proc, adopted)
        /\ n.proc[q] \in ProcessId
    BY InvFacts DEF n
  <1>3. adopted' \in SUBSET Pids
    BY <1>1 DEF IInv
  <1>4. CASE Becomes(t, {q}) /\ pending' = pending
    <2>1. /\ t \in Rec /\ Good(t) /\ Fair(t, displaced \cup {q})
          /\ \A x \in Pids : Akin(t.proc[x], n.proc[x]) /\ t.proc[x].state = n.proc[x].state
      BY <1>2, Reconfigured
    <2> HIDE DEF t
    <2>2. KinExact(t.proc, adopted')
      BY <1>1, <1>2, <2>1, SameKin
    <2> QED BY <1>1, <1>3, <1>4, <2>1, <2>2, Closing
  <1>5. CASE refuses(n.proc[q], f) /\ Becomes(s, {}) /\ pending' = q
    <2>1. Runnable(n.proc[q])
      BY <1>5 DEF refuses, Runnable
    <2>2. /\ Good(w) /\ Fair(w, displaced)
          /\ w.proc[q] = [n.proc[q] EXCEPT !.state = "Invalid"]
          /\ \A x \in Pids : x # q => Undisturbed(w.proc[x], n.proc[x])
      BY <1>2, <2>1, MakeNonRunnable
    <2> HIDE DEF w
    <2>3. LET r == [n.proc[q] EXCEPT !.state = "Invalid"] IN
          r.state = "Invalid" /\ r.ppid = n.proc[q].ppid /\ r.nChilds = n.proc[q].nChilds
      BY <1>2, StateType DEF ProcessState
    <2>4. /\ w \in Rec /\ w.proc[q].state = "Invalid" /\ w.proc[q].ppid = n.proc[q].ppid
          /\ w.proc[q].nChilds = n.proc[q].nChilds
      BY <2>2, <2>3 DEF Good
    <2>5. /\ s \in Rec /\ Good(s) /\ Fair(s, displaced \cup {q})
          /\ \A x \in Pids : Akin(s.proc[x], w.proc[x]) /\ s.proc[x].state = w.proc[x].state
      BY <2>2, <2>4, Reconfigured
    <2> HIDE DEF s
    <2>6. Fair(s, displaced \cup {})
      <3>1. \A x \in Pids : x \in displaced \cup {q} /\ s.proc[x].state = "Ready"
                              => x \in displaced \cup {}
        BY <2>4, <2>5
      <3> QED BY <3>1, <2>5, FairReady
    <2>7. \A x \in Pids : Akin(w.proc[x], n.proc[x])
      BY <2>1, <2>2, <2>4 DEF Undisturbed, Akin, Runnable
    <2>8. \A x \in Pids : Akin(s.proc[x], n.proc[x])
      BY <2>5, <2>7 DEF Akin
    <2>9. \A x \in Pids : s.proc[x].state = "Waiting" => n.proc[x].state = "Waiting"
      BY <2>2, <2>4, <2>5 DEF Undisturbed
    <2>10. KinExact(s.proc, adopted')
      BY <1>1, <1>2, <2>8, <2>9, SameKin
    <2>11. pending' \in Pids \cup {None} /\ s.proc[pending'].state = "Invalid"
      BY <1>5, <2>4, <2>5
    <2> QED BY <1>3, <1>5, <2>5, <2>6, <2>10, <2>11, Closing
  <1> QED BY <1>1, <1>4, <1>5

(* The record of a free pid.                                               *)
LEMMA NoProcessType ==
  /\ NoProcess \in ProcessId /\ NoProcess.state = "Free" /\ NoProcess.ppid = None
  /\ ~NoProcess.pinned
  <1>1. 0 \in -SuspendBound .. SuspendBound /\ 0 \in Priorities
    BY BoundAssumption
  <1> QED BY <1>1 DEF NoProcess, ProcessId, ProcessState

(* A process has finitely many children.                                   *)
LEMMA ChildrenFinite ==
  ASSUME NEW f, NEW p
  PROVE  IsFiniteSet(Children(f, p)) /\ Cardinality(Children(f, p)) \in Nat
  <1>1. Children(f, p) \in SUBSET Pids
    BY DEF Children
  <1>2. IsFiniteSet(Children(f, p))
    BY <1>1, PidAssumption, FS_Subset
  <1> QED BY <1>2, FS_CardinalityType

(* The parent counts its new child; a child whose pid was used before may  *)
(* be the parent of processes it did not spawn.                            *)
LEMMA Born ==
  ASSUME NEW f, NEW g, NEW A, NEW p \in Pids, NEW b \in Pids, KinExact(f, A), p # b,
         f[b].state = "Free", f[p].state = "Running",
         g[b].state = "Invalid", g[b].ppid = p, g[b].nChilds = 0,
         g[p].state = f[p].state, g[p].ppid = f[p].ppid, g[p].nChilds = f[p].nChilds + 1,
         \A x \in Pids : x # p /\ x # b => g[x] = f[x]
  PROVE  KinExact(g, IF Children(f, b) # {} THEN A \cup {b} ELSE A)
  <1> DEFINE B == IF Children(f, b) # {} THEN A \cup {b} ELSE A
  <1>1. \A x \in Pids : g[x].ppid # x
    BY DEF KinExact
  <1>2. \A x \in Pids : x # p => Children(g, x) = Children(f, x)
    BY DEF Children
  <1>3. Children(g, p) = Children(f, p) \cup {b} /\ b \notin Children(f, p)
    BY DEF Children
  <1>4. Cardinality(Children(g, p)) = Cardinality(Children(f, p)) + 1
    BY <1>3, ChildrenFinite, FS_AddElement
  <1>5. ASSUME NEW x \in Pids \ B, g[x].state # "Free"
        PROVE  /\ g[x].nChilds = Cardinality(Children(g, x))
               /\ g[x].state = "Waiting" => g[x].nChilds > 0
    <2>1. CASE x = b
      <3>1. Children(f, b) = {}
        BY <1>5, <2>1
      <3> QED BY <2>1, <3>1, <1>2, FS_EmptySet
    <2>2. CASE x = p
      <3>1. f[p].nChilds = Cardinality(Children(f, p))
        BY <1>5, <2>2 DEF KinExact
      <3> QED BY <2>2, <3>1, <1>4
    <2>3. CASE x # p /\ x # b
      BY <1>5, <2>3, <1>2 DEF KinExact
    <2> QED BY <2>1, <2>2, <2>3
  <1> QED BY <1>1, <1>5 DEF KinExact

(* The child is counted by its parent and pending.                         *)
LEMMA EventSpawn ==
  ASSUME NEW p \in Pids, NEW b \in Pids, NEW f \in Flags, IInv, eventSpawn(p, b, f)
  PROVE  IInv'
  <1> DEFINE n == Now
             t == create(n, p, b, f)
             e == [NoProcess EXCEPT !.state = "Invalid", !.ppid = p]
             q == sysconf(e, f)
             r == [n.proc[p] EXCEPT !.nChilds = n.proc[p].nChilds + 1]
             g == [[n.proc EXCEPT ![b] = q] EXCEPT ![p] = r]
  <1>1. /\ pending = None /\ n.proc[p].state = "Running" /\ n.proc[b].state = "Free"
        /\ Becomes(t, {}) /\ pending' = b
        /\ adopted' = IF Children(n.proc, b) # {} THEN adopted \cup {b} ELSE adopted
    <2>1. Children(n.proc, b) # {} <=> \E x \in Live : pidTable[x].ppid = b
      BY NowFields DEF Children, Live, st
    <2> QED BY <2>1, NowFields DEF eventSpawn, calls, st
  <1> HIDE DEF n
  <1>2. /\ n \in Rec /\ Good(n) /\ Fair(n, displaced) /\ KinExact(n.proc, adopted)
        /\ n.proc[p] \in ProcessId /\ n.proc \in [Pids -> ProcessId]
    BY InvFacts, Fields DEF n
  <1>3. p # b
    BY <1>1
  <1>4. /\ e \in ProcessId /\ e.state = "Invalid" /\ e.ppid = p /\ e.nChilds = 0
    <2>1. NoProcess \in ProcessId /\ NoProcess.nChilds = 0 /\ "Invalid" \in ProcessState
      BY NoProcessType DEF NoProcess, ProcessState
    <2> QED BY <2>1 DEF ProcessId
  <1>5. /\ q \in ProcessId /\ q.state = "Invalid" /\ q.ppid = p /\ q.nChilds = 0
        /\ q.pinned => q.cpu \in Cpus
    <2> HIDE DEF e
    <2>1. LET y == sysconf(e, f) IN
          /\ y \in ProcessId /\ y.state = e.state /\ y.ppid = e.ppid /\ y.nChilds = e.nChilds
          /\ y.pinned /\ e.state # "Running" => y.cpu \in Cpus
      BY <1>4, SysconfType
    <2> QED BY <2>1, <1>4
  <1>6. /\ r \in ProcessId /\ r.state = "Running" /\ r.ppid = n.proc[p].ppid
        /\ r.nChilds = n.proc[p].nChilds + 1 /\ r.cpu = n.proc[p].cpu
        /\ r.pinned = n.proc[p].pinned /\ r.priority = n.proc[p].priority
    BY <1>1, <1>2 DEF ProcessId
  <1>7. /\ t \in Rec /\ t.proc = g /\ t.queue = n.queue /\ t.flow = n.flow
        /\ t.working = n.working /\ t.avail = n.avail
    <2>1. t = [n EXCEPT !.proc[b] = q, !.proc[p].nChilds = n.proc[p].nChilds + 1]
      BY DEF create
    <2> HIDE DEF q, e, t
    <2>2. t.proc = g
      BY <2>1, <1>2, <1>3 DEF Rec
    <2>3. /\ t.queue = n.queue /\ t.flow = n.flow /\ t.working = n.working
          /\ t.avail = n.avail
      BY <2>1, <1>2 DEF Rec
    <2>4. g \in [Pids -> ProcessId]
      BY <1>2, <1>5, <1>6
    <2>5. t \in Rec
      BY <2>1, <2>2, <2>4, <1>2 DEF Rec
    <2> QED BY <2>2, <2>3, <2>5
  <1> HIDE DEF t, e, q, r
  <1>8. g[b] = q /\ g[p] = r /\ \A x \in Pids : x # p /\ x # b => g[x] = n.proc[x]
    BY <1>2, <1>3, <1>5, <1>6
  <1> HIDE DEF g
  <1>9. /\ t \in Rec /\ t.proc = g /\ t.queue = n.queue /\ t.flow = n.flow
        /\ t.working = n.working /\ t.avail = n.avail
    BY <1>7
  <1>10. Good(t) /\ Fair(t, displaced \cup {})
    <2>1. ASSUME NEW x \in Pids
          PROVE  /\ Runnable(t.proc[x]) <=> Runnable(n.proc[x])
                 /\ Runnable(n.proc[x]) => t.proc[x].priority = n.proc[x].priority
                 /\ t.proc[x].state = "Running" <=> n.proc[x].state = "Running"
                 /\ n.proc[x].state = "Running" => t.proc[x].cpu = n.proc[x].cpu
                 /\ t.proc[x].pinned => t.proc[x].cpu \in Cpus
                 /\ x \notin {} /\ t.proc[x].state = "Ready" =>
                      t.proc[x].pinned = n.proc[x].pinned /\ t.proc[x].cpu = n.proc[x].cpu
      <3>1. CASE x = b
        BY <3>1, <1>1, <1>5, <1>8, <1>9 DEF Runnable
      <3>2. CASE x = p
        BY <3>2, <1>1, <1>2, <1>6, <1>8, <1>9 DEF Runnable, Good, Placed
      <3>3. CASE x # b /\ x # p
        BY <3>3, <1>2, <1>8, <1>9 DEF Good, Placed
      <3> QED BY <3>1, <3>2, <3>3
    <2> QED BY <1>2, <1>9, <2>1, Relabelled
  <1>11. KinExact(g, adopted')
    <2>1. /\ g[b].state = "Invalid" /\ g[b].ppid = p /\ g[b].nChilds = 0
          /\ g[p].state = n.proc[p].state /\ g[p].ppid = n.proc[p].ppid
          /\ g[p].nChilds = n.proc[p].nChilds + 1
      BY <1>1, <1>5, <1>6, <1>8
    <2>2. KinExact(g, IF Children(n.proc, b) # {} THEN adopted \cup {b} ELSE adopted)
      BY <2>1, <1>1, <1>2, <1>3, <1>8, Born
    <2> QED BY <1>1, <2>2
  <1>12. adopted' \in SUBSET Pids
    BY <1>1 DEF IInv
  <1>13. pending' \in Pids \cup {None} /\ t.proc[pending'].state = "Invalid"
    BY <1>1, <1>5, <1>8, <1>9
  <1>14. KinExact(t.proc, adopted')
    BY <1>9, <1>11
  <1> QED BY <1>1, <1>9, <1>10, <1>12, <1>13, <1>14, Closing

(* Its parent, if it is still alive, counts one child less.                *)
LEMMA Destroyed ==
  ASSUME NEW t \in Rec, NEW p \in Pids, NEW D, Good(t), Fair(t, D),
         ~Runnable(t.proc[p]), t.proc[p].ppid # p
  PROVE  LET u == destroy(t, p) IN
         /\ u \in Rec /\ Good(u) /\ Fair(u, D) /\ u.proc[p] = NoProcess
         /\ \A x \in Pids : x # p =>
              /\ u.proc[x].state = t.proc[x].state /\ u.proc[x].ppid = t.proc[x].ppid
              /\ u.proc[x].nChilds = IF x = t.proc[p].ppid /\ t.proc[x].state # "Free"
                                       THEN t.proc[x].nChilds - 1 ELSE t.proc[x].nChilds
  <1> DEFINE m == t.proc[p].ppid
             w == IF m # None /\ t.proc[m].state # "Free"
                    THEN [t EXCEPT !.proc[m].nChilds = @ - 1] ELSE t
             u == destroy(t, p)
  <1>1. u = [w EXCEPT !.proc[p] = NoProcess]
    BY DEF destroy
  <1>2. m \in Pids \cup {None} /\ t.proc \in [Pids -> ProcessId]
    BY Fields DEF ProcessId
  <1>3. /\ w \in Rec /\ w.queue = t.queue /\ w.flow = t.flow /\ w.avail = t.avail
        /\ w.working = t.working
        /\ \A x \in Pids :
             /\ w.proc[x].state = t.proc[x].state /\ w.proc[x].ppid = t.proc[x].ppid
             /\ w.proc[x].cpu = t.proc[x].cpu /\ w.proc[x].pinned = t.proc[x].pinned
             /\ w.proc[x].priority = t.proc[x].priority
             /\ w.proc[x].nChilds = IF x = m /\ t.proc[x].state # "Free"
                                      THEN t.proc[x].nChilds - 1 ELSE t.proc[x].nChilds
    <2>1. CASE ~(m # None /\ t.proc[m].state # "Free")
      <3>1. w = t /\ \A x \in Pids : ~(x = m /\ t.proc[x].state # "Free")
        BY <2>1, PidAssumption
      <3> QED BY <3>1
    <2>2. CASE m # None /\ t.proc[m].state # "Free"
      <3> DEFINE r == [t.proc[m] EXCEPT !.nChilds = t.proc[m].nChilds - 1]
      <3>1. m \in Pids /\ t.proc[m] \in ProcessId
        BY <1>2, <2>2
      <3> HIDE DEF m
      <3>2. /\ r \in ProcessId /\ r.state = t.proc[m].state /\ r.ppid = t.proc[m].ppid
            /\ r.cpu = t.proc[m].cpu /\ r.pinned = t.proc[m].pinned
            /\ r.priority = t.proc[m].priority /\ r.nChilds = t.proc[m].nChilds - 1
        BY <3>1 DEF ProcessId
      <3>3. w = [t EXCEPT !.proc[m] = r]
        BY <2>2
      <3> HIDE DEF r, w
      <3>4. /\ w \in Rec /\ w.queue = t.queue /\ w.flow = t.flow /\ w.avail = t.avail
            /\ w.working = t.working /\ w.proc[m] = r
            /\ \A x \in Pids : x # m => w.proc[x] = t.proc[x]
        BY <3>1, <3>2, <3>3, ProcAt
      <3>5. ASSUME NEW x \in Pids
            PROVE  /\ w.proc[x].state = t.proc[x].state /\ w.proc[x].ppid = t.proc[x].ppid
                   /\ w.proc[x].cpu = t.proc[x].cpu /\ w.proc[x].pinned = t.proc[x].pinned
                   /\ w.proc[x].priority = t.proc[x].priority
                   /\ w.proc[x].nChilds = IF x = m /\ t.proc[x].state # "Free"
                                            THEN t.proc[x].nChilds - 1 ELSE t.proc[x].nChilds
        <4>1. CASE x = m
          BY <4>1, <2>2, <3>2, <3>4
        <4>2. CASE x # m
          BY <4>2, <3>4
        <4> QED BY <4>1, <4>2
      <3> QED BY <3>4, <3>5
    <2> QED BY <2>1, <2>2
  <1> HIDE DEF w, u, m
  <1>4. /\ u \in Rec /\ u.queue = t.queue /\ u.flow = t.flow /\ u.avail = t.avail
        /\ u.working = t.working /\ u.proc[p] = NoProcess
        /\ \A x \in Pids : x # p => u.proc[x] = w.proc[x]
    BY <1>1, <1>3, NoProcessType, ProcAt
  <1>5. Good(u) /\ Fair(u, D \cup {})
    <2>1. ASSUME NEW x \in Pids
          PROVE  /\ Runnable(u.proc[x]) <=> Runnable(t.proc[x])
                 /\ Runnable(t.proc[x]) => u.proc[x].priority = t.proc[x].priority
                 /\ u.proc[x].state = "Running" <=> t.proc[x].state = "Running"
                 /\ t.proc[x].state = "Running" => u.proc[x].cpu = t.proc[x].cpu
                 /\ u.proc[x].pinned => u.proc[x].cpu \in Cpus
                 /\ x \notin {} /\ u.proc[x].state = "Ready" =>
                      u.proc[x].pinned = t.proc[x].pinned /\ u.proc[x].cpu = t.proc[x].cpu
      <3>1. CASE x = p
        BY <3>1, <1>4, NoProcessType DEF Runnable
      <3>2. CASE x # p
        BY <3>2, <1>3, <1>4 DEF Runnable, Good, Placed
      <3> QED BY <3>1, <3>2
    <2>2. /\ u.queue = t.queue /\ u.flow = t.flow /\ u.avail = t.avail
          /\ u.working = t.working /\ u \in Rec
      BY <1>4
    <2> QED BY <2>1, <2>2, Relabelled
  <1>6. D \cup {} = D
    OBVIOUS
  <1>7. \A x \in Pids : x # p =>
          /\ u.proc[x].state = t.proc[x].state /\ u.proc[x].ppid = t.proc[x].ppid
          /\ u.proc[x].nChilds = IF x = m /\ t.proc[x].state # "Free"
                                   THEN t.proc[x].nChilds - 1 ELSE t.proc[x].nChilds
    BY <1>3, <1>4
  <1> QED BY <1>4, <1>5, <1>6, <1>7 DEF u, m

(* The children of the others once p is gone.                              *)
LEMMA Dead ==
  ASSUME NEW f, NEW g, NEW A, NEW p \in Pids, KinExact(f, A),
         f[p].state # "Free", g[p].state = "Free", g[p].ppid = None,
         \A x \in Pids : x # p =>
           /\ g[x].state = "Free" <=> f[x].state = "Free"
           /\ g[x].state = "Waiting" => f[x].state = "Waiting" /\ x # f[p].ppid
           /\ g[x].ppid = f[x].ppid
           /\ f[x].state # "Free" =>
                g[x].nChilds = IF x = f[p].ppid THEN f[x].nChilds - 1 ELSE f[x].nChilds
  PROVE  KinExact(g, A \ {p})
  <1>1. \A x \in Pids : g[x].ppid # x
    BY PidAssumption DEF KinExact
  <1>2. ASSUME NEW x \in Pids \ (A \ {p}), g[x].state # "Free"
        PROVE  /\ g[x].nChilds = Cardinality(Children(g, x))
               /\ g[x].state = "Waiting" => g[x].nChilds > 0
    <2>1. x # p /\ x \in Pids \ A /\ f[x].state # "Free"
      BY <1>2
    <2>2. /\ f[x].nChilds = Cardinality(Children(f, x))
          /\ f[x].state = "Waiting" => f[x].nChilds > 0
      BY <2>1 DEF KinExact
    <2>3. CASE x = f[p].ppid
      <3>1. Children(g, x) = Children(f, x) \ {p} /\ p \in Children(f, x)
        BY <2>3, <2>1, PidAssumption DEF Children
      <3>2. Cardinality(Children(f, x) \ {p}) = Cardinality(Children(f, x)) - 1
        BY <3>1, ChildrenFinite, FS_RemoveElement
      <3>3. g[x].nChilds = f[x].nChilds - 1 /\ g[x].state # "Waiting"
        BY <2>1, <2>3
      <3> QED BY <3>1, <3>2, <3>3, <2>2
    <2>4. CASE x # f[p].ppid
      <3>1. Children(g, x) = Children(f, x)
        BY <2>4, <2>1, PidAssumption DEF Children
      <3>2. g[x].nChilds = f[x].nChilds /\ (g[x].state = "Waiting" => f[x].state = "Waiting")
        BY <2>1, <2>4
      <3> QED BY <3>1, <3>2, <2>2
    <2> QED BY <2>3, <2>4
  <1> QED BY <1>1, <1>2 DEF KinExact

(* The process leaves its processor, wakes its parent and is destroyed.    *)
LEMMA EventExit ==
  ASSUME NEW p \in Pids, IInv, eventExit(p)
  PROVE  IInv'
  <1> DEFINE n == Now
             m == n.proc[p].ppid
             wakes == m # None /\ n.proc[m].state = "Waiting"
             s == makeNonRunnable(n, p)
             t == IF wakes THEN setState(s, m, "Invalid") ELSE s
             u == destroy(t, p)
  <1>1. /\ pending = None /\ n.proc[p].state = "Running" /\ Becomes(u, {})
        /\ pending' = IF wakes THEN m ELSE None
        /\ adopted' = adopted \ {p}
    BY NowFields DEF eventExit, wakesParent, calls, st
  <1> HIDE DEF n
  <1>2. /\ n \in Rec /\ Good(n) /\ Fair(n, displaced) /\ KinExact(n.proc, adopted)
        /\ n.proc[p] \in ProcessId
    BY InvFacts DEF n
  <1>3. /\ Good(s) /\ Fair(s, displaced)
        /\ s.proc[p] = [n.proc[p] EXCEPT !.state = "Invalid"]
        /\ \A x \in Pids : x # p => Undisturbed(s.proc[x], n.proc[x])
    BY <1>1, <1>2, MakeNonRunnable DEF Runnable
  <1> HIDE DEF s
  <1>4. m # p /\ m \in Pids \cup {None}
    BY <1>2 DEF KinExact, ProcessId
  <1>5. s \in Rec /\ s.proc[p].state = "Invalid" /\ s.proc[p].ppid = m
    <2>1. LET r == [n.proc[p] EXCEPT !.state = "Invalid"] IN
          r.state = "Invalid" /\ r.ppid = n.proc[p].ppid
      BY <1>2, StateType DEF ProcessState
    <2> QED BY <2>1, <1>3 DEF Good
  <1> HIDE DEF m
  <1>6. /\ t \in Rec /\ Good(t) /\ Fair(t, displaced) /\ t.proc[p] = s.proc[p]
        /\ \A x \in Pids : x # p =>
             /\ t.proc[x].state = "Free" <=> n.proc[x].state = "Free"
             /\ t.proc[x].state = "Waiting" => n.proc[x].state = "Waiting" /\ x # m
             /\ t.proc[x].ppid = n.proc[x].ppid /\ t.proc[x].nChilds = n.proc[x].nChilds
        /\ wakes => t.proc[m].state = "Invalid"
    <2>1. CASE ~wakes
      <3>1. t = s
        BY <2>1
      <3>2. ASSUME NEW x \in Pids, x # p
            PROVE  /\ s.proc[x].state = "Free" <=> n.proc[x].state = "Free"
                   /\ s.proc[x].state = "Waiting" => n.proc[x].state = "Waiting" /\ x # m
                   /\ s.proc[x].ppid = n.proc[x].ppid /\ s.proc[x].nChilds = n.proc[x].nChilds
        BY <1>3, <2>1, <3>2, PidAssumption DEF Undisturbed, Akin
      <3> QED BY <3>1, <3>2, <2>1, <1>3, <1>5
    <2>2. CASE wakes
      <3>1. m \in Pids /\ n.proc[m].state = "Waiting"
        BY <2>2, <1>4
      <3>2. s.proc[m] = n.proc[m] /\ ~Runnable(s.proc[m]) /\ n.proc[m] \in ProcessId
        BY <3>1, <1>2, <1>3, <1>4, Fields DEF Undisturbed, Runnable
      <3>3. t = setState(s, m, "Invalid")
        BY <2>2
      <3> HIDE DEF t
      <3>4. /\ t \in Rec /\ Good(t) /\ Fair(t, displaced)
            /\ t.proc[m] = [s.proc[m] EXCEPT !.state = "Invalid"]
            /\ \A x \in Pids : x # m => t.proc[x] = s.proc[x]
        <4>1. s \in Rec /\ Good(s) /\ Fair(s, displaced) /\ "Invalid" \in Asleep
          BY <1>3, <1>5 DEF Asleep
        <4> QED BY <4>1, <3>1, <3>2, <3>3, StateSet
      <3>5. LET r == [n.proc[m] EXCEPT !.state = "Invalid"] IN
            r.state = "Invalid" /\ r.ppid = n.proc[m].ppid /\ r.nChilds = n.proc[m].nChilds
        BY <3>2, StateType DEF ProcessState
      <3>6. /\ t.proc[m].state = "Invalid" /\ t.proc[m].ppid = n.proc[m].ppid
            /\ t.proc[m].nChilds = n.proc[m].nChilds
        BY <3>2, <3>4, <3>5
      <3>7. ASSUME NEW x \in Pids, x # p
            PROVE  /\ t.proc[x].state = "Free" <=> n.proc[x].state = "Free"
                   /\ t.proc[x].state = "Waiting" => n.proc[x].state = "Waiting" /\ x # m
                   /\ t.proc[x].ppid = n.proc[x].ppid /\ t.proc[x].nChilds = n.proc[x].nChilds
        <4>1. CASE x = m
          BY <4>1, <3>1, <3>6
        <4>2. CASE x # m
          BY <4>2, <3>4, <3>7, <1>3 DEF Undisturbed, Akin
        <4> QED BY <4>1, <4>2
      <3> QED BY <3>4, <3>6, <3>7, <1>4
    <2> QED BY <2>1, <2>2
  <1> HIDE DEF t
  <1>7. /\ u \in Rec /\ Good(u) /\ Fair(u, displaced) /\ u.proc[p] = NoProcess
        /\ \A x \in Pids : x # p =>
             /\ u.proc[x].state = t.proc[x].state /\ u.proc[x].ppid = t.proc[x].ppid
             /\ u.proc[x].nChilds = IF x = m /\ t.proc[x].state # "Free"
                                      THEN t.proc[x].nChilds - 1 ELSE t.proc[x].nChilds
    <2>1. ~Runnable(t.proc[p]) /\ t.proc[p].ppid # p /\ t.proc[p].ppid = m
      BY <1>4, <1>5, <1>6 DEF Runnable
    <2>2. t \in Rec /\ Good(t) /\ Fair(t, displaced)
      BY <1>6
    <2> QED BY <2>1, <2>2, Destroyed
  <1> HIDE DEF u
  <1>8. KinExact(u.proc, adopted')
    <2>1. u.proc[p].state = "Free" /\ u.proc[p].ppid = None
      BY <1>7, NoProcessType
    <2>2. \A x \in Pids : x # p =>
            /\ u.proc[x].state = "Free" <=> n.proc[x].state = "Free"
            /\ u.proc[x].state = "Waiting" => n.proc[x].state = "Waiting" /\ x # n.proc[p].ppid
            /\ u.proc[x].ppid = n.proc[x].ppid
            /\ n.proc[x].state # "Free" =>
                 u.proc[x].nChilds = IF x = n.proc[p].ppid THEN n.proc[x].nChilds - 1
                                                           ELSE n.proc[x].nChilds
      BY <1>6, <1>7 DEF m
    <2> QED BY <2>1, <2>2, <1>1, <1>2, Dead
  <1>9. adopted' \in SUBSET Pids /\ displaced \cup {} = displaced
    BY <1>1 DEF IInv
  <1>10. /\ pending' \in Pids \cup {None}
         /\ pending' # None => u.proc[pending'].state = "Invalid"
    BY <1>1, <1>4, <1>6, <1>7
  <1> QED BY <1>1, <1>7, <1>8, <1>9, <1>10, Closing
-----------------------------------------------------------------------------
(***************************************************************************)
(* setPriority                                                             *)
(***************************************************************************)
Reprioritized(a, q, x) == [a EXCEPT !.proc[q].priority = x]

(* Only the priority changes.                                              *)
LEMMA NewPriority ==
  ASSUME NEW a \in Rec, NEW q \in Pids, NEW x \in Priorities
  PROVE  LET s == Reprioritized(a, q, x) IN
         /\ s \in Rec /\ s.queue = a.queue /\ s.flow = a.flow /\ s.avail = a.avail
         /\ s.working = a.working /\ prio(s, q) = x
         /\ \A u \in Pids : u # q => s.proc[u] = a.proc[u] /\ prio(s, u) = prio(a, u)
         /\ \A u \in Pids :
              /\ s.proc[u].state = a.proc[u].state /\ s.proc[u].cpu = a.proc[u].cpu
              /\ s.proc[u].pinned = a.proc[u].pinned /\ s.proc[u].ppid = a.proc[u].ppid
              /\ s.proc[u].nChilds = a.proc[u].nChilds
         /\ positionOf(s, q) = positionOf(a, q)
  <1> DEFINE s == Reprioritized(a, q, x)
             r == [a.proc[q] EXCEPT !.priority = x]
  <1>1. a.proc[q] \in ProcessId
    BY Fields
  <1>2. /\ r \in ProcessId /\ r.state = a.proc[q].state /\ r.cpu = a.proc[q].cpu
        /\ r.pinned = a.proc[q].pinned /\ r.ppid = a.proc[q].ppid
        /\ r.nChilds = a.proc[q].nChilds /\ r.priority = x
    BY <1>1 DEF ProcessId
  <1>3. s = [a EXCEPT !.proc[q] = r]
    BY DEF Reprioritized
  <1> HIDE DEF r, s
  <1>4. /\ s \in Rec /\ s.queue = a.queue /\ s.flow = a.flow /\ s.avail = a.avail
        /\ s.working = a.working /\ s.proc[q] = r
        /\ \A u \in Pids : u # q => s.proc[u] = a.proc[u]
    BY <1>2, <1>3, ProcAt
  <1>5. \A u \in Pids :
          /\ s.proc[u].state = a.proc[u].state /\ s.proc[u].cpu = a.proc[u].cpu
          /\ s.proc[u].pinned = a.proc[u].pinned /\ s.proc[u].ppid = a.proc[u].ppid
          /\ s.proc[u].nChilds = a.proc[u].nChilds
    BY <1>2, <1>4
  <1>6. prio(s, q) = x /\ \A u \in Pids : u # q => prio(s, u) = prio(a, u)
    BY <1>2, <1>4 DEF prio
  <1>7. positionOf(s, q) = positionOf(a, q)
    BY <1>4 DEF positionOf
  <1> QED BY <1>4, <1>5, <1>6, <1>7 DEF s

(* The order of the queue by position.                                     *)
LEMMA ByPosition ==
  ASSUME NEW a \in Rec, NEW q \in Pids, Good(a), Runnable(a.proc[q])
  PROVE  LET k == positionOf(a, q) IN
         /\ a.queue \in Seq(Pids) /\ Len(a.queue) \in Nat
         /\ DOMAIN a.queue = 1 .. Len(a.queue) /\ Once(a.queue)
         /\ k \in 1 .. Len(a.queue) /\ a.queue[k] = q
         /\ \A i \in 1 .. Len(a.queue) :
              /\ a.queue[i] \in Pids /\ prio(a, a.queue[i]) \in Int
              /\ i # k => a.queue[i] # q
         /\ \A i, l \in 1 .. Len(a.queue) :
              i < l => prio(a, a.queue[i]) <= prio(a, a.queue[l])
         /\ \A i \in 1 .. Len(a.queue) : /\ i < k => prio(a, a.queue[i]) <= prio(a, q)
                                         /\ i > k => prio(a, a.queue[i]) >= prio(a, q)
         /\ \A u \in Pids : Ahead(a.queue, u, q) <=>
              \E i \in 1 .. k - 1 : a.queue[i] = u
         /\ \A u \in Pids : Ahead(a.queue, q, u) <=>
              \E i \in k + 1 .. Len(a.queue) : a.queue[i] = u
         /\ prio(a, q) \in Int
  <1> DEFINE k == positionOf(a, q)
             L == Len(a.queue)
  <1>1. a.queue \in Seq(Pids) /\ L \in Nat /\ DOMAIN a.queue = 1 .. L
    BY Fields
  <1>2. Once(a.queue) /\ In(a.queue, q)
    BY DEF Good, Ordered
  <1>3. /\ k \in 1 .. L /\ a.queue[k] = q
        /\ \A i \in DOMAIN a.queue : a.queue[i] = q => i = k
    BY <1>1, <1>2, Position
  <1> HIDE DEF k, L
  <1>4. \A i \in 1 .. L : a.queue[i] \in Pids /\ (i # k => a.queue[i] # q)
    BY <1>1, <1>3
  <1>5. \A i \in 1 .. L : prio(a, a.queue[i]) \in Int
    BY <1>4, PriosType
  <1>6. prio(a, q) \in Int
    BY PriosType
  <1>7. ASSUME NEW i \in 1 .. L, NEW l \in 1 .. L, i < l
        PROVE  prio(a, a.queue[i]) <= prio(a, a.queue[l])
    <2>1. Ahead(a.queue, a.queue[i], a.queue[l])
      BY <1>1, <1>7 DEF Ahead
    <2> QED BY <2>1, <1>4 DEF Good, Ordered
  <1>8. ASSUME NEW i \in 1 .. L
        PROVE  /\ i < k => prio(a, a.queue[i]) <= prio(a, q)
               /\ i > k => prio(a, a.queue[i]) >= prio(a, q)
    <2>1. i < k => prio(a, a.queue[i]) <= prio(a, q)
      BY <1>3, <1>7
    <2>2. i > k => k < i
      BY <1>1, <1>3
    <2>3. i > k => prio(a, q) <= prio(a, a.queue[i])
      BY <2>2, <1>3, <1>7
    <2>4. prio(a, q) <= prio(a, a.queue[i]) => prio(a, a.queue[i]) >= prio(a, q)
      BY <1>5, <1>6
    <2> QED BY <2>1, <2>3, <2>4
  <1>9. \A i, l \in DOMAIN a.queue : Ahead(a.queue, a.queue[i], a.queue[l]) <=> i < l
    BY <1>1, <1>2, StrictOrder
  <1>10. ASSUME NEW u \in Pids
         PROVE  Ahead(a.queue, u, q) <=> \E i \in 1 .. k - 1 : a.queue[i] = u
    <2>1. ASSUME NEW i \in 1 .. k - 1, a.queue[i] = u PROVE Ahead(a.queue, u, q)
      <3>1. i \in DOMAIN a.queue /\ k \in DOMAIN a.queue /\ i < k
        BY <1>1, <1>3
      <3> QED BY <2>1, <3>1, <1>3 DEF Ahead
    <2>2. ASSUME Ahead(a.queue, u, q) PROVE \E i \in 1 .. k - 1 : a.queue[i] = u
      <3>1. PICK i, l \in DOMAIN a.queue : i < l /\ a.queue[i] = u /\ a.queue[l] = q
        BY <2>2 DEF Ahead
      <3>2. i \in 1 .. k - 1
        BY <3>1, <1>1, <1>3
      <3> QED BY <3>1, <3>2
    <2> QED BY <2>1, <2>2
  <1>11. ASSUME NEW u \in Pids
         PROVE  Ahead(a.queue, q, u) <=> \E i \in k + 1 .. L : a.queue[i] = u
    <2>1. ASSUME NEW i \in k + 1 .. L, a.queue[i] = u PROVE Ahead(a.queue, q, u)
      <3>1. i \in DOMAIN a.queue /\ k \in DOMAIN a.queue /\ k < i
        BY <1>1, <1>3
      <3> QED BY <2>1, <3>1, <1>3 DEF Ahead
    <2>2. ASSUME Ahead(a.queue, q, u) PROVE \E i \in k + 1 .. L : a.queue[i] = u
      <3>1. PICK l, i \in DOMAIN a.queue : l < i /\ a.queue[l] = q /\ a.queue[i] = u
        BY <2>2 DEF Ahead
      <3>2. i \in k + 1 .. L
        BY <3>1, <1>1, <1>3
      <3> QED BY <3>1, <3>2
    <2> QED BY <2>1, <2>2
  <1> QED BY <1>1, <1>2, <1>3, <1>4, <1>5, <1>6, <1>7, <1>8, <1>10, <1>11 DEF k, L

(* Where setPriority puts the process.                                     *)
movedTo(a, q, x) ==
  LET s == Reprioritized(a, q, x)
      k == positionOf(a, q) IN
  IF x < prio(a, q) THEN promotedTo(s, q, k) ELSE demotedTo(s, q, k)

(* In the queue without it, as good ones are ahead of there, worse behind. *)
LEMMA MovedTo ==
  ASSUME NEW a \in Rec, NEW q \in Pids, NEW x \in Priorities, Good(a),
         Runnable(a.proc[q]), x # prio(a, q)
  PROVE  LET k == positionOf(a, q)
             r == RemoveAt(a.queue, k)
             j == movedTo(a, q, x) IN
         /\ j \in 1 .. Len(r) + 1
         /\ \A i \in 1 .. j - 1 : prio(a, r[i]) <= x /\ r[i] # q /\ r[i] \in Pids
         /\ \A i \in j .. Len(r) : prio(a, r[i]) > x /\ r[i] # q /\ r[i] \in Pids
  <1> DEFINE k == positionOf(a, q)
             r == RemoveAt(a.queue, k)
             j == movedTo(a, q, x)
             s == Reprioritized(a, q, x)
             L == Len(a.queue)
             v(i) == prio(a, a.queue[i])
  <1>1. /\ a.queue \in Seq(Pids) /\ L \in Nat /\ k \in 1 .. L
        /\ \A i \in 1 .. L : a.queue[i] \in Pids /\ v(i) \in Int /\ (i # k => a.queue[i] # q)
        /\ \A i, l \in 1 .. L : i < l => v(i) <= v(l)
        /\ \A i \in 1 .. L : (i < k => v(i) <= prio(a, q)) /\ (i > k => v(i) >= prio(a, q))
        /\ prio(a, q) \in Int
    BY ByPosition
  <1>2. /\ s \in Rec /\ s.queue = a.queue /\ prio(s, q) = x
        /\ \A u \in Pids : u # q => prio(s, u) = prio(a, u)
    BY NewPriority
  <1>3. /\ r \in Seq(Pids) /\ Len(r) = L - 1
        /\ \A i \in 1 .. k - 1 : r[i] = a.queue[i]
        /\ \A i \in k .. L - 1 : r[i] = a.queue[i + 1]
    <2> HIDE DEF k
    <2> QED BY <1>1, Removed
  <1>4. j = IF x < prio(a, q) THEN promotedTo(s, q, k) ELSE demotedTo(s, q, k)
    BY DEF movedTo
  <1>5. x \in Int
    BY BoundAssumption
  <1> HIDE DEF k, r, j, s
  <1>6. \A i \in 1 .. L : i # k => prio(s, s.queue[i]) = v(i)
    BY <1>1, <1>2
  <1> HIDE DEF L
  <1>7. s.queue \in Seq(Pids) /\ Len(s.queue) = L
    BY <1>1, <1>2 DEF L
  <1>8. CASE x < prio(a, q)
    <2>1. j \in 1 .. k /\ \A i \in j .. k - 1 : prio(s, s.queue[i]) > prio(s, q)
      <3>1. k \in 1 .. Len(s.queue) + 1
        BY <1>1, <1>7
      <3> QED BY <3>1, <1>2, <1>4, <1>8, Promoted
    <2>2. \A i \in 1 .. j - 1 : prio(s, s.queue[i]) <= prio(s, q)
      <3>1. k \in 1 .. Len(s.queue) + 1
        BY <1>1, <1>7
      <3>2. \A i \in 1 .. k - 1 : i \in 1 .. L /\ i # k
        BY <1>1
      <3>3. \A i, l \in 1 .. k - 1 : i < l => prio(s, s.queue[i]) <= prio(s, s.queue[l])
        BY <3>2, <1>1, <1>6
      <3>4. \A i \in 1 .. promotedTo(s, q, k) - 1 : prio(s, s.queue[i]) <= prio(s, q)
        BY <3>1, <3>3, <1>2, PromotedBehind
      <3> QED BY <3>4, <1>4, <1>8
    <2>3. \A i \in 1 .. j - 1 : v(i) <= x /\ r[i] = a.queue[i] /\ i \in 1 .. L /\ i # k
      <3>1. \A i \in 1 .. j - 1 : i \in 1 .. L /\ i # k /\ i \in 1 .. k - 1
        BY <2>1, <1>1
      <3> QED BY <3>1, <2>2, <1>2, <1>3, <1>6
    <2>4. \A i \in j .. k - 1 : v(i) > x /\ r[i] = a.queue[i] /\ i \in 1 .. L /\ i # k
      <3>1. \A i \in j .. k - 1 : i \in 1 .. L /\ i # k /\ i \in 1 .. k - 1
        BY <2>1, <1>1
      <3> QED BY <3>1, <2>1, <1>2, <1>3, <1>6
    <2>5. \A i \in k .. L - 1 : /\ v(i + 1) > x /\ r[i] = a.queue[i + 1]
                                /\ i + 1 \in 1 .. L /\ i + 1 # k
      <3>1. \A i \in k .. L - 1 : i + 1 \in 1 .. L /\ i + 1 # k /\ i + 1 > k
        BY <1>1
      <3>2. \A i \in k .. L - 1 : v(i + 1) >= prio(a, q) /\ v(i + 1) \in Int
        BY <3>1, <1>1
      <3>3. \A i \in k .. L - 1 : v(i + 1) > x
        <4> HIDE DEF v
        <4> QED BY <3>2, <1>1, <1>5, <1>8
      <3> QED BY <3>1, <3>3, <1>3
    <2>6. j \in 1 .. Len(r) + 1
      BY <2>1, <1>1, <1>3
    <2>7. \A i \in j .. Len(r) : i \in j .. k - 1 \/ i \in k .. L - 1
      BY <2>1, <1>1, <1>3
    <2>8. \A i \in 1 .. j - 1 : prio(a, r[i]) <= x /\ r[i] # q /\ r[i] \in Pids
      BY <2>3, <1>1
    <2>9. \A i \in j .. Len(r) : prio(a, r[i]) > x /\ r[i] # q /\ r[i] \in Pids
      BY <2>4, <2>5, <2>7, <1>1
    <2> QED BY <2>6, <2>8, <2>9 DEF j, r, k
  <1>9. CASE ~(x < prio(a, q))
    <2>0. x > prio(a, q)
      BY <1>9, <1>1, <1>5
    <2>1. j \in k .. L /\ \A i \in k + 1 .. j : prio(s, s.queue[i]) <= prio(s, q)
      <3>1. k \in 1 .. Len(s.queue)
        BY <1>1, <1>7
      <3> QED BY <3>1, <1>2, <1>4, <1>7, <1>9, Demoted
    <2>2. \A i \in j + 1 .. L : prio(s, s.queue[i]) > prio(s, q)
      <3>1. k \in 1 .. Len(s.queue)
        BY <1>1, <1>7
      <3>2. \A i \in k + 1 .. L : i \in 1 .. L /\ i # k
        BY <1>1
      <3>3. \A i, l \in k + 1 .. Len(s.queue) :
              i < l => prio(s, s.queue[i]) <= prio(s, s.queue[l])
        BY <3>2, <1>1, <1>6, <1>7
      <3>4. \A i \in demotedTo(s, q, k) + 1 .. Len(s.queue) : prio(s, s.queue[i]) > prio(s, q)
        BY <3>1, <3>3, <1>2, DemotedAhead
      <3> QED BY <3>4, <1>4, <1>7, <1>9
    <2>3. \A i \in 1 .. k - 1 : v(i) <= x /\ r[i] = a.queue[i] /\ i \in 1 .. L /\ i # k
      <3>1. \A i \in 1 .. k - 1 : i \in 1 .. L /\ i # k /\ i < k
        BY <1>1
      <3>2. \A i \in 1 .. k - 1 : v(i) <= prio(a, q) /\ v(i) \in Int
        BY <3>1, <1>1
      <3>3. \A i \in 1 .. k - 1 : v(i) <= x
        <4> HIDE DEF v
        <4> QED BY <3>2, <2>0, <1>1, <1>5
      <3> QED BY <3>1, <3>3, <1>3
    <2>4. \A i \in k .. j - 1 : /\ v(i + 1) <= x /\ r[i] = a.queue[i + 1]
                                /\ i + 1 \in 1 .. L /\ i + 1 # k
      <3>1. \A i \in k .. j - 1 : /\ i + 1 \in 1 .. L /\ i + 1 # k /\ i \in k .. L - 1
                                  /\ i + 1 \in k + 1 .. j
        BY <2>1, <1>1
      <3> QED BY <3>1, <2>1, <1>2, <1>3, <1>6
    <2>5. \A i \in j .. L - 1 : /\ v(i + 1) > x /\ r[i] = a.queue[i + 1]
                                /\ i + 1 \in 1 .. L /\ i + 1 # k
      <3>1. \A i \in j .. L - 1 : /\ i + 1 \in 1 .. L /\ i + 1 # k /\ i \in k .. L - 1
                                  /\ i + 1 \in j + 1 .. L
        BY <2>1, <1>1
      <3> QED BY <3>1, <2>2, <1>2, <1>3, <1>6
    <2>6. j \in 1 .. Len(r) + 1
      BY <2>1, <1>1, <1>3
    <2>7. \A i \in 1 .. j - 1 : i \in 1 .. k - 1 \/ i \in k .. j - 1
      BY <2>1, <1>1
    <2>8. \A i \in 1 .. j - 1 : prio(a, r[i]) <= x /\ r[i] # q /\ r[i] \in Pids
      BY <2>3, <2>4, <2>7, <1>1
    <2>9. \A i \in j .. Len(r) : prio(a, r[i]) > x /\ r[i] # q /\ r[i] \in Pids
      BY <2>5, <1>1, <1>3
    <2> QED BY <2>6, <2>8, <2>9 DEF j, r, k
  <1> QED BY <1>8, <1>9

(* The process moved to where its new priority puts it.                    *)
Moved(a, q, x) ==
  queueInsertAt(queueRemove(Reprioritized(a, q, x), q), q, movedTo(a, q, x))

(* The queue is in order again, and only q has moved in it.                *)
LEMMA MovedGood ==
  ASSUME NEW a \in Rec, NEW q \in Pids, NEW x \in Priorities, Good(a),
         Runnable(a.proc[q]), x # prio(a, q)
  PROVE  LET t == Moved(a, q, x) IN
         /\ t \in Rec /\ Good(t) /\ t.flow = a.flow
         /\ \A c \in Cpus : availableFlows(t, c) = availableFlows(a, c)
         /\ \A u \in Pids :
              /\ t.proc[u].state = a.proc[u].state /\ t.proc[u].cpu = a.proc[u].cpu
              /\ t.proc[u].pinned = a.proc[u].pinned /\ Akin(t.proc[u], a.proc[u])
         /\ \A u, w : u # q /\ w # q => (Ahead(t.queue, u, w) <=> Ahead(a.queue, u, w))
         /\ \A u \in Pids : Runnable(a.proc[u]) /\ u # q =>
              /\ Ahead(t.queue, u, q) <=> prio(a, u) <= x
              /\ Ahead(t.queue, q, u) <=> prio(a, u) > x
  <1> DEFINE k == positionOf(a, q)
             r == RemoveAt(a.queue, k)
             j == movedTo(a, q, x)
             s == Reprioritized(a, q, x)
             m == InsertAt(r, j, q)
             t == Moved(a, q, x)
  <1>1. /\ a.queue \in Seq(Pids) /\ Once(a.queue) /\ k \in 1 .. Len(a.queue)
        /\ a.queue[k] = q
    BY ByPosition
  <1>2. /\ s \in Rec /\ s.queue = a.queue /\ s.flow = a.flow /\ s.avail = a.avail
        /\ s.working = a.working /\ prio(s, q) = x /\ positionOf(s, q) = k
        /\ \A u \in Pids : u # q => prio(s, u) = prio(a, u)
        /\ \A u \in Pids :
             /\ s.proc[u].state = a.proc[u].state /\ s.proc[u].cpu = a.proc[u].cpu
             /\ s.proc[u].pinned = a.proc[u].pinned /\ s.proc[u].ppid = a.proc[u].ppid
             /\ s.proc[u].nChilds = a.proc[u].nChilds
    BY NewPriority
  <1>3. /\ j \in 1 .. Len(r) + 1
        /\ \A i \in 1 .. j - 1 : prio(a, r[i]) <= x /\ r[i] # q /\ r[i] \in Pids
        /\ \A i \in j .. Len(r) : prio(a, r[i]) > x /\ r[i] # q /\ r[i] \in Pids
    BY MovedTo
  <1>4. t = queueInsertAt(queueRemove(s, q), q, j)
    BY DEF Moved
  <1> HIDE DEF k, j, s, t
  <1>5. /\ r \in Seq(Pids) /\ Once(r)
        /\ \A u : In(r, u) <=> (u # q /\ In(a.queue, u))
        /\ \A u, w : Ahead(r, u, w) <=> (u # q /\ w # q /\ Ahead(a.queue, u, w))
    BY <1>1, RemoveOrder
  <1>6. queueRemove(s, q) = [s EXCEPT !.queue = r]
    BY <1>2 DEF queueRemove
  <1> HIDE DEF r
  <1>7. t = [[s EXCEPT !.queue = r] EXCEPT !.queue = m]
    <2>1. LET w == [s EXCEPT !.queue = r] IN w \in Rec /\ w.queue = r
      BY <1>2, <1>5, QueueEffect
    <2> QED BY <1>4, <1>6, <2>1 DEF queueInsertAt
  <1>8. Prios(s) \in [Pids -> Int] /\ \A u \in Pids : Prios(s)[u] = prio(s, u)
    BY <1>2, PriosType
  <1>9. Sorted(r, Prios(s))
    <2> SUFFICES ASSUME NEW u \in Pids, NEW w \in Pids, Ahead(r, u, w)
                 PROVE  Prios(s)[u] <= Prios(s)[w]
      BY DEF Sorted
    <2>1. u # q /\ w # q /\ Ahead(a.queue, u, w)
      BY <1>5
    <2>2. prio(a, u) <= prio(a, w)
      BY <2>1 DEF Good, Ordered
    <2> QED BY <2>1, <2>2, <1>2, <1>8
  <1>10. /\ \A i \in 1 .. j - 1 : Prios(s)[r[i]] <= Prios(s)[q]
         /\ \A i \in j .. Len(r) : Prios(s)[r[i]] > Prios(s)[q]
    BY <1>2, <1>3, <1>8
  <1>11. ~In(r, q)
    BY <1>5
  <1>12. /\ m \in Seq(Pids) /\ Once(m) /\ Sorted(m, Prios(s))
         /\ \A u : In(m, u) <=> (u = q \/ In(r, u))
         /\ \A u, w : u # q /\ w # q => (Ahead(m, u, w) <=> Ahead(r, u, w))
         /\ \A u \in Pids : In(r, u) => /\ Ahead(m, u, q) <=> Prios(s)[u] <= Prios(s)[q]
                                        /\ Ahead(m, q, u) <=> Prios(s)[u] > Prios(s)[q]
    <2> DEFINE f == Prios(s)
    <2>1. /\ f \in [Pids -> Int] /\ Sorted(r, f) /\ j \in 1 .. Len(r) + 1
          /\ \A i \in 1 .. j - 1 : f[r[i]] <= f[q]
          /\ \A i \in j .. Len(r) : f[r[i]] > f[q]
      BY <1>3, <1>8, <1>9, <1>10
    <2> HIDE DEF f
    <2>2. /\ m \in Seq(Pids) /\ Once(m) /\ Sorted(m, f)
          /\ \A u : In(m, u) <=> (u = q \/ In(r, u))
          /\ \A u, w : u # q /\ w # q => (Ahead(m, u, w) <=> Ahead(r, u, w))
          /\ \A u \in Pids : In(r, u) => /\ Ahead(m, u, q) <=> f[u] <= f[q]
                                         /\ Ahead(m, q, u) <=> f[u] > f[q]
      BY <2>1, <1>5, <1>11, PutInOrder
    <2> QED BY <2>2 DEF f
  <1> HIDE DEF m
  <1>13. /\ t \in Rec /\ t.queue = m /\ t.proc = s.proc /\ t.flow = a.flow
         /\ t.working = a.working /\ t.avail = a.avail
    <2>1. LET w == [s EXCEPT !.queue = r] IN
          /\ w \in Rec /\ w.proc = s.proc /\ w.flow = s.flow
          /\ w.working = s.working /\ w.avail = s.avail
      BY <1>2, <1>5, QueueEffect
    <2>2. LET w == [s EXCEPT !.queue = r] IN
          LET y == [w EXCEPT !.queue = m] IN
          /\ y \in Rec /\ y.queue = m /\ y.proc = w.proc /\ y.flow = w.flow
          /\ y.working = w.working /\ y.avail = w.avail
      BY <2>1, <1>12, QueueEffect
    <2> QED BY <1>2, <1>7, <2>1, <2>2
  <1>14. \A u \in Pids :
           /\ t.proc[u].state = a.proc[u].state /\ t.proc[u].cpu = a.proc[u].cpu
           /\ t.proc[u].pinned = a.proc[u].pinned /\ Akin(t.proc[u], a.proc[u])
    BY <1>2, <1>13 DEF Akin
  <1>15. /\ FlowsExact(t) /\ Offers(t)
         /\ \A c \in Cpus : availableFlows(t, c) = availableFlows(a, c)
    <2>1. \A u \in Pids, c \in Cpus : RunsOn(t, u, c) <=> RunsOn(a, u, c)
      BY <1>14 DEF RunsOn
    <2> QED BY <2>1, <1>13, SameFlows DEF Good
  <1>16. Placed(t)
    BY <1>14 DEF Good, Placed
  <1>17. Ordered(t)
    <2>1. \A u \in Pids : In(t.queue, u) <=> Runnable(t.proc[u])
      <3> SUFFICES ASSUME NEW u \in Pids
                   PROVE  In(t.queue, u) <=> Runnable(t.proc[u])
        OBVIOUS
      <3>1. In(a.queue, u) <=> Runnable(a.proc[u])
        BY DEF Good, Ordered
      <3>2. Runnable(t.proc[u]) <=> Runnable(a.proc[u])
        BY <1>14 DEF Runnable
      <3> QED BY <3>1, <3>2, <1>5, <1>12, <1>13
    <2>2. \A u \in Pids : Prios(s)[u] = prio(t, u)
      BY <1>8, <1>13 DEF prio
    <2>3. \A u, w \in Pids : Ahead(t.queue, u, w) => prio(t, u) <= prio(t, w)
      BY <2>2, <1>12, <1>13 DEF Sorted
    <2> QED BY <2>1, <2>3, <1>12, <1>13 DEF Ordered
  <1>18. \A u, w : u # q /\ w # q => (Ahead(t.queue, u, w) <=> Ahead(a.queue, u, w))
    BY <1>5, <1>12, <1>13
  <1>19. ASSUME NEW u \in Pids, Runnable(a.proc[u]), u # q
         PROVE  /\ Ahead(t.queue, u, q) <=> prio(a, u) <= x
                /\ Ahead(t.queue, q, u) <=> prio(a, u) > x
    <2>1. In(r, u)
      BY <1>19, <1>5 DEF Good, Ordered
    <2> QED BY <1>19, <2>1, <1>2, <1>8, <1>12, <1>13
  <1> QED BY <1>13, <1>14, <1>15, <1>16, <1>17, <1>18, <1>19 DEF Good, t

(* The process it takes the processor of, if it is promoted: a running one *)
(* it passes.                                                              *)
LEMMA PassedUp ==
  ASSUME NEW a \in Rec, NEW q \in Pids, NEW x \in Priorities, Good(a),
         Runnable(a.proc[q]), x < prio(a, q)
  PROVE  LET v == victimOf(Reprioritized(a, q, x), q, positionOf(a, q)) IN
         \/ /\ v = None
            /\ \A u \in Pids : Ahead(a.queue, u, q) /\ prio(a, u) > x => ~Replaces(a, q, u)
         \/ /\ v \in Pids /\ v # None /\ v # q /\ Replaces(a, q, v) /\ prio(a, v) > x
            /\ Ahead(a.queue, v, q)
  <1> DEFINE k == positionOf(a, q)
             s == Reprioritized(a, q, x)
             v == victimOf(s, q, k)
             j == promotedTo(s, q, k)
  <1>1. /\ a.queue \in Seq(Pids) /\ Len(a.queue) \in Nat /\ k \in 1 .. Len(a.queue)
        /\ \A i \in 1 .. Len(a.queue) :
             /\ a.queue[i] \in Pids /\ prio(a, a.queue[i]) \in Int
             /\ i # k => a.queue[i] # q
        /\ \A i, l \in 1 .. Len(a.queue) :
             i < l => prio(a, a.queue[i]) <= prio(a, a.queue[l])
        /\ \A u \in Pids : Ahead(a.queue, u, q) <=> \E i \in 1 .. k - 1 : a.queue[i] = u
    BY ByPosition
  <1>2. /\ s \in Rec /\ s.queue = a.queue /\ prio(s, q) = x
        /\ \A u \in Pids : u # q => prio(s, u) = prio(a, u)
        /\ \A u \in Pids : /\ s.proc[u].state = a.proc[u].state
                           /\ s.proc[u].cpu = a.proc[u].cpu
                           /\ s.proc[u].pinned = a.proc[u].pinned
    BY NewPriority
  <1> HIDE DEF k, s
  <1>3. k \in 1 .. Len(s.queue) + 1
    BY <1>1, <1>2
  <1>4. /\ j \in 1 .. k
        /\ \A i \in j .. k - 1 : prio(s, s.queue[i]) > prio(s, q)
    BY <1>2, <1>3, Promoted
  <1>5. \A i \in 1 .. k - 1 : i \in 1 .. Len(a.queue) /\ i # k
    BY <1>1
  <1>6. \A i \in 1 .. j - 1 : prio(s, s.queue[i]) <= prio(s, q)
    <2>1. \A i, l \in 1 .. k - 1 : i < l => prio(s, s.queue[i]) <= prio(s, s.queue[l])
      BY <1>1, <1>2, <1>5
    <2> QED BY <2>1, <1>2, <1>3, PromotedBehind
  <1>7. \/ v = None /\ \A i \in j .. k - 1 : ~Replaces(s, q, s.queue[i])
        \/ /\ v \in Pids /\ v # None
           /\ \E i \in j .. k - 1 : v = s.queue[i] /\ Replaces(s, q, v)
    BY <1>2, <1>3, VictimPassed
  <1>8. \A u \in Pids : Replaces(s, q, u) <=> Replaces(a, q, u)
    BY <1>2 DEF Replaces
  <1> HIDE DEF v, j
  <1>9. CASE v = None /\ \A i \in j .. k - 1 : ~Replaces(s, q, s.queue[i])
    <2> SUFFICES ASSUME NEW u \in Pids, Ahead(a.queue, u, q), prio(a, u) > x
                 PROVE  ~Replaces(a, q, u)
      BY <1>9 DEF v, s, k
    <2>1. PICK i \in 1 .. k - 1 : a.queue[i] = u
      BY <1>1
    <2>2. u # q /\ prio(s, u) = prio(a, u) /\ prio(a, u) \in Int
      BY <2>1, <1>1, <1>2, <1>5
    <2>3. x \in Int
      BY BoundAssumption
    <2>4. i \notin 1 .. j - 1
      BY <2>1, <2>2, <2>3, <1>2, <1>6
    <2>5. i \in j .. k - 1
      BY <2>1, <2>4, <1>1, <1>4
    <2> QED BY <2>1, <2>5, <1>2, <1>8, <1>9
  <1>10. CASE /\ v \in Pids /\ v # None
              /\ \E i \in j .. k - 1 : v = s.queue[i] /\ Replaces(s, q, v)
    <2>1. PICK i \in j .. k - 1 : v = s.queue[i] /\ Replaces(s, q, v)
      BY <1>10
    <2>2. i \in 1 .. k - 1
      BY <2>1, <1>1, <1>4
    <2>3. v # q /\ prio(s, v) = prio(a, v) /\ prio(s, v) > prio(s, q)
      BY <2>1, <2>2, <1>1, <1>2, <1>4, <1>5
    <2>4. Ahead(a.queue, v, q)
      BY <2>1, <2>2, <1>1, <1>2, <1>10
    <2> QED BY <2>1, <2>3, <2>4, <1>2, <1>8, <1>10 DEF v, s, k
  <1> QED BY <1>7, <1>9, <1>10

(* The process that takes its processor, if it is demoted: the first it    *)
(* passes that fits there.                                                 *)
LEMMA PassedDown ==
  ASSUME NEW a \in Rec, NEW q \in Pids, NEW x \in Priorities, Good(a),
         Runnable(a.proc[q]), x > prio(a, q)
  PROVE  LET v == successorOf(Reprioritized(a, q, x), q, positionOf(a, q))
             c == a.proc[q].cpu IN
         \/ /\ v = None
            /\ \A u \in Pids : Ahead(a.queue, q, u) /\ prio(a, u) <= x => ~fits(a, u, c)
         \/ /\ v \in Pids /\ v # None /\ v # q /\ fits(a, v, c) /\ prio(a, v) <= x
            /\ \A u \in Pids : Ahead(a.queue, q, u) /\ prio(a, u) <= x /\ fits(a, u, c)
                                 /\ u # v => Ahead(a.queue, v, u)
  <1> DEFINE k == positionOf(a, q)
             s == Reprioritized(a, q, x)
             v == successorOf(s, q, k)
             j == demotedTo(s, q, k)
             c == a.proc[q].cpu
             passed == {i \in k + 1 .. j : fits(s, s.queue[i], c)}
  <1>1. /\ a.queue \in Seq(Pids) /\ Len(a.queue) \in Nat /\ k \in 1 .. Len(a.queue)
        /\ DOMAIN a.queue = 1 .. Len(a.queue)
        /\ \A i \in 1 .. Len(a.queue) :
             /\ a.queue[i] \in Pids /\ prio(a, a.queue[i]) \in Int
             /\ i # k => a.queue[i] # q
        /\ \A i, l \in 1 .. Len(a.queue) :
             i < l => prio(a, a.queue[i]) <= prio(a, a.queue[l])
        /\ \A u \in Pids : Ahead(a.queue, q, u) <=>
             \E i \in k + 1 .. Len(a.queue) : a.queue[i] = u
    BY ByPosition
  <1>2. /\ s \in Rec /\ s.queue = a.queue /\ prio(s, q) = x
        /\ \A u \in Pids : u # q => prio(s, u) = prio(a, u)
        /\ \A u \in Pids : /\ s.proc[u].state = a.proc[u].state
                           /\ s.proc[u].cpu = a.proc[u].cpu
                           /\ s.proc[u].pinned = a.proc[u].pinned
    BY NewPriority
  <1>3. v = IF passed = {} THEN None ELSE s.queue[Min(passed)]
    BY <1>2 DEF successorOf
  <1> HIDE DEF k, s, c
  <1>4. k \in 1 .. Len(s.queue)
    BY <1>1, <1>2
  <1>5. /\ j \in k .. Len(a.queue)
        /\ \A i \in k + 1 .. j : prio(s, s.queue[i]) <= prio(s, q)
    BY <1>2, <1>4, Demoted
  <1>6. \A i \in k + 1 .. Len(a.queue) : i \in 1 .. Len(a.queue) /\ i # k
    BY <1>1
  <1>7. \A i \in j + 1 .. Len(a.queue) : prio(s, s.queue[i]) > prio(s, q)
    <2>1. \A i, l \in k + 1 .. Len(s.queue) :
            i < l => prio(s, s.queue[i]) <= prio(s, s.queue[l])
      BY <1>1, <1>2, <1>6
    <2>2. \A i \in demotedTo(s, q, k) + 1 .. Len(s.queue) : prio(s, s.queue[i]) > prio(s, q)
      BY <2>1, <1>2, <1>4, DemotedAhead
    <2> QED BY <2>2, <1>2
  <1>8. \A u \in Pids : fits(s, u, c) <=> fits(a, u, c)
    BY <1>2 DEF fits
  <1> HIDE DEF v, j
  <1>9. ASSUME NEW u \in Pids, Ahead(a.queue, q, u), prio(a, u) <= x, fits(a, u, c)
        PROVE  \E i \in passed : a.queue[i] = u
    <2>1. PICK i \in k + 1 .. Len(a.queue) : a.queue[i] = u
      BY <1>9, <1>1
    <2>2. u # q /\ prio(s, u) = prio(a, u) /\ prio(a, u) \in Int
      BY <2>1, <1>1, <1>2, <1>6
    <2>3. x \in Int
      BY BoundAssumption
    <2>4. i \notin j + 1 .. Len(a.queue)
      BY <2>1, <2>2, <2>3, <1>2, <1>7, <1>9
    <2>5. i \in k + 1 .. j
      BY <2>1, <2>4, <1>1, <1>5
    <2> QED BY <2>1, <2>5, <1>2, <1>8, <1>9
  <1>10. CASE passed = {}
    <2>1. v = None
      BY <1>3, <1>10
    <2> HIDE DEF passed
    <2> QED BY <2>1, <1>9, <1>10 DEF v, s, k, c
  <1>11. CASE passed # {}
    <2>1. Min(passed) \in passed /\ \A y \in passed : Min(passed) <= y
      <3>1. passed \in SUBSET Nat
        BY <1>1, <1>5
      <3> QED BY <1>11, <3>1, LeastNatural
    <2>2. PICK m \in passed : v = s.queue[m] /\ \A y \in passed : m <= y
      BY <2>1, <1>3, <1>11
    <2>3. m \in k + 1 .. j /\ m \in k + 1 .. Len(a.queue) /\ fits(s, s.queue[m], c)
      BY <2>2, <1>1, <1>5
    <2>4. v \in Pids /\ v # q /\ v = a.queue[m]
      BY <2>2, <2>3, <1>1, <1>2, <1>6
    <2>5. fits(a, v, c) /\ prio(a, v) <= x
      BY <2>2, <2>3, <2>4, <1>2, <1>5, <1>8
    <2>6. ASSUME NEW u \in Pids, Ahead(a.queue, q, u), prio(a, u) <= x, fits(a, u, c), u # v
          PROVE  Ahead(a.queue, v, u)
      <3>1. PICK i \in passed : a.queue[i] = u
        BY <2>6, <1>9
      <3>2. i \in 1 .. Len(a.queue) /\ m \in 1 .. Len(a.queue) /\ m <= i /\ m # i
        BY <2>2, <2>3, <2>4, <2>6, <3>1, <1>1, <1>5
      <3>3. m < i
        BY <3>2, <1>1
      <3> QED BY <2>4, <3>1, <3>2, <3>3, <1>1 DEF Ahead
    <2>7. v # None
      BY <2>4, PidAssumption
    <2> QED BY <2>4, <2>5, <2>6, <2>7 DEF v, s, k, c
  <1> QED BY <1>10, <1>11

(* Who waits and who runs, as the queue of a fair state orders them.       *)
LEMMA Waits ==
  ASSUME NEW a \in Rec, NEW D, NEW p \in Pids \ D, NEW c \in Cpus, NEW u \in Pids,
         Good(a), Fair(a, D), fits(a, p, c), u \in a.flow[c]
  PROVE  /\ Ahead(a.queue, u, p) /\ availableFlows(a, c) = 0 /\ u # p
         /\ RunsOn(a, u, c) /\ Runnable(a.proc[u]) /\ Runnable(a.proc[p])
         /\ prio(a, u) \in Int /\ prio(a, p) \in Int /\ prio(a, u) <= prio(a, p)
  <1>1. Ahead(a.queue, u, p) /\ availableFlows(a, c) = 0
    BY DEF Fair
  <1>2. RunsOn(a, u, c)
    BY DEF Good, FlowsExact
  <1>3. u # p /\ Runnable(a.proc[u]) /\ Runnable(a.proc[p])
    BY <1>2 DEF RunsOn, fits, Runnable
  <1>4. prio(a, u) \in Int /\ prio(a, p) \in Int
    BY PriosType
  <1>5. prio(a, u) <= prio(a, p)
    BY <1>1 DEF Good, Ordered
  <1> QED BY <1>1, <1>2, <1>3, <1>4, <1>5

(* No other process is exchanged for the one that moves.                   *)
LEMMA MovedFair ==
  ASSUME NEW a \in Rec, NEW q \in Pids, NEW x \in Priorities, NEW D, Good(a), Fair(a, D),
         Runnable(a.proc[q]), x # prio(a, q),
         x < prio(a, q) /\ a.proc[q].state = "Ready" =>
           victimOf(Reprioritized(a, q, x), q, positionOf(a, q)) = None,
         x > prio(a, q) /\ a.proc[q].state = "Running" =>
           successorOf(Reprioritized(a, q, x), q, positionOf(a, q)) = None
  PROVE  Fair(Moved(a, q, x), D)
  <1> DEFINE t == Moved(a, q, x)
  <1>1. /\ t.flow = a.flow
        /\ \A c \in Cpus : availableFlows(t, c) = availableFlows(a, c)
        /\ \A u \in Pids :
             /\ t.proc[u].state = a.proc[u].state /\ t.proc[u].cpu = a.proc[u].cpu
             /\ t.proc[u].pinned = a.proc[u].pinned
        /\ \A u, w : u # q /\ w # q => (Ahead(t.queue, u, w) <=> Ahead(a.queue, u, w))
        /\ \A u \in Pids : Runnable(a.proc[u]) /\ u # q =>
             /\ Ahead(t.queue, u, q) <=> prio(a, u) <= x
             /\ Ahead(t.queue, q, u) <=> prio(a, u) > x
    BY MovedGood
  <1> HIDE DEF t
  <1>2. x \in Int /\ prio(a, q) \in Int
    BY BoundAssumption, PriosType
  <1> SUFFICES ASSUME NEW p \in Pids \ D, NEW c \in Cpus, fits(t, p, c)
               PROVE  /\ availableFlows(t, c) = 0
                      /\ \A u \in Pids : u \in t.flow[c] => Ahead(t.queue, u, p)
    BY DEF Fair, t
  <1>3. fits(a, p, c)
    BY <1>1 DEF fits
  <1>4. availableFlows(t, c) = 0
    BY <1>1, <1>3 DEF Fair
  <1>5. ASSUME NEW u \in Pids, u \in t.flow[c]
        PROVE  Ahead(t.queue, u, p)
    <2>1. /\ Ahead(a.queue, u, p) /\ u # p /\ RunsOn(a, u, c)
          /\ Runnable(a.proc[u]) /\ Runnable(a.proc[p])
          /\ prio(a, u) \in Int /\ prio(a, p) \in Int /\ prio(a, u) <= prio(a, p)
      <3>1. u \in a.flow[c]
        BY <1>1, <1>5
      <3> QED BY <3>1, <1>3, Waits
    <2>2. CASE u # q /\ p # q
      BY <2>1, <2>2, <1>1
    <2>3. CASE p = q /\ x < prio(a, q)
      <3>1. victimOf(Reprioritized(a, q, x), q, positionOf(a, q)) = None
        BY <2>3, <1>3 DEF fits
      <3>2. \A w \in Pids : Ahead(a.queue, w, q) /\ prio(a, w) > x => ~Replaces(a, q, w)
        BY <2>3, <3>1, PassedUp
      <3>3. Replaces(a, q, u)
        BY <2>1, <2>3, <1>3 DEF Replaces, RunsOn, fits
      <3>4. ~(prio(a, u) > x)
        BY <2>1, <2>3, <3>2, <3>3
      <3>5. prio(a, u) <= x
        BY <2>1, <3>4, <1>2
      <3> QED BY <2>1, <2>3, <3>5, <1>1
    <2>4. CASE p = q /\ x > prio(a, q)
      <3>1. prio(a, u) <= x
        BY <2>1, <2>4, <1>2
      <3> QED BY <2>1, <2>4, <3>1, <1>1
    <2>5. CASE u = q /\ x < prio(a, q)
      <3>1. prio(a, p) > x
        BY <2>1, <2>5, <1>2
      <3> QED BY <2>1, <2>5, <3>1, <1>1
    <2>6. CASE u = q /\ x > prio(a, q)
      <3>1. successorOf(Reprioritized(a, q, x), q, positionOf(a, q)) = None
        BY <2>1, <2>6 DEF RunsOn
      <3>2. \A w \in Pids : Ahead(a.queue, q, w) /\ prio(a, w) <= x =>
              ~fits(a, w, a.proc[q].cpu)
        BY <2>6, <3>1, PassedDown
      <3>3. a.proc[q].cpu = c
        BY <2>1, <2>6 DEF RunsOn
      <3>4. ~(prio(a, p) <= x)
        BY <2>1, <2>6, <3>2, <3>3, <1>3
      <3>5. prio(a, p) > x
        BY <2>1, <3>4, <1>2
      <3> QED BY <2>1, <2>6, <3>5, <1>1
    <2>7. x < prio(a, q) \/ x > prio(a, q)
      BY <1>2
    <2> QED BY <2>2, <2>3, <2>4, <2>5, <2>6, <2>7
  <1> QED BY <1>4, <1>5

(* A ready process that is promoted takes the processor of another.        *)
LEMMA PromotedRuns ==
  ASSUME NEW a \in Rec, NEW q \in Pids, NEW x \in Priorities, NEW D, Good(a), Fair(a, D),
         a.proc[q].state = "Ready", x < prio(a, q), NEW v,
         v = victimOf(Reprioritized(a, q, x), q, positionOf(a, q)), v # None
  PROVE  LET t == swap(Moved(a, q, x), v, q) IN
         /\ t \in Rec /\ Good(t) /\ Fair(t, D \cup {v}) /\ v \in Pids
         /\ \A u \in Pids : Akin(t.proc[u], a.proc[u])
         /\ \A u \in Pids : t.proc[u].state = "Waiting" => a.proc[u].state = "Waiting"
  <1> DEFINE m == Moved(a, q, x)
             c == m.proc[v].cpu
             t == switchIn(switchOut(m, c, v), c, q)
  <1>0. Runnable(a.proc[q]) /\ x # prio(a, q) /\ x \in Int /\ prio(a, q) \in Int
    <2>1. x \in Int /\ prio(a, q) \in Int
      BY BoundAssumption, PriosType
    <2> QED BY <2>1 DEF Runnable
  <1>1. /\ v \in Pids /\ v # q /\ Replaces(a, q, v) /\ prio(a, v) > x
    BY <1>0, PassedUp
  <1>2. /\ m \in Rec /\ Good(m) /\ m.flow = a.flow
        /\ \A d \in Cpus : availableFlows(m, d) = availableFlows(a, d)
        /\ \A u \in Pids :
             /\ m.proc[u].state = a.proc[u].state /\ m.proc[u].cpu = a.proc[u].cpu
             /\ m.proc[u].pinned = a.proc[u].pinned /\ Akin(m.proc[u], a.proc[u])
        /\ \A u, w : u # q /\ w # q => (Ahead(m.queue, u, w) <=> Ahead(a.queue, u, w))
        /\ \A u \in Pids : Runnable(a.proc[u]) /\ u # q =>
             (Ahead(m.queue, q, u) <=> prio(a, u) > x)
    BY <1>0, MovedGood
  <1>3. swap(m, v, q) = t
    BY DEF swap
  <1> HIDE DEF m
  <1>4. c \in Cpus /\ RunsOn(m, v, c) /\ m.proc[q].state = "Ready"
    BY <1>1, <1>2 DEF Good, Placed, Replaces, RunsOn
  <1> HIDE DEF c
  <1>5. /\ t \in Rec /\ Good(t) /\ t.queue = m.queue
        /\ t.proc[v].state = "Ready" /\ t.proc[q].state = "Running"
        /\ \A u \in Pids : Akin(t.proc[u], m.proc[u])
        /\ \A u \in Pids : u # v /\ u # q => t.proc[u] = m.proc[u]
        /\ t.flow[c] = (m.flow[c] \ {v}) \cup {q} /\ v \in m.flow[c]
        /\ \A d \in Cpus : d # c => t.flow[d] = m.flow[d]
        /\ \A d \in Cpus : availableFlows(t, d) = availableFlows(m, d)
    BY <1>1, <1>2, <1>4, Swapped
  <1> HIDE DEF t
  <1>6. Fair(t, D \cup {v})
    <2> SUFFICES ASSUME NEW p \in Pids \ (D \cup {v}), NEW d \in Cpus, fits(t, p, d)
                 PROVE  /\ availableFlows(t, d) = 0
                        /\ \A u \in Pids : u \in t.flow[d] => Ahead(t.queue, u, p)
      BY DEF Fair
    <2>1. p # q /\ p # v
      BY <1>5 DEF fits
    <2>2. fits(a, p, d)
      BY <2>1, <1>2, <1>5 DEF fits
    <2>3. availableFlows(t, d) = 0
      BY <2>2, <1>2, <1>5 DEF Fair
    <2>4. ASSUME NEW u \in Pids, u \in t.flow[d]
          PROVE  Ahead(t.queue, u, p)
      <3>1. CASE u # q
        <4>1. u \in a.flow[d]
          BY <2>4, <3>1, <1>2, <1>5
        <4>2. Ahead(a.queue, u, p)
          BY <4>1, <2>2 DEF Fair
        <4> QED BY <4>2, <3>1, <2>1, <1>2, <1>5
      <3>2. CASE u = q
        <4>1. q \notin a.flow[d]
          BY DEF Good, FlowsExact, RunsOn
        <4>2. d = c
          BY <4>1, <2>4, <3>2, <1>2, <1>5
        <4>3. v \in a.flow[d]
          BY <4>2, <1>2, <1>5
        <4>4. /\ Runnable(a.proc[p]) /\ prio(a, v) \in Int /\ prio(a, p) \in Int
              /\ prio(a, v) <= prio(a, p)
          <5>1. p \in Pids \ D
            OBVIOUS
          <5> QED BY <5>1, <4>3, <2>2, <1>1, Waits
        <4>5. prio(a, p) > x
          BY <4>4, <1>0, <1>1
        <4> QED BY <4>4, <4>5, <3>2, <2>1, <1>2, <1>5
      <3> QED BY <3>1, <3>2
    <2> QED BY <2>3, <2>4
  <1>7. \A u \in Pids : Akin(t.proc[u], a.proc[u])
    BY <1>2, <1>5 DEF Akin
  <1>8. \A u \in Pids : t.proc[u].state = "Waiting" => a.proc[u].state = "Waiting"
    BY <1>2, <1>5
  <1> QED BY <1>1, <1>3, <1>5, <1>6, <1>7, <1>8 DEF m

(* A running process that is demoted leaves its processor to another.      *)
LEMMA DemotedStops ==
  ASSUME NEW a \in Rec, NEW q \in Pids, NEW x \in Priorities, NEW D, Good(a), Fair(a, D),
         a.proc[q].state = "Running", x > prio(a, q), NEW v,
         v = successorOf(Reprioritized(a, q, x), q, positionOf(a, q)), v # None
  PROVE  LET t == swap(Moved(a, q, x), q, v) IN
         /\ t \in Rec /\ Good(t) /\ Fair(t, D \cup {q})
         /\ \A u \in Pids : Akin(t.proc[u], a.proc[u])
         /\ \A u \in Pids : t.proc[u].state = "Waiting" => a.proc[u].state = "Waiting"
  <1> DEFINE m == Moved(a, q, x)
             c == m.proc[q].cpu
             t == switchIn(switchOut(m, c, q), c, v)
  <1>0. Runnable(a.proc[q]) /\ x # prio(a, q) /\ x \in Int /\ prio(a, q) \in Int
    <2>1. x \in Int /\ prio(a, q) \in Int
      BY BoundAssumption, PriosType
    <2> QED BY <2>1 DEF Runnable
  <1>1. /\ v \in Pids /\ v # q /\ fits(a, v, a.proc[q].cpu) /\ prio(a, v) <= x
        /\ \A u \in Pids : Ahead(a.queue, q, u) /\ prio(a, u) <= x
                             /\ fits(a, u, a.proc[q].cpu) /\ u # v => Ahead(a.queue, v, u)
    BY <1>0, PassedDown
  <1>2. /\ m \in Rec /\ Good(m) /\ m.flow = a.flow
        /\ \A d \in Cpus : availableFlows(m, d) = availableFlows(a, d)
        /\ \A u \in Pids :
             /\ m.proc[u].state = a.proc[u].state /\ m.proc[u].cpu = a.proc[u].cpu
             /\ m.proc[u].pinned = a.proc[u].pinned /\ Akin(m.proc[u], a.proc[u])
        /\ \A u, w : u # q /\ w # q => (Ahead(m.queue, u, w) <=> Ahead(a.queue, u, w))
    BY <1>0, MovedGood
  <1>3. swap(m, q, v) = t
    BY DEF swap
  <1> HIDE DEF m
  <1>4. /\ c \in Cpus /\ RunsOn(m, q, c) /\ m.proc[v].state = "Ready"
        /\ c = a.proc[q].cpu
    BY <1>1, <1>2 DEF Good, Placed, fits, RunsOn
  <1> HIDE DEF c
  <1>5. /\ t \in Rec /\ Good(t) /\ t.queue = m.queue
        /\ t.proc[q].state = "Ready" /\ t.proc[v].state = "Running"
        /\ \A u \in Pids : Akin(t.proc[u], m.proc[u])
        /\ \A u \in Pids : u # q /\ u # v => t.proc[u] = m.proc[u]
        /\ t.flow[c] = (m.flow[c] \ {q}) \cup {v} /\ q \in m.flow[c]
        /\ \A d \in Cpus : d # c => t.flow[d] = m.flow[d]
        /\ \A d \in Cpus : availableFlows(t, d) = availableFlows(m, d)
    BY <1>1, <1>2, <1>4, Swapped
  <1> HIDE DEF t
  <1>6. Fair(t, D \cup {q})
    <2> SUFFICES ASSUME NEW p \in Pids \ (D \cup {q}), NEW d \in Cpus, fits(t, p, d)
                 PROVE  /\ availableFlows(t, d) = 0
                        /\ \A u \in Pids : u \in t.flow[d] => Ahead(t.queue, u, p)
      BY DEF Fair
    <2>1. p # q /\ p # v
      BY <1>5 DEF fits
    <2>2. fits(a, p, d)
      BY <2>1, <1>2, <1>5 DEF fits
    <2>3. availableFlows(t, d) = 0
      BY <2>2, <1>2, <1>5 DEF Fair
    <2>4. ASSUME NEW u \in Pids, u \in t.flow[d]
          PROVE  Ahead(t.queue, u, p)
      <3>1. CASE u # v
        <4>1. u \in a.flow[d]
          BY <2>4, <3>1, <1>2, <1>5
        <4>2. u # q
          <5>1. d = c => u # q
            BY <2>4, <1>1, <1>5
          <5>2. RunsOn(a, u, d)
            BY <4>1 DEF Good, FlowsExact
          <5>3. d # c => u # q
            BY <5>2, <1>4 DEF RunsOn
          <5> QED BY <5>1, <5>3
        <4>3. Ahead(a.queue, u, p)
          BY <4>1, <2>2 DEF Fair
        <4> QED BY <4>2, <4>3, <2>1, <1>2, <1>5
      <3>2. CASE u = v
        <4>1. v \notin a.flow[d]
          BY <1>1 DEF Good, FlowsExact, RunsOn, fits
        <4>2. d = c
          BY <4>1, <2>4, <3>2, <1>2, <1>5
        <4>3. q \in a.flow[d]
          BY <4>2, <1>2, <1>5
        <4>4. Ahead(a.queue, q, p) /\ Runnable(a.proc[p]) /\ prio(a, p) \in Int
          <5>1. p \in Pids \ D
            OBVIOUS
          <5> QED BY <5>1, <4>3, <2>2, Waits
        <4>5. prio(a, v) \in Int /\ Runnable(a.proc[v])
          BY <1>1, PriosType DEF fits, Runnable
        <4>6. Ahead(a.queue, v, p)
          <5>1. CASE prio(a, p) <= x
            BY <5>1, <4>2, <4>4, <2>1, <2>2, <1>1, <1>4
          <5>2. CASE ~(prio(a, p) <= x)
            <6>1. ~(prio(a, p) <= prio(a, v))
              BY <5>2, <4>4, <4>5, <1>0, <1>1
            <6>2. ~Ahead(a.queue, p, v)
              BY <6>1, <1>1 DEF Good, Ordered
            <6>3. In(a.queue, p) /\ In(a.queue, v) /\ Once(a.queue) /\ a.queue \in Seq(Pids)
              BY <4>4, <4>5, <1>1, Fields DEF Good, Ordered
            <6>4. Ahead(a.queue, v, p) \/ Ahead(a.queue, p, v)
              BY <6>3, <2>1, StrictOrder
            <6> QED BY <6>2, <6>4
          <5> QED BY <5>1, <5>2
        <4> QED BY <4>6, <3>2, <2>1, <1>1, <1>2, <1>5
      <3> QED BY <3>1, <3>2
    <2> QED BY <2>3, <2>4
  <1>7. \A u \in Pids : Akin(t.proc[u], a.proc[u])
    BY <1>2, <1>5 DEF Akin
  <1>8. \A u \in Pids : t.proc[u].state = "Waiting" => a.proc[u].state = "Waiting"
    BY <1>2, <1>5
  <1> QED BY <1>3, <1>5, <1>6, <1>7, <1>8 DEF m

(* setPriority, with or without an exchange of processes.                  *)
LEMMA SetPriority ==
  ASSUME NEW q \in Pids, NEW x \in Priorities, IInv, setPriority(q, x)
  PROVE  IInv'
  <1> DEFINE a == Now
             k == positionOf(a, q)
             s == Reprioritized(a, q, x)
             m == Moved(a, q, x)
             up == victimOf(s, q, k)
             down == successorOf(s, q, k)
             other == IF x < prio(a, q) THEN up ELSE down
  <1>1. /\ pidTable[q] = a.proc[q] /\ pidTable[q].priority = prio(a, q)
        /\ a.queue = processQueue
    BY NowFields DEF prio
  <1>2. /\ pending = None /\ x # prio(a, q) /\ pending' = None /\ adopted' = adopted
        /\ IF ~Runnable(a.proc[q]) THEN Becomes(s, {})
           ELSE IF other # None /\ x > prio(a, q) /\ a.proc[q].state = "Running"
             THEN Becomes(swap(m, q, other), {q})
           ELSE IF other # None /\ x < prio(a, q) /\ a.proc[q].state = "Ready"
             THEN Becomes(swap(m, other, q), {other})
           ELSE Becomes(m, {})
    BY <1>1 DEF setPriority, st, Moved, movedTo, Reprioritized
  <1> HIDE DEF a
  <1>3. a \in Rec /\ Good(a) /\ Fair(a, displaced) /\ KinExact(a.proc, adopted)
    BY InvFacts DEF a
  <1>4. adopted' \in SUBSET Pids /\ displaced \cup {} = displaced
    BY <1>2 DEF IInv
  <1>5. x \in Int /\ prio(a, q) \in Int
    BY <1>3, BoundAssumption, PriosType
  <1> HIDE DEF s, m, k
  <1>6. ASSUME NEW t \in Rec, NEW D \in SUBSET Pids, Becomes(t, D), Good(t),
               Fair(t, displaced \cup D),
               \A u \in Pids : Akin(t.proc[u], a.proc[u]),
               \A u \in Pids : t.proc[u].state = "Waiting" => a.proc[u].state = "Waiting"
        PROVE  IInv'
    <2>1. KinExact(t.proc, adopted')
      BY <1>2, <1>3, <1>6, SameKin
    <2> QED BY <2>1, <1>2, <1>4, <1>6, Closing
  <1>7. CASE ~Runnable(a.proc[q])
    <2>1. /\ s \in Rec /\ s.queue = a.queue /\ s.flow = a.flow /\ s.avail = a.avail
          /\ s.working = a.working
          /\ \A u \in Pids : u # q => s.proc[u] = a.proc[u]
          /\ \A u \in Pids :
               /\ s.proc[u].state = a.proc[u].state /\ s.proc[u].cpu = a.proc[u].cpu
               /\ s.proc[u].pinned = a.proc[u].pinned /\ s.proc[u].ppid = a.proc[u].ppid
               /\ s.proc[u].nChilds = a.proc[u].nChilds
      BY <1>3, NewPriority DEF s
    <2>2. \A u \in Pids :
            /\ Runnable(s.proc[u]) <=> Runnable(a.proc[u])
            /\ Runnable(a.proc[u]) => s.proc[u].priority = a.proc[u].priority
            /\ s.proc[u].state = "Running" <=> a.proc[u].state = "Running"
            /\ a.proc[u].state = "Running" => s.proc[u].cpu = a.proc[u].cpu
            /\ s.proc[u].pinned => s.proc[u].cpu \in Cpus
            /\ u \notin {} /\ s.proc[u].state = "Ready" =>
                 s.proc[u].pinned = a.proc[u].pinned /\ s.proc[u].cpu = a.proc[u].cpu
      BY <2>1, <1>3, <1>7 DEF Runnable, Good, Placed
    <2>3. Good(s) /\ Fair(s, displaced \cup {})
      BY <2>1, <2>2, <1>3, Relabelled
    <2>4. \A u \in Pids : /\ Akin(s.proc[u], a.proc[u])
                          /\ s.proc[u].state = "Waiting" => a.proc[u].state = "Waiting"
      BY <2>1 DEF Akin
    <2> QED BY <2>1, <2>3, <2>4, <1>2, <1>6, <1>7
  <1>8. CASE Runnable(a.proc[q]) /\ down # None /\ x > prio(a, q) /\ a.proc[q].state = "Running"
    <2> DEFINE t == swap(m, q, down)
    <2>1. other = down
      BY <1>5, <1>8
    <2>2. Becomes(t, {q})
      BY <2>1, <1>2, <1>8
    <2>3. /\ t \in Rec /\ Good(t) /\ Fair(t, displaced \cup {q})
          /\ \A u \in Pids : Akin(t.proc[u], a.proc[u])
          /\ \A u \in Pids : t.proc[u].state = "Waiting" => a.proc[u].state = "Waiting"
      BY <1>3, <1>8, DemotedStops DEF m, s, k
    <2> HIDE DEF t
    <2> QED BY <2>2, <2>3, <1>6
  <1>9. CASE Runnable(a.proc[q]) /\ up # None /\ x < prio(a, q) /\ a.proc[q].state = "Ready"
    <2> DEFINE t == swap(m, up, q)
    <2>1. other = up /\ ~(x > prio(a, q))
      BY <1>5, <1>9
    <2>2. Becomes(t, {up})
      BY <2>1, <1>2, <1>9
    <2>3. /\ t \in Rec /\ Good(t) /\ Fair(t, displaced \cup {up}) /\ up \in Pids
          /\ \A u \in Pids : Akin(t.proc[u], a.proc[u])
          /\ \A u \in Pids : t.proc[u].state = "Waiting" => a.proc[u].state = "Waiting"
      BY <1>3, <1>9, PromotedRuns DEF m, s, k
    <2> HIDE DEF t, up
    <2> QED BY <2>2, <2>3, <1>6
  <1>10. CASE /\ Runnable(a.proc[q])
              /\ ~(down # None /\ x > prio(a, q) /\ a.proc[q].state = "Running")
              /\ ~(up # None /\ x < prio(a, q) /\ a.proc[q].state = "Ready")
    <2>1. x > prio(a, q) => other = down
      BY <1>5
    <2>2. Becomes(m, {})
      BY <2>1, <1>2, <1>10
    <2>3. Fair(m, displaced)
      BY <1>2, <1>3, <1>10, MovedFair DEF m, s, k
    <2>4. /\ m \in Rec /\ Good(m)
          /\ \A u \in Pids : m.proc[u].state = a.proc[u].state /\ Akin(m.proc[u], a.proc[u])
      BY <1>2, <1>3, <1>10, MovedGood DEF m
    <2>5. Fair(m, displaced \cup {})
      BY <2>3, <1>4
    <2> QED BY <2>2, <2>4, <2>5, <1>6
  <1> QED BY <1>7, <1>8, <1>9, <1>10
-----------------------------------------------------------------------------
(***************************************************************************)
(* The theorems                                                            *)
(***************************************************************************)
LEMMA Initially == Init => IInv
  <1> SUFFICES ASSUME Init
               PROVE  IInv
    OBVIOUS
  <1>1. PICK p \in Pids :
          /\ pidTable = [q \in Pids |->
                          IF q = p THEN [NoProcess EXCEPT !.state = "Invalid"] ELSE NoProcess]
          /\ pending = p
    BY DEF Init
  <1>2. /\ processQueue = <<>> /\ flow = [c \in Cpus |-> {}] /\ availableProcessors = maxFlows
        /\ workingList = {} /\ adopted = {} /\ displaced = {}
    BY DEF Init
  <1>3. \A q \in Pids :
          /\ pidTable[q] \in ProcessId /\ pidTable[q].state \in {"Free", "Invalid"}
          /\ pidTable[q].pinned = FALSE /\ pidTable[q].ppid = None /\ pidTable[q].nChilds = 0
    <2> DEFINE r == [NoProcess EXCEPT !.state = "Invalid"]
    <2>1. NoProcess \in ProcessId
      BY NoProcessType
    <2>2. /\ NoProcess.state = "Free" /\ NoProcess.pinned = FALSE
          /\ NoProcess.ppid = None /\ NoProcess.nChilds = 0
      BY DEF NoProcess
    <2>3. /\ r \in ProcessId /\ r.state = "Invalid" /\ r.pinned = FALSE
          /\ r.ppid = None /\ r.nChilds = 0
      BY <2>1, <2>2, StateType DEF ProcessState
    <2>4. \A q \in Pids : pidTable[q] = r \/ pidTable[q] = NoProcess
      BY <1>1
    <2> HIDE DEF r
    <2> QED BY <2>1, <2>2, <2>3, <2>4
  <1>4. pidTable[p].state = "Invalid"
    BY <1>1 DEF NoProcess
  <1>5. pidTable \in [Pids -> ProcessId]
    BY <1>1, <1>3
  <1>6. processQueue \in Seq(Pids) /\ DOMAIN processQueue = {}
    BY <1>2
  <1>7. flow \in [Cpus -> SUBSET Pids] /\ \A c \in Cpus : flow[c] = {}
    BY <1>2
  <1>8. availableProcessors \in [Cpus -> Nat]
    BY <1>2, CpuAssumption
  <1>9. Now \in Rec
    BY <1>2, <1>5, <1>6, <1>7, <1>8 DEF Now, Rec
  <1>10. \A c \in Cpus : /\ Now.flow[c] = {} /\ Cardinality(Now.flow[c]) = 0
                         /\ maxFlows[c] \in Nat /\ maxFlows[c] > 0
                         /\ Now.avail[c] = maxFlows[c]
    BY <1>2, <1>7, <1>9, NowFields, Flows
  <1>11. Placed(Now)
    BY <1>3, NowFields DEF Placed
  <1>12. FlowsExact(Now)
    BY <1>3, <1>10, NowFields DEF FlowsExact, RunsOn
  <1>13. Offers(Now)
    <2> SUFFICES ASSUME NEW c \in Cpus
                 PROVE  Now.avail[c] <= availableFlows(Now, c) /\ Now.avail[c] > 0
      BY DEF Offers
    <2>1. availableFlows(Now, c) = maxFlows[c]
      BY <1>10 DEF availableFlows
    <2> QED BY <2>1, <1>10
  <1>14. Ordered(Now)
    BY <1>3, <1>6, NowFields DEF Ordered, Once, In, Ahead, Runnable
  <1>15. Fair(Now, displaced)
    BY <1>3, NowFields DEF Fair, fits
  <1>16. KinExact(pidTable, adopted)
    <2>1. \A q \in Pids : Children(pidTable, q) = {}
      BY <1>3, PidAssumption DEF Children
    <2> QED BY <2>1, <1>3, FS_EmptySet, PidAssumption DEF KinExact
  <1>17. PendingInvalid
    BY <1>1, <1>4 DEF PendingInvalid
  <1> QED BY <1>2, <1>9, <1>11, <1>12, <1>13, <1>14, <1>15, <1>16, <1>17 DEF IInv, Good

(* Every step keeps the invariant.                                         *)
LEMMA Preserved == IInv /\ [Next]_vars => IInv'
  <1> SUFFICES ASSUME IInv, [Next]_vars
               PROVE  IInv'
    OBVIOUS
  <1>1. CASE UNCHANGED vars
    <2>1. /\ pidTable' = pidTable /\ pending' = pending /\ adopted' = adopted
          /\ displaced' = displaced
      BY <1>1 DEF vars
    <2>2. Now' = Now
      BY <1>1 DEF vars, Now
    <2>3. Good(Now') /\ Fair(Now', displaced') /\ KinExact(pidTable', adopted')
      BY <2>1, <2>2 DEF IInv
    <2>4. PendingInvalid'
      BY <2>1 DEF IInv, PendingInvalid
    <2> QED BY <2>1, <2>3, <2>4 DEF IInv
  <1>2. ASSUME NEW p \in Pids, makeRunnable(p)
        PROVE  IInv'
    BY <1>2, RunWhereWanted, RunElsewhere, Preempt, WaitItsTurn DEF makeRunnable
  <1>3. ASSUME NEW p \in Pids, Call(p)
        PROVE  IInv'
    <2>1. CASE eventExit(p) \/ eventWait(p)
      BY <2>1, EventExit, EventWait
    <2>2. ASSUME NEW q \in Pids, eventSuspend(p, q) \/ eventResume(p, q) \/ eventYield(p, q)
          PROVE  IInv'
      BY <2>2, EventSuspend, EventResume, EventYield
    <2>3. ASSUME NEW q \in Pids, NEW f \in Flags, eventSpawn(p, q, f) \/ eventSysconf(p, q, f)
          PROVE  IInv'
      BY <2>3, EventSpawn, EventSysconf
    <2> QED BY <1>3, <2>1, <2>2, <2>3 DEF Call
  <1>4. ASSUME NEW q \in Pids, NEW n \in Priorities, setPriority(q, n)
        PROVE  IInv'
    BY <1>4, SetPriority
  <1>5. ASSUME NEW c \in Cpus, idle(c)
        PROVE  IInv'
    BY <1>5, Idle
  <1> QED BY <1>1, <1>2, <1>3, <1>4, <1>5 DEF Next

(* The invariant of OSSim's calls: the processors, the queue and the       *)
(* process table agree, and whoever waits its turn waits for processes     *)
(* ahead of it in the queue.                                               *)
THEOREM InductiveInvariant == Spec => []IInv
  BY Initially, Preserved, PTL DEF Spec

(* The process table, the queue and RunningProcs' tables keep their types. *)
THEOREM TypeCorrect == Spec => []TypeOK
  <1>1. IInv => TypeOK
    <2> SUFFICES ASSUME IInv
                 PROVE  TypeOK
      OBVIOUS
    <2>1. Now \in Rec
      BY DEF IInv, Good
    <2>2. /\ pidTable \in [Pids -> ProcessId] /\ processQueue \in Seq(Pids)
          /\ flow \in [Cpus -> SUBSET Pids] /\ availableProcessors \in [Cpus -> Nat]
          /\ workingList \in SUBSET Cpus
      BY <2>1, Fields, NowFields
    <2> QED BY <2>2 DEF IInv, PendingInvalid, TypeOK
  <1> QED BY <1>1, InductiveInvariant, PTL

(* The record of a process and the fetch engine that holds it agree after  *)
(* every call, and no processor holds more processes than it has flows.    *)
THEOREM RecordsAgree == Spec => []RunningAgrees
  <1>1. IInv => RunningAgrees
    <2> SUFFICES ASSUME IInv, NEW c \in Cpus
                 PROVE  /\ flow[c] = {p \in Pids : st(p) = "Running" /\ pidTable[p].cpu = c}
                        /\ Cardinality(flow[c]) <= maxFlows[c]
                        /\ flow[c] # {} => c \in workingList
      BY DEF RunningAgrees
    <2>1. /\ \A p \in Pids : p \in flow[c] <=> st(p) = "Running" /\ pidTable[p].cpu = c
          /\ Cardinality(flow[c]) <= maxFlows[c]
          /\ flow[c] # {} => c \in workingList
      BY NowFields DEF IInv, Good, FlowsExact, RunsOn, st
    <2>2. flow[c] \in SUBSET Pids
      <3>1. Now \in Rec
        BY DEF IInv, Good
      <3> QED BY <3>1, Fields, NowFields
    <2> QED BY <2>1, <2>2
  <1> QED BY <1>1, InductiveInvariant, PTL

(* The multiset of available processors never promises a flow that is      *)
(* taken and lists every idle processor.                                   *)
THEOREM OffersHold == Spec => []AvailableSound
  <1>1. IInv => AvailableSound
    BY NowFields DEF IInv, Good, Offers, AvailableSound
  <1> QED BY <1>1, InductiveInvariant, PTL

(* A queue that holds each process once is as long as it holds processes.  *)
LEMMA OnceCounted ==
  ASSUME NEW q \in Seq(Pids), Once(q)
  PROVE  Cardinality(Range(q)) = Len(q)
  <1>1. Len(q) \in Nat /\ DOMAIN q = 1 .. Len(q) /\ q \in [1 .. Len(q) -> Pids]
    OBVIOUS
  <1>2. Range(q) = {q[i] : i \in 1 .. Len(q)}
    BY <1>1 DEF Range
  <1>3. q \in Bijection(1 .. Len(q), Range(q))
    <2>1. q \in Injection(1 .. Len(q), Range(q))
      <3>1. q \in [1 .. Len(q) -> Range(q)]
        BY <1>1, <1>2
      <3> QED BY <3>1, <1>1 DEF Injection, IsInjective, Once
    <2>2. q \in Surjection(1 .. Len(q), Range(q))
      BY <1>1, <1>2 DEF Surjection
    <2> QED BY <2>1, <2>2 DEF Bijection
  <1>4. IsFiniteSet(1 .. Len(q)) /\ Cardinality(1 .. Len(q)) = Len(q)
    BY <1>1, FS_Interval
  <1>5. ExistsBijection(1 .. Len(q), Range(q))
    BY <1>3 DEF ExistsBijection
  <1> QED BY <1>4, <1>5, FS_Bijection

(* The queue holds exactly the runnable processes, once each, the better   *)
(* priorities first, whatever promotions and demotions moved them.         *)
THEOREM QueueIsExact == Spec => []QueueExact
  <1>1. IInv => QueueExact
    <2> SUFFICES ASSUME IInv
                 PROVE  QueueExact
      OBVIOUS
    <2>1. Now \in Rec /\ Ordered(Now)
      BY DEF IInv, Good
    <2>2. processQueue \in Seq(Pids) /\ Once(processQueue)
      BY <2>1, Fields, NowFields DEF Ordered
    <2>3. Cardinality(Range(processQueue)) = Len(processQueue)
      BY <2>2, OnceCounted
    <2>4. \A p \in Pids : In(processQueue, p) <=> Runnable(pidTable[p])
      BY <2>1, NowFields DEF Ordered
    <2>5. Range(processQueue) = {p \in Pids : Runnable(pidTable[p])}
      BY <2>2, <2>4 DEF In, Range
    <2>6. ASSUME NEW i \in DOMAIN processQueue, NEW j \in DOMAIN processQueue, i < j
          PROVE  prio(Now, processQueue[i]) <= prio(Now, processQueue[j])
      <3>1. Ahead(processQueue, processQueue[i], processQueue[j])
        BY <2>6 DEF Ahead
      <3>2. processQueue[i] \in Pids /\ processQueue[j] \in Pids
        BY <2>2
      <3> QED BY <3>1, <3>2, <2>1, NowFields DEF Ordered
    <2> QED BY <2>3, <2>5, <2>6 DEF QueueExact
  <1> QED BY <1>1, InductiveInvariant, PTL

(* A process that makeRunnable left waiting its turn does not wait while a *)
(* processor that may run it has a free flow.                              *)
THEOREM NoIdleFlow == Spec => []WorkConserving
  <1>1. IInv => WorkConserving
    BY DEF IInv, Fair, WorkConserving
  <1> QED BY <1>1, InductiveInvariant, PTL

(* Nor while a process of worse priority runs where it may.                *)
THEOREM NoPriorityInversion == Spec => []NoInversion
  <1>1. IInv => NoInversion
    <2> SUFFICES ASSUME IInv, NEW p \in Pids \ displaced, NEW c \in Cpus, fits(Now, p, c),
                        NEW u \in flow[c]
                 PROVE  prio(Now, u) <= prio(Now, p)
      BY DEF NoInversion
    <2>1. Now \in Rec /\ Good(Now) /\ Fair(Now, displaced)
      BY InvFacts
    <2>2. u \in Pids /\ u \in Now.flow[c]
      BY <2>1, Fields, NowFields
    <2> QED BY <2>1, <2>2, Waits
  <1> QED BY <1>1, InductiveInvariant, PTL

(* The children a process counts are those alive, and a process waits only *)
(* while it has one.                                                       *)
THEOREM ChildrenCounted == Spec => []NChildsExact
  <1>1. IInv => NChildsExact
    <2> SUFFICES ASSUME IInv, NEW p \in Live \ adopted
                 PROVE  /\ pidTable[p].nChilds = Cardinality({q \in Live : pidTable[q].ppid = p})
                        /\ st(p) = "Waiting" => pidTable[p].nChilds > 0
      BY DEF NChildsExact
    <2>1. {q \in Live : pidTable[q].ppid = p} = Children(pidTable, p)
      BY DEF Live, st, Children
    <2>2. p \in Pids \ adopted /\ pidTable[p].state # "Free"
      BY DEF Live, st
    <2> QED BY <2>1, <2>2 DEF IInv, KinExact, st
  <1> QED BY <1>1, InductiveInvariant, PTL
=============================================================================
