---------------------------- MODULE CacheProofs ----------------------------
(***************************************************************************)
(* A cache of libmem over its request buffer, for any number of requests,  *)
(* lines, ways and caches above: callbacks and answers reach the owner of  *)
(* the line, replacements do not get into each other's lines, and the      *)
(* write buffer is exact.  First the request buffer itself, whatever its   *)
(* client does in the callbacks: no aliasing, exact counters, and the      *)
(* promise of canAcceptRequest is kept.                                    *)
(***************************************************************************)
EXTENDS MCCache, FiniteSetTheorems, SequenceTheorems, WellFoundedInduction, TLAPS
-----------------------------------------------------------------------------
(***************************************************************************)
(* SingleMSHR: the request buffer                                          *)
(***************************************************************************)
(* A request that is not idle has a line.                                  *)
HasLine == \A r \in Requests : pc[r] # "idle" => rline[r] \in Lines

(* The requests queued in an entry are there once, and only there.         *)
Queued(a) ==
  LET cc == entry[a].cc IN
  /\ \A i \in 1 .. Len(cc) : pc[cc[i]] = "queued" /\ rline[cc[i]] = a
  /\ \A i, j \in 1 .. Len(cc) : cc[i] = cc[j] => i = j
AllQueued == \A a \in Lines : Queued(a)

(* Subentries: split between reads and writes, or shared by them.          *)
SubEntries(e) ==
  IF rdWrSharing THEN e.nFreeReads >= e.nFreeSEntries /\ e.nFreeWrites >= e.nFreeSEntries
                 ELSE e.nFreeSEntries = e.nFreeReads + e.nFreeWrites
AllSubEntries == \A a \in ms : SubEntries(entry[a])

(* One checkOverflow at a time is in its loop, and it is known.            *)
looping(i) == stack[i].call \in {"loop", "pop"}
OneLoop ==
  /\ \A i, j \in 1 .. Len(stack) : looping(i) /\ looping(j) => i = j
  /\ checkingOverflow <=> \E i \in 1 .. Len(stack) : looping(i)

(* The requests in the overflow queue are there once, but for the front    *)
(* while it is called back: it may have been retired and come again.       *)
pops == \E i \in 1 .. Len(stack) : stack[i].call = "pop"
Overflowing(first) ==
  /\ \A i \in first .. Len(overflow) : pc[overflow[i]] = "overflow"
  /\ \A i, j \in first .. Len(overflow) : overflow[i] = overflow[j] => i = j
OverflowQueue ==
  /\ pops => overflow # <<>> /\ Overflowing(2)
  /\ ~pops => Overflowing(1)

IInv ==
  /\ TypeOK /\ HasLine /\ OneOwner /\ AllQueued /\ AllSubEntries
  /\ OneLoop /\ OverflowQueue /\ CountersExact
-----------------------------------------------------------------------------
(***************************************************************************)
(* The stack of active calls                                               *)
(***************************************************************************)
LEMMA PushOne ==
  ASSUME NEW S, NEW s \in Seq(S), NEW f \in S
  PROVE  /\ <<f>> \o s \in Seq(S) /\ Len(<<f>> \o s) = Len(s) + 1
         /\ (<<f>> \o s)[1] = f
         /\ \A i \in 1 .. Len(s) : (<<f>> \o s)[i + 1] = s[i]
  <1>1. <<f>> \in Seq(S) /\ Len(<<f>>) = 1 /\ <<f>>[1] = f
    OBVIOUS
  <1>2. /\ <<f>> \o s \in Seq(S)
        /\ Len(<<f>> \o s) = Len(<<f>>) + Len(s)
        /\ \A i \in 1 .. Len(<<f>>) + Len(s) : (<<f>> \o s)[i] =
                     IF i <= Len(<<f>>) THEN <<f>>[i] ELSE s[i - Len(<<f>>)]
    BY <1>1, ConcatProperties
  <1>3. Len(s) \in Nat
    BY LenProperties
  <1> QED BY <1>1, <1>2, <1>3

LEMMA PushTwo ==
  ASSUME NEW S, NEW s \in Seq(S), NEW f \in S, NEW g \in S
  PROVE  /\ <<f, g>> \o s \in Seq(S) /\ Len(<<f, g>> \o s) = Len(s) + 2
         /\ (<<f, g>> \o s)[1] = f /\ (<<f, g>> \o s)[2] = g
         /\ \A i \in 1 .. Len(s) : (<<f, g>> \o s)[i + 2] = s[i]
  <1>1. /\ <<f, g>> \in Seq(S) /\ Len(<<f, g>>) = 2
        /\ <<f, g>>[1] = f /\ <<f, g>>[2] = g
    OBVIOUS
  <1>2. /\ <<f, g>> \o s \in Seq(S)
        /\ Len(<<f, g>> \o s) = Len(<<f, g>>) + Len(s)
        /\ \A i \in 1 .. Len(<<f, g>>) + Len(s) : (<<f, g>> \o s)[i] =
                     IF i <= Len(<<f, g>>) THEN <<f, g>>[i] ELSE s[i - Len(<<f, g>>)]
    BY <1>1, ConcatProperties
  <1>3. Len(s) \in Nat
    BY LenProperties
  <1> QED BY <1>1, <1>2, <1>3

(* The rest of a stack that is not empty.                                  *)
LEMMA Popped ==
  ASSUME NEW S, NEW s \in Seq(S), s # <<>>
  PROVE  /\ Tail(s) \in Seq(S) /\ Len(s) \in Nat \ {0}
         /\ Len(Tail(s)) = Len(s) - 1
         /\ Head(s) = s[1] /\ s[1] \in S
         /\ \A i \in 1 .. Len(s) - 1 : Tail(s)[i] = s[i + 1]
  <1>1. /\ Head(s) \in S /\ Tail(s) \in Seq(S) /\ Len(Tail(s)) = Len(s) - 1
        /\ \A i \in 1 .. Len(Tail(s)) : Tail(s)[i] = s[i + 1]
    BY HeadTailProperties
  <1>2. Len(s) \in Nat /\ Len(s) # 0
    BY LenProperties, EmptySeq
  <1> QED BY <1>1, <1>2 DEF Head

LEMMA Frames ==
  /\ \A r \in Requests : callback(r) \in Frame /\ callback(r).call = "callback"
  /\ \A c \in {"check", "loop", "pop"} : frame(c) \in Frame /\ frame(c).call = c
  BY DEF callback, frame, Frame

(* The calls of the buffer that a step leaves active, given what it does   *)
(* to the stack: pushes calls that do not loop, ...                        *)
LEMMA StackGrows ==
  ASSUME TypeOK, OneLoop, NEW k \in Nat, stack' \in Seq(Frame),
         Len(stack') = Len(stack) + k,
         \A i \in 1 .. Len(stack) : stack'[i + k] = stack[i],
         \A i \in 1 .. k : stack'[i].call \in {"callback", "check"},
         checkingOverflow' = checkingOverflow
  PROVE  OneLoop' /\ (pops' <=> pops)
  <1>1. Len(stack) \in Nat
    BY LenProperties DEF TypeOK
  <1>2. \A i \in 1 .. Len(stack') : i > k => i - k \in 1 .. Len(stack) /\ stack'[i] = stack[i - k]
    BY <1>1
  <1>3. \A i \in 1 .. Len(stack') : i <= k => i \in 1 .. k
    BY <1>1
  <1>4. \A i \in 1 .. Len(stack) : i + k \in 1 .. Len(stack')
    BY <1>1
  <1>5. \A i \in 1 .. Len(stack') : looping(i)' => i > k /\ looping(i - k)
    BY <1>1, <1>2, <1>3 DEF looping
  <1>6. \A i \in 1 .. Len(stack) : looping(i) => looping(i + k)'
    BY DEF looping
  <1>7. \A i, j \in 1 .. Len(stack') : looping(i)' /\ looping(j)' => i = j
    BY <1>1, <1>2, <1>5 DEF OneLoop
  <1>8. (\E i \in 1 .. Len(stack') : looping(i)') <=> (\E i \in 1 .. Len(stack) : looping(i))
    BY <1>2, <1>4, <1>5, <1>6
  <1>9. pops' <=> pops
    <2>1. \A i \in 1 .. Len(stack') :
            stack'[i].call = "pop" => i - k \in 1 .. Len(stack) /\ stack[i - k].call = "pop"
      BY <1>1, <1>2, <1>3
    <2>2. \A i \in 1 .. Len(stack) : stack[i].call = "pop" => stack'[i + k].call = "pop"
      OBVIOUS
    <2> QED BY <1>4, <2>1, <2>2 DEF pops
  <1> QED BY <1>7, <1>8, <1>9 DEF OneLoop

(* ... or pops one that does not, ...                                      *)
LEMMA StackShrinks ==
  ASSUME TypeOK, OneLoop, stack # <<>>, Head(stack).call \in {"callback", "check"},
         stack' = Tail(stack), checkingOverflow' = checkingOverflow
  PROVE  OneLoop' /\ (pops' <=> pops) /\ stack' \in Seq(Frame)
  <1>1. /\ stack' \in Seq(Frame) /\ Len(stack) \in Nat \ {0}
        /\ Len(stack') = Len(stack) - 1 /\ Head(stack) = stack[1]
        /\ \A i \in 1 .. Len(stack) - 1 : stack'[i] = stack[i + 1]
    BY Popped DEF TypeOK
  <1>2. \A i \in 1 .. Len(stack) : i # 1 => i - 1 \in 1 .. Len(stack') /\ stack[i] = stack'[i - 1]
    BY <1>1
  <1>3. \A i \in 1 .. Len(stack') : i + 1 \in 1 .. Len(stack)
    BY <1>1
  <1>4. \A i \in 1 .. Len(stack) : looping(i) => i # 1 /\ looping(i - 1)'
    BY <1>1, <1>2 DEF looping
  <1>5. \A i \in 1 .. Len(stack') : looping(i)' => looping(i + 1)
    BY <1>1 DEF looping
  <1>6. \A i, j \in 1 .. Len(stack') : looping(i)' /\ looping(j)' => i = j
    BY <1>1, <1>3, <1>5 DEF OneLoop
  <1>7. (\E i \in 1 .. Len(stack') : looping(i)') <=> (\E i \in 1 .. Len(stack) : looping(i))
    BY <1>2, <1>3, <1>4, <1>5
  <1>8. pops' <=> pops
    BY <1>1, <1>2, <1>3 DEF pops
  <1> QED BY <1>1, <1>6, <1>7, <1>8 DEF OneLoop

(* The call on top of the stack.                                           *)
LEMMA TopIsFirst ==
  ASSUME TypeOK, NEW c, Top(c)
  PROVE  /\ Len(stack) \in Nat \ {0} /\ stack[1].call = c /\ stack # <<>>
         /\ Head(stack) = stack[1]
  BY Popped DEF TypeOK, Top

(* If it is the loop of checkOverflow, no front is being called back, if it*)
(* is the loop with one, none once it is popped.                           *)
LEMMA TopLoops ==
  ASSUME TypeOK, OneLoop, NEW c \in {"loop", "pop"}, Top(c)
  PROVE  /\ checkingOverflow /\ (pops <=> c = "pop")
         /\ \A i \in 1 .. Len(stack) : i # 1 => ~looping(i)
  <1>1. Len(stack) \in Nat \ {0} /\ stack[1].call = c
    BY TopIsFirst
  <1>2. looping(1) /\ 1 \in 1 .. Len(stack)
    BY <1>1 DEF looping
  <1>3. \A i \in 1 .. Len(stack) : i # 1 => ~looping(i)
    BY <1>2 DEF OneLoop
  <1>4. pops <=> c = "pop"
    BY <1>1, <1>2, <1>3 DEF pops, looping
  <1> QED BY <1>2, <1>3, <1>4 DEF OneLoop
-----------------------------------------------------------------------------
(***************************************************************************)
(* Counting entries                                                        *)
(***************************************************************************)
fullReads == {a \in ms : ~hasFreeReads(entry[a])}
fullWrites == {a \in ms : ~hasFreeWrites(entry[a])}
one(b) == IF b THEN 1 ELSE 0

LEMMA LineSets ==
  ASSUME NEW S \in SUBSET Lines
  PROVE  IsFiniteSet(S) /\ Cardinality(S) \in Nat
  <1>1. IsFiniteSet(S)
    BY FS_Subset, RequestAssumption
  <1> QED BY <1>1, FS_CardinalityType

(* Two sets of lines that differ at most by a.                             *)
LEMMA DifferByOne ==
  ASSUME NEW S \in SUBSET Lines, NEW T \in SUBSET Lines,
         NEW a \in Lines, \A x \in Lines : x # a => (x \in S <=> x \in T)
  PROVE  Cardinality(T) = Cardinality(S) + one(a \in T) - one(a \in S)
  <1>1. IsFiniteSet(S) /\ IsFiniteSet(T) /\ Cardinality(S) \in Nat
    BY LineSets
  <1>2. CASE a \in T /\ a \notin S
    <2>1. T = S \cup {a}
      BY <1>2
    <2> QED BY <1>1, <1>2, <2>1, FS_AddElement DEF one
  <1>3. CASE a \in S /\ a \notin T
    <2>1. T = S \ {a}
      BY <1>3
    <2> QED BY <1>1, <1>3, <2>1, FS_RemoveElement DEF one
  <1>4. CASE a \in S <=> a \in T
    <2>1. S = T
      BY <1>4
    <2> QED BY <1>1, <1>4, <2>1 DEF one
  <1> QED BY <1>2, <1>3, <1>4

(* A step that changes the entry of line a only keeps the counters exact   *)
(* if it changes them by what a contributes.                               *)
LEMMA CountersKept ==
  ASSUME TypeOK, CountersExact, NEW a \in Lines, ms' \in SUBSET Lines,
         \A b \in Lines : b # a => (b \in ms' <=> b \in ms) /\ entry'[b] = entry[b],
         nFreeEntries' = nFreeEntries - one(a \in ms') + one(a \in ms),
         nFreeEntries' >= 0,
         nFullReadEntries' = nFullReadEntries
            + one(a \in ms' /\ ~hasFreeReads(entry'[a]))
            - one(a \in ms /\ ~hasFreeReads(entry[a])),
         nFullWriteEntries' = nFullWriteEntries
            + one(a \in ms' /\ ~hasFreeWrites(entry'[a]))
            - one(a \in ms /\ ~hasFreeWrites(entry[a]))
  PROVE  CountersExact'
  <1>1. /\ ms \in SUBSET Lines
        /\ fullReads \in SUBSET Lines /\ fullReads' \in SUBSET Lines
        /\ fullWrites \in SUBSET Lines /\ fullWrites' \in SUBSET Lines
    BY DEF TypeOK, fullReads, fullWrites
  <1>2. \A b \in Lines : b # a => (b \in fullReads <=> b \in fullReads')
    BY DEF fullReads
  <1>3. \A b \in Lines : b # a => (b \in fullWrites <=> b \in fullWrites')
    BY DEF fullWrites
  <1>4. Cardinality(ms') = Cardinality(ms) + one(a \in ms') - one(a \in ms)
    BY <1>1, DifferByOne
  <1>5. Cardinality(fullReads') = Cardinality(fullReads)
                                    + one(a \in fullReads') - one(a \in fullReads)
    BY <1>1, <1>2, DifferByOne
  <1>6. Cardinality(fullWrites') = Cardinality(fullWrites)
                                    + one(a \in fullWrites') - one(a \in fullWrites)
    BY <1>1, <1>3, DifferByOne
  <1>7. /\ one(a \in fullReads') = one(a \in ms' /\ ~hasFreeReads(entry'[a]))
        /\ one(a \in fullReads) = one(a \in ms /\ ~hasFreeReads(entry[a]))
        /\ one(a \in fullWrites') = one(a \in ms' /\ ~hasFreeWrites(entry'[a]))
        /\ one(a \in fullWrites) = one(a \in ms /\ ~hasFreeWrites(entry[a]))
    BY DEF fullReads, fullWrites, one
  <1>8. /\ nFreeEntries = nEntries - Cardinality(ms)
        /\ nFullReadEntries = Cardinality(fullReads)
        /\ nFullWriteEntries = Cardinality(fullWrites)
    BY DEF CountersExact, fullReads, fullWrites
  <1>9. /\ Cardinality(ms) \in Nat /\ Cardinality(fullReads) \in Nat
        /\ Cardinality(fullWrites) \in Nat /\ nEntries \in Nat
    BY <1>1, LineSets, SizeAssumption
  <1>10. one(a \in ms') \in {0, 1} /\ one(a \in ms) \in {0, 1}
    BY DEF one
  <1>11. nFreeEntries' = nEntries - Cardinality(ms')
    BY <1>4, <1>8, <1>9, <1>10
  <1>12. nFullReadEntries' = Cardinality(fullReads') /\ nFullWriteEntries' = Cardinality(fullWrites')
    BY <1>5, <1>6, <1>7, <1>8
  <1> QED BY <1>11, <1>12 DEF CountersExact, fullReads, fullWrites
-----------------------------------------------------------------------------
(***************************************************************************)
(* Entries: checkSubEntries counts a request exactly if it takes the last  *)
(* subentry of its kind.                                                   *)
(***************************************************************************)
LEMMA FirstRequest ==
  ASSUME TypeOK, NEW op \in Op
  PROVE  LET e == firstRequest(op) IN
         /\ e \in Entry /\ e.cc = <<>> /\ SubEntries(e)
         /\ fillsReads(e, op) <=> ~hasFreeReads(e)
         /\ fillsWrites(e, op) <=> ~hasFreeWrites(e)
  <1> DEFINE e == firstRequest(op)
  <1>1. /\ nReads \in Nat \ {0} /\ nWrites \in Nat
        /\ op = "MemRead" \/ op = "MemWrite"
    BY SizeAssumption DEF TypeOK, Op
  <1>2. /\ e.nFreeReads = nReads - (IF op = "MemRead" THEN 1 ELSE 0)
        /\ e.nFreeWrites = (IF nWrites = 0 THEN nReads ELSE nWrites)
                             - (IF op = "MemWrite" THEN 1 ELSE 0)
        /\ e.nFreeSEntries = nReads + nWrites - 1
        /\ e.cc = <<>>
    BY DEF firstRequest, rdWrSharing
  <1>3. e \in Entry
    <2>1. <<>> \in Seq(Requests)
      OBVIOUS
    <2>2. /\ nReads - (IF op = "MemRead" THEN 1 ELSE 0) \in Nat
          /\ (IF nWrites = 0 THEN nReads ELSE nWrites)
               - (IF op = "MemWrite" THEN 1 ELSE 0) \in Nat
          /\ nReads + nWrites - 1 \in Nat
      BY <1>1
    <2> QED BY <2>1, <2>2 DEF firstRequest, rdWrSharing, Entry
  <1> HIDE DEF e
  <1>4. SubEntries(e)
    BY <1>1, <1>2 DEF SubEntries, rdWrSharing
  <1>5. /\ fillsReads(e, op) <=> ~hasFreeReads(e)
        /\ fillsWrites(e, op) <=> ~hasFreeWrites(e)
    BY <1>1, <1>2 DEF fillsReads, fillsWrites, hasFreeReads, hasFreeWrites, rdWrSharing
  <1> QED BY <1>2, <1>3, <1>4, <1>5 DEF e

LEMMA OneMore ==
  ASSUME TypeOK, NEW e \in Entry, SubEntries(e), NEW r \in Requests, NEW op \in Op,
         canAcceptRequest(e, op)
  PROVE  LET f == addRequest(e, r, op) IN
         /\ f \in Entry /\ f.cc = Append(e.cc, r) /\ SubEntries(f)
         /\ one(fillsReads(f, op)) = one(~hasFreeReads(f)) - one(~hasFreeReads(e))
         /\ one(fillsWrites(f, op)) = one(~hasFreeWrites(f)) - one(~hasFreeWrites(e))
  <1> DEFINE f == addRequest(e, r, op)
  <1>1. /\ nWrites \in Nat /\ op \in {"MemRead", "MemWrite"}
        /\ e.nFreeReads \in Nat /\ e.nFreeWrites \in Nat /\ e.nFreeSEntries \in Nat
        /\ e.cc \in Seq(Requests)
    BY SizeAssumption DEF TypeOK, Op, Entry
  <1>2. /\ f.nFreeReads = IF op = "MemRead" THEN e.nFreeReads - 1 ELSE e.nFreeReads
        /\ f.nFreeWrites = IF op = "MemWrite" THEN e.nFreeWrites - 1 ELSE e.nFreeWrites
        /\ f.nFreeSEntries = e.nFreeSEntries - 1
        /\ f.cc = Append(e.cc, r)
    BY DEF addRequest, Entry
  <1>3. /\ e.nFreeSEntries > 0
        /\ op = "MemRead" => e.nFreeReads > 0
        /\ op = "MemWrite" => e.nFreeWrites > 0
    BY DEF canAcceptRequest, hasFreeReads, hasFreeWrites
  <1>4. /\ f.nFreeReads \in Nat /\ f.nFreeWrites \in Nat /\ f.nFreeSEntries \in Nat
        /\ f.cc \in Seq(Requests)
    <2>1. f.cc \in Seq(Requests)
      BY <1>1, <1>2, AppendProperties
    <2> QED BY <1>1, <1>2, <1>3, <2>1
  <1>6. f \in Entry
    <2>1. /\ (IF op = "MemRead" THEN e.nFreeReads - 1 ELSE e.nFreeReads) \in Nat
          /\ (IF op = "MemWrite" THEN e.nFreeWrites - 1 ELSE e.nFreeWrites) \in Nat
          /\ e.nFreeSEntries - 1 \in Nat /\ Append(e.cc, r) \in Seq(Requests)
      BY <1>2, <1>4
    <2> QED BY <2>1 DEF addRequest, Entry
  <1> HIDE DEF f
  <1>7. SubEntries(f)
    BY <1>1, <1>2, <1>3 DEF SubEntries, rdWrSharing
  <1>8. one(fillsReads(f, op)) = one(~hasFreeReads(f)) - one(~hasFreeReads(e))
    BY <1>1, <1>2, <1>3 DEF SubEntries, fillsReads, hasFreeReads, hasFreeWrites, rdWrSharing, one
  <1>9. one(fillsWrites(f, op)) = one(~hasFreeWrites(f)) - one(~hasFreeWrites(e))
    BY <1>1, <1>2, <1>3 DEF SubEntries, fillsWrites, hasFreeReads, hasFreeWrites, rdWrSharing, one
  <1> QED BY <1>2, <1>6, <1>7, <1>8, <1>9 DEF f

(***************************************************************************)
(* The entries after a step                                                *)
(***************************************************************************)
Places == {"idle", "overflow", "queued", "owner"}

EntriesTyped ==
  /\ ms \in SUBSET Lines
  /\ entry \in [Lines -> Entry]
  /\ nFreeEntries \in Nat /\ nFullReadEntries \in Int /\ nFullWriteEntries \in Int
  /\ pc \in [Requests -> Places]
EntriesInv ==
  EntriesTyped /\ HasLine /\ OneOwner /\ AllQueued /\ AllSubEntries /\ CountersExact

LEMMA NewEntryStep ==
  ASSUME TypeOK, EntriesInv, NEW r \in Requests, NEW a \in Lines, NEW op \in Op,
         a \notin ms, nFreeEntries > 0, pc[r] \in {"idle", "overflow"},
         newEntry(r, a, op), rline'[r] = a,
         \A x \in Requests : x # r => rline'[x] = rline[x], nWrites' = nWrites
  PROVE  EntriesInv'
  <1> DEFINE e == firstRequest(op)
  <1>1. /\ e \in Entry /\ e.cc = <<>> /\ SubEntries(e)
        /\ fillsReads(e, op) <=> ~hasFreeReads(e)
        /\ fillsWrites(e, op) <=> ~hasFreeWrites(e)
    BY FirstRequest
  <1> HIDE DEF e
  <1>2. /\ ms' = ms \cup {a} /\ nFreeEntries' = nFreeEntries - 1
        /\ entry' = [entry EXCEPT ![a] = e]
        /\ nFullReadEntries' = nFullReadEntries + one(~hasFreeReads(e))
        /\ nFullWriteEntries' = nFullWriteEntries + one(~hasFreeWrites(e))
        /\ pc' = [pc EXCEPT ![r] = "owner"]
    BY <1>1 DEF newEntry, checkSubEntries, e, one
  <1>3. /\ entry'[a] = e /\ \A b \in Lines : b # a => entry'[b] = entry[b]
        /\ pc'[r] = "owner" /\ \A x \in Requests : x # r => pc'[x] = pc[x]
    BY <1>2 DEF EntriesInv, EntriesTyped
  <1>4. EntriesTyped'
    <2>1. nFullReadEntries' \in Int /\ nFullWriteEntries' \in Int /\ nFreeEntries' \in Nat
      BY <1>2 DEF EntriesInv, EntriesTyped, one
    <2>2. entry' \in [Lines -> Entry] /\ pc' \in [Requests -> Places]
      BY <1>1, <1>2 DEF EntriesInv, EntriesTyped, Places
    <2> QED BY <1>2, <2>1, <2>2 DEF EntriesInv, EntriesTyped
  <1>5. HasLine'
    BY <1>3 DEF EntriesInv, HasLine
  <1>6. OneOwner'
    <2>1. \A b \in Lines : \A x \in Requests :
            x \in owners(b)' <=> (x = r /\ b = a) \/ (x # r /\ x \in owners(b))
      BY <1>3 DEF owners
    <2>2. \A b \in Lines : r \notin owners(b)
      BY DEF owners
    <2>3. owners(a) = {}
      BY DEF EntriesInv, OneOwner
    <2>4. \A b \in Lines : owners(b) \subseteq Requests /\ owners(b)' \subseteq Requests
      BY DEF owners
    <2>5. \A b \in Lines : owners(b)' = IF b = a THEN {r} ELSE owners(b)
      BY <2>1, <2>2, <2>3, <2>4
    <2> QED BY <1>2, <2>3, <2>5 DEF EntriesInv, OneOwner
  <1>7. AllQueued'
    <2>1. Queued(a)'
      BY <1>1, <1>3 DEF Queued
    <2>2. ASSUME NEW b \in Lines, b # a PROVE Queued(b)'
      <3>1. entry[b].cc \in Seq(Requests) /\ entry'[b] = entry[b] /\ Queued(b)
        BY <1>3, <2>2 DEF EntriesInv, EntriesTyped, Entry, AllQueued
      <3>2. \A i \in 1 .. Len(entry[b].cc) : entry[b].cc[i] \in Requests /\ entry[b].cc[i] # r
        BY <3>1, ElementOfSeq DEF Queued
      <3> QED BY <1>3, <3>1, <3>2 DEF Queued
    <2> QED BY <2>1, <2>2 DEF AllQueued
  <1>8. AllSubEntries'
    BY <1>1, <1>2, <1>3 DEF EntriesInv, EntriesTyped, AllSubEntries, SubEntries, rdWrSharing
  <1>9. CountersExact'
    <2>1. nFreeEntries' = nFreeEntries - one(a \in ms') + one(a \in ms) /\ nFreeEntries' >= 0
      BY <1>2 DEF EntriesInv, EntriesTyped, one
    <2>2. /\ nFullReadEntries' = nFullReadEntries
                + one(a \in ms' /\ ~hasFreeReads(entry'[a]))
                - one(a \in ms /\ ~hasFreeReads(entry[a]))
          /\ nFullWriteEntries' = nFullWriteEntries
                + one(a \in ms' /\ ~hasFreeWrites(entry'[a]))
                - one(a \in ms /\ ~hasFreeWrites(entry[a]))
      BY <1>2, <1>3 DEF EntriesInv, EntriesTyped, one
    <2>3. \A b \in Lines : b # a => (b \in ms' <=> b \in ms) /\ entry'[b] = entry[b]
      BY <1>2, <1>3
    <2>4. ms' \in SUBSET Lines /\ CountersExact
      BY <1>2 DEF EntriesInv, EntriesTyped
    <2> QED BY <2>1, <2>2, <2>3, <2>4, CountersKept
  <1> QED BY <1>4, <1>5, <1>6, <1>7, <1>8, <1>9 DEF EntriesInv

LEMMA AddToEntryStep ==
  ASSUME TypeOK, EntriesInv, NEW r \in Requests, NEW a \in Lines, NEW op \in Op,
         a \in ms, canAcceptRequest(entry[a], op), pc[r] \in {"idle", "overflow"},
         addToEntry(r, a, op), rline'[r] = a,
         \A x \in Requests : x # r => rline'[x] = rline[x], nWrites' = nWrites
  PROVE  EntriesInv'
  <1> DEFINE e == addRequest(entry[a], r, op)
  <1>1. /\ e \in Entry /\ e.cc = Append(entry[a].cc, r) /\ SubEntries(e)
        /\ one(fillsReads(e, op)) = one(~hasFreeReads(e)) - one(~hasFreeReads(entry[a]))
        /\ one(fillsWrites(e, op)) = one(~hasFreeWrites(e)) - one(~hasFreeWrites(entry[a]))
    BY OneMore DEF EntriesInv, EntriesTyped, AllSubEntries
  <1> HIDE DEF e
  <1>2. /\ ms' = ms /\ nFreeEntries' = nFreeEntries
        /\ entry' = [entry EXCEPT ![a] = e]
        /\ nFullReadEntries' = nFullReadEntries + one(fillsReads(e, op))
        /\ nFullWriteEntries' = nFullWriteEntries + one(fillsWrites(e, op))
        /\ pc' = [pc EXCEPT ![r] = "queued"]
    BY DEF addToEntry, checkSubEntries, e, one
  <1>3. /\ entry'[a] = e /\ \A b \in Lines : b # a => entry'[b] = entry[b]
        /\ pc'[r] = "queued" /\ \A x \in Requests : x # r => pc'[x] = pc[x]
    BY <1>2 DEF EntriesInv, EntriesTyped
  <1>4. EntriesTyped'
    <2>1. nFullReadEntries' \in Int /\ nFullWriteEntries' \in Int /\ nFreeEntries' \in Nat
      BY <1>2 DEF EntriesInv, EntriesTyped, one
    <2>2. entry' \in [Lines -> Entry] /\ pc' \in [Requests -> Places]
      BY <1>1, <1>2 DEF EntriesInv, EntriesTyped, Places
    <2> QED BY <1>2, <2>1, <2>2 DEF EntriesInv, EntriesTyped
  <1>5. HasLine'
    BY <1>3 DEF EntriesInv, HasLine
  <1>6. OneOwner'
    <2>1. \A b \in Lines : owners(b)' = owners(b)
      BY <1>3 DEF owners
    <2> QED BY <1>2, <2>1 DEF EntriesInv, OneOwner
  <1>7. AllQueued'
    <2>1. ASSUME NEW b \in Lines
          PROVE  /\ entry[b].cc \in Seq(Requests) /\ Queued(b) /\ Len(entry[b].cc) \in Nat
                 /\ \A i \in 1 .. Len(entry[b].cc) :
                      entry[b].cc[i] \in Requests /\ entry[b].cc[i] # r
      <3>1. entry[b].cc \in Seq(Requests) /\ Queued(b)
        BY DEF EntriesInv, EntriesTyped, Entry, AllQueued
      <3> QED BY <3>1, ElementOfSeq, LenProperties DEF Queued
    <2>2. Queued(a)'
      <3> DEFINE cc == entry[a].cc
      <3>1. /\ Len(e.cc) = Len(cc) + 1 /\ e.cc[Len(cc) + 1] = r
            /\ \A i \in 1 .. Len(cc) : e.cc[i] = cc[i]
        BY <1>1, <2>1, AppendProperties
      <3>2. /\ Len(cc) \in Nat
            /\ \A i \in 1 .. Len(cc) : cc[i] \in Requests /\ cc[i] # r
                                        /\ pc[cc[i]] = "queued" /\ rline[cc[i]] = a
            /\ \A i, j \in 1 .. Len(cc) : cc[i] = cc[j] => i = j
        BY <2>1 DEF Queued
      <3> HIDE DEF cc
      <3>3. \A i \in 1 .. Len(e.cc) : i \in 1 .. Len(cc) \/ i = Len(cc) + 1
        BY <3>1, <3>2
      <3>4. \A i \in 1 .. Len(e.cc) : pc'[e.cc[i]] = "queued" /\ rline'[e.cc[i]] = a
        BY <1>3, <3>1, <3>2, <3>3
      <3>5. \A i, j \in 1 .. Len(e.cc) : e.cc[i] = e.cc[j] => i = j
        BY <3>1, <3>2, <3>3
      <3> QED BY <1>3, <3>4, <3>5 DEF Queued
    <2>3. ASSUME NEW b \in Lines, b # a PROVE Queued(b)'
      BY <1>3, <2>1, <2>3 DEF Queued
    <2> QED BY <2>2, <2>3 DEF AllQueued
  <1>8. AllSubEntries'
    BY <1>1, <1>2, <1>3 DEF EntriesInv, EntriesTyped, AllSubEntries, SubEntries, rdWrSharing
  <1>9. CountersExact'
    <2>1. nFreeEntries' = nFreeEntries - one(a \in ms') + one(a \in ms) /\ nFreeEntries' >= 0
      BY <1>2 DEF EntriesInv, EntriesTyped, one
    <2>2. /\ nFullReadEntries' = nFullReadEntries
                + one(a \in ms' /\ ~hasFreeReads(entry'[a]))
                - one(a \in ms /\ ~hasFreeReads(entry[a]))
          /\ nFullWriteEntries' = nFullWriteEntries
                + one(a \in ms' /\ ~hasFreeWrites(entry'[a]))
                - one(a \in ms /\ ~hasFreeWrites(entry[a]))
      BY <1>1, <1>2, <1>3 DEF EntriesInv, EntriesTyped, one
    <2>3. \A b \in Lines : b # a => (b \in ms' <=> b \in ms) /\ entry'[b] = entry[b]
      BY <1>2, <1>3
    <2>4. ms' \in SUBSET Lines /\ CountersExact
      BY <1>2 DEF EntriesInv, EntriesTyped
    <2> QED BY <2>1, <2>2, <2>3, <2>4, CountersKept
  <1> QED BY <1>4, <1>5, <1>6, <1>7, <1>8, <1>9 DEF EntriesInv

LEMMA RetireNextStep ==
  ASSUME TypeOK, EntriesInv, NEW r \in Requests, retireNext(r)
  PROVE  /\ EntriesInv'
         /\ LET next == Head(entry[rline[r]].cc) IN
            /\ next \in Requests /\ pc[next] = "queued" /\ pc'[next] = "owner"
            /\ pc'[r] = "idle"
            /\ \A x \in Requests : x # r /\ x # next => pc'[x] = pc[x]
  <1>0. PICK a \in Lines : a = rline[r]
    BY DEF retireNext, mayRetire, EntriesInv, HasLine
  <1> DEFINE cc == entry[a].cc
             next == Head(cc)
  <1>1. pc[r] = "owner" /\ cc # <<>> /\ a = rline[r]
    BY <1>0 DEF retireNext, mayRetire
  <1>2. /\ Tail(cc) \in Seq(Requests) /\ Len(cc) \in Nat \ {0}
        /\ Len(Tail(cc)) = Len(cc) - 1 /\ next = cc[1] /\ next \in Requests
        /\ \A i \in 1 .. Len(cc) - 1 : Tail(cc)[i] = cc[i + 1]
        /\ \A i \in 1 .. Len(cc) : cc[i] \in Requests
    <2>1. cc \in Seq(Requests)
      BY <1>1 DEF EntriesInv, EntriesTyped, Entry
    <2> QED BY <1>1, <2>1, Popped, ElementOfSeq
  <1>3. /\ \A i \in 1 .. Len(cc) : pc[cc[i]] = "queued" /\ rline[cc[i]] = a
        /\ \A i, j \in 1 .. Len(cc) : cc[i] = cc[j] => i = j
    BY <1>1 DEF EntriesInv, AllQueued, Queued
  <1>4. pc[next] = "queued" /\ rline[next] = a /\ next # r
    BY <1>1, <1>2, <1>3
  <1>5. /\ entry' = [entry EXCEPT ![a].cc = Tail(@)]
        /\ pc' = [pc EXCEPT ![r] = "idle", ![next] = "owner"]
        /\ rline' = [rline EXCEPT ![r] = None]
        /\ ms' = ms /\ nFreeEntries' = nFreeEntries /\ nWrites' = nWrites
        /\ nFullReadEntries' = nFullReadEntries /\ nFullWriteEntries' = nFullWriteEntries
    BY <1>0 DEF retireNext, destroy
  <1>6. /\ pc'[next] = "owner" /\ pc'[r] = "idle"
        /\ \A x \in Requests : x # r /\ x # next => pc'[x] = pc[x]
        /\ \A x \in Requests : x # r => rline'[x] = rline[x]
        /\ \A b \in Lines : b # a => entry'[b] = entry[b]
        /\ entry'[a].cc = Tail(cc) /\ entry'[a].nFreeReads = entry[a].nFreeReads
        /\ entry'[a].nFreeWrites = entry[a].nFreeWrites
        /\ entry'[a].nFreeSEntries = entry[a].nFreeSEntries
    BY <1>1, <1>2, <1>4, <1>5 DEF TypeOK, EntriesInv, EntriesTyped, Entry
  <1>7. EntriesTyped'
    <2>1. entry' \in [Lines -> Entry]
      BY <1>1, <1>2, <1>5 DEF EntriesInv, EntriesTyped, Entry
    <2>2. pc' \in [Requests -> Places]
      BY <1>5 DEF EntriesInv, EntriesTyped, Places
    <2> QED BY <1>5, <2>1, <2>2 DEF EntriesInv, EntriesTyped
  <1> HIDE DEF cc, next
  <1>8. HasLine'
    BY <1>1, <1>4, <1>6 DEF EntriesInv, HasLine
  <1>9. OneOwner'
    <2>1. owners(a) = {r}
      BY <1>1 DEF EntriesInv, OneOwner, owners
    <2>2. \A b \in Lines : b # a => r \notin owners(b) /\ next \notin owners(b)
      BY <1>1, <1>4 DEF owners
    <2>3. \A b \in Lines : b # a => owners(b)' = owners(b)
      BY <1>4, <1>6, <2>2 DEF owners
    <2>4. next \in owners(a)' /\ \A x \in owners(a)' : x = next
      BY <1>2, <1>4, <1>6, <2>1 DEF owners
    <2>5. a \in ms
      BY <1>1, <2>1 DEF EntriesInv, OneOwner
    <2> QED BY <1>5, <2>3, <2>4, <2>5 DEF EntriesInv, OneOwner
  <1>10. AllQueued'
    <2>1. Queued(a)'
      <3>1. \A i \in 1 .. Len(cc) - 1 : /\ Tail(cc)[i] = cc[i + 1] /\ cc[i + 1] # next
                                        /\ cc[i + 1] # r /\ i + 1 \in 1 .. Len(cc)
        BY <1>1, <1>2, <1>3
      <3>2. \A i \in 1 .. Len(Tail(cc)) : pc'[Tail(cc)[i]] = "queued" /\ rline'[Tail(cc)[i]] = a
        BY <1>2, <1>3, <1>6, <3>1
      <3>3. \A i, j \in 1 .. Len(Tail(cc)) : Tail(cc)[i] = Tail(cc)[j] => i = j
        BY <1>2, <1>3, <3>1
      <3>4. entry'[a].cc = Tail(cc)
        BY <1>6
      <3> HIDE DEF cc
      <3> QED BY <3>2, <3>3, <3>4 DEF Queued
    <2>2. ASSUME NEW b \in Lines, b # a PROVE Queued(b)'
      <3>1. entry[b].cc \in Seq(Requests) /\ entry'[b] = entry[b] /\ Queued(b)
        BY <1>6, <2>2 DEF EntriesInv, EntriesTyped, Entry, AllQueued
      <3>2. \A i \in 1 .. Len(entry[b].cc) : /\ entry[b].cc[i] \in Requests
                                             /\ entry[b].cc[i] # r /\ entry[b].cc[i] # next
        BY <1>1, <1>4, <2>2, <3>1, ElementOfSeq DEF Queued
      <3> QED BY <1>6, <3>1, <3>2 DEF Queued
    <2> QED BY <2>1, <2>2 DEF AllQueued
  <1>11. AllSubEntries'
    BY <1>5, <1>6 DEF EntriesInv, EntriesTyped, AllSubEntries, SubEntries, rdWrSharing
  <1>12. CountersExact'
    <2>1. nFreeEntries' = nFreeEntries - one(a \in ms') + one(a \in ms) /\ nFreeEntries' >= 0
      BY <1>5 DEF EntriesInv, EntriesTyped, one
    <2>2. /\ hasFreeReads(entry'[a]) <=> hasFreeReads(entry[a])
          /\ hasFreeWrites(entry'[a]) <=> hasFreeWrites(entry[a])
      BY <1>6 DEF hasFreeReads, hasFreeWrites
    <2>3. /\ nFullReadEntries' = nFullReadEntries
                + one(a \in ms' /\ ~hasFreeReads(entry'[a]))
                - one(a \in ms /\ ~hasFreeReads(entry[a]))
          /\ nFullWriteEntries' = nFullWriteEntries
                + one(a \in ms' /\ ~hasFreeWrites(entry'[a]))
                - one(a \in ms /\ ~hasFreeWrites(entry[a]))
      BY <1>5, <2>2 DEF EntriesInv, EntriesTyped, one
    <2>4. \A b \in Lines : b # a => (b \in ms' <=> b \in ms) /\ entry'[b] = entry[b]
      BY <1>5, <1>6
    <2>5. ms' \in SUBSET Lines /\ CountersExact
      BY <1>5 DEF EntriesInv, EntriesTyped
    <2> QED BY <1>1, <2>1, <2>3, <2>4, <2>5, CountersKept
  <1> QED BY <1>0, <1>2, <1>4, <1>6, <1>7, <1>8, <1>9, <1>10, <1>11, <1>12 DEF EntriesInv, cc, next

LEMMA RetireLastStep ==
  ASSUME TypeOK, EntriesInv, NEW r \in Requests, retireLast(r)
  PROVE  EntriesInv' /\ pc'[r] = "idle" /\ \A x \in Requests : x # r => pc'[x] = pc[x]
  <1>0. PICK a \in Lines : a = rline[r]
    BY DEF retireLast, mayRetire, EntriesInv, HasLine
  <1>1. pc[r] = "owner" /\ a = rline[r]
    BY <1>0 DEF retireLast, mayRetire
  <1>2. /\ ms' = ms \ {a} /\ entry' = [entry EXCEPT ![a] = NoEntry]
        /\ nFreeEntries' = nFreeEntries + 1 /\ nWrites' = nWrites
        /\ nFullReadEntries' = nFullReadEntries - one(~hasFreeReads(entry[a]))
        /\ nFullWriteEntries' = nFullWriteEntries - one(~hasFreeWrites(entry[a]))
        /\ pc' = [pc EXCEPT ![r] = "idle"] /\ rline' = [rline EXCEPT ![r] = None]
    BY <1>0 DEF retireLast, destroy, one
  <1>3. /\ pc'[r] = "idle" /\ \A x \in Requests : x # r => pc'[x] = pc[x]
        /\ \A x \in Requests : x # r => rline'[x] = rline[x]
        /\ entry'[a] = NoEntry /\ \A b \in Lines : b # a => entry'[b] = entry[b]
    BY <1>1, <1>2 DEF TypeOK, EntriesInv, EntriesTyped
  <1>4. owners(a) = {r}
    BY <1>1 DEF EntriesInv, OneOwner, owners
  <1>5. a \in ms
    BY <1>1, <1>4 DEF EntriesInv, OneOwner
  <1>6. EntriesTyped'
    <2>1. NoEntry \in Entry /\ NoEntry.cc = <<>>
      BY DEF NoEntry, Entry
    <2>2. entry' \in [Lines -> Entry] /\ pc' \in [Requests -> Places]
      BY <1>2, <2>1 DEF EntriesInv, EntriesTyped, Places
    <2>3. nFullReadEntries' \in Int /\ nFullWriteEntries' \in Int /\ nFreeEntries' \in Nat
      BY <1>2 DEF EntriesInv, EntriesTyped, one
    <2> QED BY <1>2, <2>2, <2>3 DEF EntriesInv, EntriesTyped
  <1>7. HasLine'
    BY <1>3 DEF EntriesInv, HasLine
  <1>8. OneOwner'
    <2>1. \A b \in Lines : owners(b)' = owners(b) \ {r}
      BY <1>3 DEF owners
    <2>2. \A b \in Lines : b # a => r \notin owners(b)
      BY <1>1 DEF owners
    <2> QED BY <1>2, <1>4, <2>1, <2>2 DEF EntriesInv, OneOwner
  <1>9. AllQueued'
    <2>1. Queued(a)'
      BY <1>3 DEF Queued, NoEntry
    <2>2. ASSUME NEW b \in Lines, b # a PROVE Queued(b)'
      <3>1. entry[b].cc \in Seq(Requests) /\ entry'[b] = entry[b] /\ Queued(b)
        BY <1>3, <2>2 DEF EntriesInv, EntriesTyped, Entry, AllQueued
      <3>2. \A i \in 1 .. Len(entry[b].cc) : entry[b].cc[i] \in Requests /\ entry[b].cc[i] # r
        BY <1>1, <3>1, ElementOfSeq DEF Queued
      <3> QED BY <1>3, <3>1, <3>2 DEF Queued
    <2> QED BY <2>1, <2>2 DEF AllQueued
  <1>10. AllSubEntries'
    BY <1>2, <1>3 DEF EntriesInv, EntriesTyped, AllSubEntries, SubEntries, rdWrSharing
  <1>11. CountersExact'
    <2>1. nFreeEntries' = nFreeEntries - one(a \in ms') + one(a \in ms) /\ nFreeEntries' >= 0
      BY <1>2, <1>5 DEF EntriesInv, EntriesTyped, one
    <2>2. /\ nFullReadEntries' = nFullReadEntries
                + one(a \in ms' /\ ~hasFreeReads(entry'[a]))
                - one(a \in ms /\ ~hasFreeReads(entry[a]))
          /\ nFullWriteEntries' = nFullWriteEntries
                + one(a \in ms' /\ ~hasFreeWrites(entry'[a]))
                - one(a \in ms /\ ~hasFreeWrites(entry[a]))
      BY <1>2, <1>5 DEF EntriesInv, EntriesTyped, one
    <2>3. \A b \in Lines : b # a => (b \in ms' <=> b \in ms) /\ entry'[b] = entry[b]
      BY <1>2, <1>3
    <2>4. ms' \in SUBSET Lines /\ CountersExact
      BY <1>2 DEF EntriesInv, EntriesTyped
    <2> QED BY <1>1, <2>1, <2>2, <2>3, <2>4, CountersKept
  <1> QED BY <1>3, <1>6, <1>7, <1>8, <1>9, <1>10, <1>11 DEF EntriesInv
-----------------------------------------------------------------------------
(***************************************************************************)
(* The overflow queue and the stack after a step                           *)
(***************************************************************************)
QueueTyped ==
  /\ overflow \in Seq(Requests)
  /\ checkingOverflow \in BOOLEAN
  /\ rline \in [Requests -> Lines \cup {None}]
  /\ rop \in [Requests -> Op]
  /\ stack \in Seq(Frame)
  /\ nWrites \in WriteSizes

LEMMA Parts == IInv <=> EntriesInv /\ QueueTyped /\ OneLoop /\ OverflowQueue
  BY DEF IInv, TypeOK, EntriesInv, EntriesTyped, QueueTyped, Places

LEMMA PartsNext ==
  ASSUME EntriesInv', QueueTyped', OneLoop', OverflowQueue' PROVE IInv'
  BY DEF IInv, TypeOK, EntriesInv, EntriesTyped, QueueTyped, Places

LEMMA OverflowKept ==
  ASSUME TypeOK, OverflowQueue, overflow' = overflow, pops' <=> pops,
         \A x \in Requests : pc[x] = "overflow" => pc'[x] = "overflow"
  PROVE  OverflowQueue'
  <1>1. \A i \in 1 .. Len(overflow) : overflow[i] \in Requests
    BY ElementOfSeq DEF TypeOK
  <1>2. Len(overflow) \in Nat
    BY LenProperties DEF TypeOK
  <1>3. Overflowing(1) => Overflowing(1)'
    BY <1>1, <1>2 DEF Overflowing
  <1>4. Overflowing(2) => Overflowing(2)'
    BY <1>1, <1>2 DEF Overflowing
  <1> QED BY <1>3, <1>4 DEF OverflowQueue

LEMMA StackSame ==
  ASSUME OneLoop, stack' = stack, checkingOverflow' = checkingOverflow
  PROVE  OneLoop' /\ (pops' <=> pops)
  BY DEF OneLoop, looping, pops

(* A request arrives.                                                      *)
LEMMA ArrivesTyped ==
  ASSUME TypeOK, NEW r \in Requests, NEW a \in Lines, NEW op \in Op, arrives(r, a, op)
  PROVE  /\ rline' \in [Requests -> Lines \cup {None}] /\ rop' \in [Requests -> Op]
         /\ rline'[r] = a /\ \A x \in Requests : x # r => rline'[x] = rline[x]
         /\ rop'[r] = op /\ pc[r] = "idle" /\ nWrites' = nWrites
         /\ checkingOverflow' = checkingOverflow /\ stack' = stack
  BY DEF arrives, TypeOK

LEMMA IssueStep ==
  ASSUME IInv, NEW r \in Requests, NEW a \in Lines, NEW op \in Op, issue(r, a, op)
  PROVE  IInv'
  <1>1. TypeOK /\ EntriesInv /\ OneLoop /\ OverflowQueue
    BY Parts DEF IInv
  <1>2. arrives(r, a, op) /\ newEntry(r, a, op) /\ a \notin ms /\ nFreeEntries > 0
        /\ overflow' = overflow
    BY DEF issue
  <1>3. EntriesInv'
    BY <1>1, <1>2, ArrivesTyped, NewEntryStep
  <1>4. QueueTyped'
    BY <1>1, <1>2, ArrivesTyped DEF QueueTyped, TypeOK
  <1>5. OneLoop' /\ (pops' <=> pops)
    BY <1>1, <1>2, ArrivesTyped, StackSame
  <1>6. \A x \in Requests : pc[x] = "overflow" => pc'[x] = "overflow"
    BY <1>1, <1>2, ArrivesTyped DEF newEntry, TypeOK
  <1>7. OverflowQueue'
    BY <1>1, <1>2, <1>5, <1>6, OverflowKept
  <1> QED BY <1>3, <1>4, <1>5, <1>7, PartsNext

LEMMA AddEntryStep ==
  ASSUME IInv, NEW r \in Requests, NEW a \in Lines, NEW op \in Op, addEntry(r, a, op)
  PROVE  IInv'
  <1>1. TypeOK /\ EntriesInv /\ OneLoop /\ OverflowQueue
    BY Parts DEF IInv
  <1>2. arrives(r, a, op) /\ addToEntry(r, a, op) /\ a \in ms
        /\ canAcceptRequest(entry[a], op) /\ overflow' = overflow
    BY DEF addEntry
  <1>3. EntriesInv'
    BY <1>1, <1>2, ArrivesTyped, AddToEntryStep
  <1>4. QueueTyped'
    BY <1>1, <1>2, ArrivesTyped DEF QueueTyped, TypeOK
  <1>5. OneLoop' /\ (pops' <=> pops)
    BY <1>1, <1>2, ArrivesTyped, StackSame
  <1>6. \A x \in Requests : pc[x] = "overflow" => pc'[x] = "overflow"
    BY <1>1, <1>2, ArrivesTyped DEF addToEntry, TypeOK
  <1>7. OverflowQueue'
    BY <1>1, <1>2, <1>5, <1>6, OverflowKept
  <1> QED BY <1>3, <1>4, <1>5, <1>7, PartsNext

(* A step that leaves the entries alone and takes no request out of them.  *)
LEMMA EntriesSame ==
  ASSUME TypeOK, EntriesInv, UNCHANGED <<ms, entry, nFreeEntries, nFullReadEntries,
                                         nFullWriteEntries, nWrites>>,
         pc' \in [Requests -> Places],
         \A x \in Requests :
            \/ pc'[x] = pc[x] /\ rline'[x] = rline[x]
            \/ pc[x] \in {"idle", "overflow"} /\ pc'[x] = "overflow" /\ rline'[x] \in Lines
  PROVE  EntriesInv'
  <1>1. EntriesTyped'
    BY DEF EntriesInv, EntriesTyped
  <1>2. HasLine'
    BY DEF EntriesInv, HasLine
  <1>3. \A a \in Lines : owners(a)' = owners(a)
    BY DEF owners
  <1>4. OneOwner'
    BY <1>3 DEF EntriesInv, OneOwner
  <1>5. AllQueued'
    <2>1. ASSUME NEW b \in Lines PROVE Queued(b)'
      <3>1. entry[b].cc \in Seq(Requests) /\ entry'[b] = entry[b] /\ Queued(b)
        BY DEF EntriesInv, EntriesTyped, Entry, AllQueued
      <3>2. \A i \in 1 .. Len(entry[b].cc) : entry[b].cc[i] \in Requests
        BY <3>1, ElementOfSeq
      <3> QED BY <3>1, <3>2 DEF Queued
    <2> QED BY <2>1 DEF AllQueued
  <1>6. AllSubEntries'
    BY DEF EntriesInv, AllSubEntries, SubEntries, rdWrSharing
  <1>7. CountersExact'
    BY DEF EntriesInv, CountersExact
  <1> QED BY <1>1, <1>2, <1>4, <1>5, <1>6, <1>7 DEF EntriesInv

LEMMA ToOverflowStep ==
  ASSUME IInv, NEW r \in Requests, NEW a \in Lines, NEW op \in Op, toOverflow(r, a, op)
  PROVE  IInv'
  <1>1. TypeOK /\ EntriesInv /\ OneLoop /\ OverflowQueue
    BY Parts DEF IInv
  <1>2. arrives(r, a, op) /\ overflow' = Append(overflow, r)
        /\ pc' = [pc EXCEPT ![r] = "overflow"]
        /\ UNCHANGED <<ms, entry, nFreeEntries, nFullReadEntries, nFullWriteEntries>>
    BY DEF toOverflow
  <1>3. /\ rline' \in [Requests -> Lines \cup {None}] /\ rop' \in [Requests -> Op]
        /\ rline'[r] = a /\ \A x \in Requests : x # r => rline'[x] = rline[x]
        /\ pc[r] = "idle" /\ nWrites' = nWrites
        /\ checkingOverflow' = checkingOverflow /\ stack' = stack
    BY <1>1, <1>2, ArrivesTyped
  <1>4. pc'[r] = "overflow" /\ \A x \in Requests : x # r => pc'[x] = pc[x]
    BY <1>1, <1>2 DEF TypeOK
  <1>5. pc' \in [Requests -> Places]
    BY <1>1, <1>2 DEF TypeOK, Places
  <1>6. EntriesInv'
    BY <1>1, <1>2, <1>3, <1>4, <1>5, EntriesSame
  <1>7. /\ overflow' \in Seq(Requests) /\ overflow' # <<>> /\ Len(overflow) \in Nat
        /\ Len(overflow') = Len(overflow) + 1 /\ overflow'[Len(overflow) + 1] = r
        /\ \A i \in 1 .. Len(overflow) : overflow'[i] = overflow[i] /\ overflow[i] \in Requests
    <2>1. overflow \in Seq(Requests)
      BY <1>1 DEF TypeOK
    <2> QED BY <1>2, <2>1, AppendProperties, LenProperties, ElementOfSeq
  <1>8. QueueTyped'
    BY <1>1, <1>3, <1>7 DEF QueueTyped, TypeOK
  <1>9. OneLoop' /\ (pops' <=> pops)
    BY <1>1, <1>3, StackSame
  <1>10. ASSUME NEW n \in {1, 2}, Overflowing(n) PROVE Overflowing(n)'
    <2>1. \A i \in n .. Len(overflow) : i \in 1 .. Len(overflow) /\ overflow[i] # r
      BY <1>3, <1>7, <1>10 DEF Overflowing
    <2>2. \A i \in n .. Len(overflow') : i \in n .. Len(overflow) \/ i = Len(overflow) + 1
      BY <1>7
    <2>3. \A i \in n .. Len(overflow') : pc'[overflow'[i]] = "overflow"
      BY <1>4, <1>7, <1>10, <2>1, <2>2 DEF Overflowing
    <2>4. \A i, j \in n .. Len(overflow') : overflow'[i] = overflow'[j] => i = j
      BY <1>7, <1>10, <2>1, <2>2 DEF Overflowing
    <2> QED BY <2>3, <2>4 DEF Overflowing
  <1>11. OverflowQueue'
    BY <1>1, <1>7, <1>9, <1>10 DEF OverflowQueue
  <1> QED BY <1>6, <1>8, <1>9, <1>11, PartsNext

(* A request is retired.                                                   *)
LEMMA RetireNextKeeps ==
  ASSUME IInv, NEW r \in Requests, retireNext(r)
  PROVE  IInv'
  <1>1. TypeOK /\ EntriesInv /\ OneLoop /\ OverflowQueue
    BY Parts DEF IInv
  <1> DEFINE next == Head(entry[rline[r]].cc)
  <1>2. /\ EntriesInv' /\ next \in Requests /\ pc[next] = "queued"
        /\ \A x \in Requests : x # r /\ x # next => pc'[x] = pc[x]
    BY <1>1, RetireNextStep
  <1>3. /\ stack' = <<callback(next), frame("check")>> \o stack
        /\ overflow' = overflow /\ checkingOverflow' = checkingOverflow /\ nWrites' = nWrites
        /\ pc[r] = "owner" /\ rline' = [rline EXCEPT ![r] = None]
        /\ rop' = [rop EXCEPT ![r] = "MemRead"]
    BY DEF retireNext, destroy, mayRetire
  <1> HIDE DEF next
  <1>4. /\ stack' \in Seq(Frame) /\ Len(stack') = Len(stack) + 2
        /\ stack'[1] = callback(next) /\ stack'[2] = frame("check")
        /\ \A i \in 1 .. Len(stack) : stack'[i + 2] = stack[i]
    BY <1>1, <1>2, <1>3, Frames, PushTwo DEF TypeOK
  <1>5. OneLoop' /\ (pops' <=> pops)
    <2>1. \A i \in 1 .. 2 : stack'[i].call \in {"callback", "check"}
      BY <1>2, <1>4, Frames
    <2> QED BY <1>1, <1>3, <1>4, <2>1, StackGrows
  <1>6. QueueTyped'
    BY <1>1, <1>3, <1>4 DEF QueueTyped, TypeOK, Op
  <1>7. OverflowQueue'
    BY <1>1, <1>2, <1>3, <1>5, OverflowKept
  <1> QED BY <1>2, <1>5, <1>6, <1>7, PartsNext

LEMMA RetireLastKeeps ==
  ASSUME IInv, NEW r \in Requests, retireLast(r)
  PROVE  IInv'
  <1>1. TypeOK /\ EntriesInv /\ OneLoop /\ OverflowQueue
    BY Parts DEF IInv
  <1>2. EntriesInv' /\ \A x \in Requests : x # r => pc'[x] = pc[x]
    BY <1>1, RetireLastStep
  <1>3. /\ stack' = <<frame("check")>> \o stack
        /\ overflow' = overflow /\ checkingOverflow' = checkingOverflow /\ nWrites' = nWrites
        /\ pc[r] = "owner" /\ rline' = [rline EXCEPT ![r] = None]
        /\ rop' = [rop EXCEPT ![r] = "MemRead"]
    BY DEF retireLast, destroy, mayRetire
  <1>4. /\ stack' \in Seq(Frame) /\ Len(stack') = Len(stack) + 1
        /\ stack'[1] = frame("check")
        /\ \A i \in 1 .. Len(stack) : stack'[i + 1] = stack[i]
    BY <1>1, <1>3, Frames, PushOne DEF TypeOK
  <1>5. OneLoop' /\ (pops' <=> pops)
    <2>1. \A i \in 1 .. 1 : stack'[i].call \in {"callback", "check"}
      BY <1>4, Frames
    <2> QED BY <1>1, <1>3, <1>4, <2>1, StackGrows
  <1>6. QueueTyped'
    BY <1>1, <1>3, <1>4 DEF QueueTyped, TypeOK, Op
  <1>7. OverflowQueue'
    BY <1>1, <1>2, <1>3, <1>5, OverflowKept
  <1> QED BY <1>2, <1>5, <1>6, <1>7, PartsNext

(* The entries stay as they are when calls return or start to loop.        *)
LEMMA NothingMoves ==
  ASSUME IInv, UNCHANGED <<ms, entry, nFreeEntries, nFullReadEntries, nFullWriteEntries,
                           pc, rline, rop, nWrites>>,
         overflow' \in Seq(Requests), checkingOverflow' \in BOOLEAN,
         stack' \in Seq(Frame), OneLoop', OverflowQueue'
  PROVE  IInv'
  <1>1. TypeOK /\ EntriesInv /\ QueueTyped
    BY Parts DEF IInv
  <1>2. EntriesInv'
    <2>1. pc' \in [Requests -> Places]
      BY <1>1 DEF TypeOK, Places
    <2> QED BY <1>1, <2>1, EntriesSame
  <1>3. QueueTyped'
    BY <1>1 DEF QueueTyped
  <1> QED BY <1>2, <1>3, PartsNext

LEMMA CallReturns ==
  ASSUME IInv, callbackReturns \/ checkSkips
  PROVE  IInv'
  <1>1. TypeOK /\ OneLoop /\ OverflowQueue
    BY Parts DEF IInv
  <1>2. /\ stack # <<>> /\ Head(stack).call \in {"callback", "check"}
        /\ stack' = Tail(stack) /\ checkingOverflow' = checkingOverflow /\ overflow' = overflow
        /\ UNCHANGED <<ms, entry, nFreeEntries, nFullReadEntries, nFullWriteEntries,
                       pc, rline, rop, nWrites>>
    BY DEF callbackReturns, checkSkips, Top
  <1>3. OneLoop' /\ (pops' <=> pops) /\ stack' \in Seq(Frame)
    BY <1>1, <1>2, StackShrinks
  <1>4. OverflowQueue'
    BY <1>1, <1>2, <1>3, OverflowKept
  <1> QED BY <1>1, <1>2, <1>3, <1>4, NothingMoves DEF TypeOK

(* The call on top is replaced by f.                                       *)
LEMMA Replaced ==
  ASSUME TypeOK, stack # <<>>, NEW f \in Frame, stack' = <<f>> \o Tail(stack)
  PROVE  /\ stack' \in Seq(Frame) /\ Len(stack') = Len(stack) /\ stack'[1] = f
         /\ Len(stack) \in Nat \ {0}
         /\ \A i \in 1 .. Len(stack) : i # 1 => stack'[i] = stack[i]
  <1>1. /\ Tail(stack) \in Seq(Frame) /\ Len(stack) \in Nat \ {0}
        /\ Len(Tail(stack)) = Len(stack) - 1
        /\ \A i \in 1 .. Len(stack) - 1 : Tail(stack)[i] = stack[i + 1]
    BY Popped DEF TypeOK
  <1>2. /\ stack' \in Seq(Frame) /\ Len(stack') = Len(Tail(stack)) + 1 /\ stack'[1] = f
        /\ \A i \in 1 .. Len(Tail(stack)) : stack'[i + 1] = Tail(stack)[i]
    BY <1>1, PushOne
  <1>3. ASSUME NEW i \in 1 .. Len(stack), i # 1 PROVE stack'[i] = stack[i]
    <2>1. i - 1 \in 1 .. Len(stack) - 1 /\ (i - 1) + 1 = i
      BY <1>1, <1>3
    <2> QED BY <1>1, <1>2, <2>1
  <1> QED BY <1>1, <1>2, <1>3

LEMMA CheckStartsStep ==
  ASSUME IInv, checkStarts
  PROVE  IInv'
  <1>1. TypeOK /\ OneLoop /\ OverflowQueue
    BY Parts DEF IInv
  <1>2. /\ stack # <<>> /\ Head(stack).call = "check" /\ ~checkingOverflow
        /\ stack' = <<frame("loop")>> \o Tail(stack) /\ checkingOverflow' = TRUE
        /\ overflow' = overflow
        /\ UNCHANGED <<ms, entry, nFreeEntries, nFullReadEntries, nFullWriteEntries,
                       pc, rline, rop, nWrites>>
    BY DEF checkStarts, Top
  <1>3. /\ stack' \in Seq(Frame) /\ Len(stack') = Len(stack) /\ stack'[1].call = "loop"
        /\ Len(stack) \in Nat \ {0}
        /\ \A i \in 1 .. Len(stack) : i # 1 => stack'[i] = stack[i]
    BY <1>1, <1>2, Frames, Replaced
  <1>4. \A i \in 1 .. Len(stack) : ~looping(i)
    BY <1>1, <1>2 DEF OneLoop
  <1>5. \A i \in 1 .. Len(stack') : looping(i)' <=> i = 1
    BY <1>3, <1>4 DEF looping
  <1>6. 1 \in 1 .. Len(stack')
    BY <1>3
  <1>7. OneLoop'
    BY <1>2, <1>5, <1>6 DEF OneLoop
  <1>8. pops' <=> pops
    BY <1>3, <1>4 DEF pops, looping
  <1>9. OverflowQueue'
    BY <1>1, <1>2, <1>8, OverflowKept
  <1> QED BY <1>1, <1>2, <1>3, <1>7, <1>9, NothingMoves DEF TypeOK

LEMMA CheckEndsStep ==
  ASSUME IInv, checkEnds
  PROVE  IInv'
  <1>1. TypeOK /\ OneLoop /\ OverflowQueue
    BY Parts DEF IInv
  <1>2. /\ Top("loop") /\ stack' = Tail(stack) /\ checkingOverflow' = FALSE
        /\ overflow' = overflow
        /\ UNCHANGED <<ms, entry, nFreeEntries, nFullReadEntries, nFullWriteEntries,
                       pc, rline, rop, nWrites>>
    BY DEF checkEnds
  <1>3. ~pops /\ stack # <<>> /\ \A i \in 1 .. Len(stack) : i # 1 => ~looping(i)
    BY <1>1, <1>2, TopLoops DEF Top
  <1>4. /\ stack' \in Seq(Frame) /\ Len(stack) \in Nat \ {0} /\ Len(stack') = Len(stack) - 1
        /\ \A i \in 1 .. Len(stack) - 1 : stack'[i] = stack[i + 1]
    BY <1>1, <1>2, <1>3, Popped DEF TypeOK
  <1>5. \A i \in 1 .. Len(stack') : i + 1 \in 1 .. Len(stack) /\ i + 1 # 1
    BY <1>4
  <1>6. \A i \in 1 .. Len(stack') : ~looping(i)'
    BY <1>3, <1>4, <1>5 DEF looping
  <1>7. OneLoop' /\ ~pops'
    BY <1>2, <1>6 DEF OneLoop, pops, looping
  <1>8. OverflowQueue'
    BY <1>1, <1>2, <1>3, <1>7, OverflowKept
  <1> QED BY <1>1, <1>2, <1>4, <1>7, <1>8, NothingMoves DEF TypeOK

(* The overflow queue loses its front.                                     *)
LEMMA FrontLeaves ==
  ASSUME TypeOK, overflow # <<>>, overflow' = Tail(overflow), Overflowing(2),
         \A i \in 2 .. Len(overflow) : pc'[overflow[i]] = pc[overflow[i]], ~pops'
  PROVE  overflow' \in Seq(Requests) /\ OverflowQueue'
  <1>1. /\ overflow' \in Seq(Requests) /\ Len(overflow) \in Nat \ {0}
        /\ Len(overflow') = Len(overflow) - 1
        /\ \A i \in 1 .. Len(overflow) - 1 : overflow'[i] = overflow[i + 1]
    BY Popped DEF TypeOK
  <1>2. \A i \in 1 .. Len(overflow') : i + 1 \in 2 .. Len(overflow) /\ overflow'[i] = overflow[i + 1]
    BY <1>1
  <1>3. \A i \in 1 .. Len(overflow') : pc'[overflow'[i]] = "overflow"
    BY <1>2 DEF Overflowing
  <1>4. \A i, j \in 1 .. Len(overflow') : overflow'[i] = overflow'[j] => i = j
    <2> SUFFICES ASSUME NEW i \in 1 .. Len(overflow'), NEW j \in 1 .. Len(overflow'),
                        overflow'[i] = overflow'[j]
                 PROVE  i = j
      OBVIOUS
    <2>1. i + 1 = j + 1
      BY <1>2 DEF Overflowing
    <2> QED BY <1>1, <2>1
  <1> QED BY <1>1, <1>3, <1>4 DEF OverflowQueue, Overflowing

LEMMA OverflowPopStep ==
  ASSUME IInv, overflowPop
  PROVE  IInv'
  <1>1. TypeOK /\ OneLoop /\ OverflowQueue
    BY Parts DEF IInv
  <1>2. /\ Top("pop") /\ stack' = <<frame("loop")>> \o Tail(stack)
        /\ overflow' = Tail(overflow) /\ checkingOverflow' = checkingOverflow
        /\ UNCHANGED <<ms, entry, nFreeEntries, nFullReadEntries, nFullWriteEntries,
                       pc, rline, rop, nWrites>>
    BY DEF overflowPop
  <1>3. /\ pops /\ stack # <<>> /\ checkingOverflow
        /\ \A i \in 1 .. Len(stack) : i # 1 => ~looping(i)
    BY <1>1, <1>2, TopLoops DEF Top
  <1>4. /\ stack' \in Seq(Frame) /\ Len(stack') = Len(stack) /\ stack'[1].call = "loop"
        /\ Len(stack) \in Nat \ {0}
        /\ \A i \in 1 .. Len(stack) : i # 1 => stack'[i] = stack[i]
    BY <1>1, <1>2, <1>3, Frames, Replaced
  <1>5. \A i \in 1 .. Len(stack') : (looping(i)' <=> i = 1) /\ stack'[i].call # "pop"
    BY <1>3, <1>4 DEF looping
  <1>6. 1 \in 1 .. Len(stack')
    BY <1>4
  <1>7. OneLoop' /\ ~pops'
    BY <1>2, <1>3, <1>5, <1>6 DEF OneLoop, pops
  <1>8. overflow' \in Seq(Requests) /\ OverflowQueue'
    BY <1>1, <1>2, <1>3, <1>7, FrontLeaves DEF OverflowQueue
  <1> QED BY <1>1, <1>2, <1>4, <1>7, <1>8, NothingMoves DEF TypeOK

(* The front of the queue, met by the loop of checkOverflow.               *)
LEMMA Front ==
  ASSUME TypeOK, OneLoop, OverflowQueue, HasLine, Top("loop"), overflow # <<>>
  PROVE  LET f == Head(overflow) IN
         /\ f \in Requests /\ pc[f] = "overflow" /\ rline[f] \in Lines /\ rop[f] \in Op
         /\ ~pops /\ Overflowing(2)
         /\ \A i \in 2 .. Len(overflow) : overflow[i] \in Requests /\ overflow[i] # f
  <1>1. ~pops
    BY TopLoops
  <1>2. /\ Head(overflow) = overflow[1] /\ overflow[1] \in Requests
        /\ Len(overflow) \in Nat \ {0}
        /\ \A i \in 1 .. Len(overflow) : overflow[i] \in Requests
    BY Popped, ElementOfSeq DEF TypeOK
  <1>3. Overflowing(1)
    BY <1>1 DEF OverflowQueue
  <1>4. 1 \in 1 .. Len(overflow) /\ \A i \in 2 .. Len(overflow) : i \in 1 .. Len(overflow) /\ i # 1
    BY <1>2
  <1>5. pc[overflow[1]] = "overflow" /\ \A i \in 2 .. Len(overflow) : overflow[i] # overflow[1]
    BY <1>3, <1>4 DEF Overflowing
  <1>6. Overflowing(2)
    BY <1>3, <1>4 DEF Overflowing
  <1>7. rline[overflow[1]] \in Lines /\ rop[overflow[1]] \in Op
    BY <1>2, <1>5 DEF HasLine, TypeOK
  <1> QED BY <1>1, <1>2, <1>4, <1>5, <1>6, <1>7

LEMMA OverflowIssueStep ==
  ASSUME IInv, overflowIssue
  PROVE  IInv'
  <1>1. TypeOK /\ EntriesInv /\ OneLoop /\ OverflowQueue /\ HasLine
    BY Parts DEF IInv
  <1>2. PICK f \in Requests, a \in Lines, op \in Op :
          /\ f = Head(overflow) /\ a = rline[f] /\ op = rop[f]
          /\ pc[f] = "overflow" /\ ~pops /\ Overflowing(2)
          /\ \A i \in 2 .. Len(overflow) : overflow[i] \in Requests /\ overflow[i] # f
    BY <1>1, Front DEF overflowIssue
  <1>3. /\ Top("loop") /\ overflow # <<>> /\ a \notin ms /\ nFreeEntries > 0
        /\ newEntry(f, a, op)
        /\ stack' = <<callback(f), frame("pop")>> \o Tail(stack)
        /\ overflow' = overflow /\ checkingOverflow' = checkingOverflow
        /\ rline' = rline /\ rop' = rop /\ nWrites' = nWrites
    BY <1>2 DEF overflowIssue
  <1>4. EntriesInv'
    BY <1>1, <1>2, <1>3, NewEntryStep
  <1>5. stack # <<>> /\ checkingOverflow /\ \A i \in 1 .. Len(stack) : i # 1 => ~looping(i)
    BY <1>1, <1>3, TopLoops DEF Top
  <1>6. /\ Tail(stack) \in Seq(Frame) /\ Len(stack) \in Nat \ {0}
        /\ Len(Tail(stack)) = Len(stack) - 1
        /\ \A i \in 1 .. Len(stack) - 1 : Tail(stack)[i] = stack[i + 1]
    BY <1>1, <1>5, Popped DEF TypeOK
  <1>7. /\ stack' \in Seq(Frame) /\ Len(stack') = Len(Tail(stack)) + 2
        /\ stack'[1].call = "callback" /\ stack'[2].call = "pop"
        /\ \A i \in 1 .. Len(Tail(stack)) : stack'[i + 2] = Tail(stack)[i]
    BY <1>2, <1>3, <1>6, Frames, PushTwo
  <1>8. \A i \in 1 .. Len(stack') : looping(i)' <=> i = 2
    <2>1. ASSUME NEW i \in 1 .. Len(stack'), i # 1, i # 2 PROVE ~looping(i)'
      <3>1. /\ i - 2 \in 1 .. Len(stack) - 1 /\ (i - 2) + 2 = i
            /\ (i - 2) + 1 \in 1 .. Len(stack) /\ (i - 2) + 1 # 1
        BY <1>6, <1>7, <2>1
      <3>2. stack'[i] = stack[(i - 2) + 1]
        BY <1>6, <1>7, <3>1
      <3>3. ~looping((i - 2) + 1)
        BY <1>5, <3>1
      <3> QED BY <3>2, <3>3 DEF looping
    <2>2. 1 # 2
      OBVIOUS
    <2> QED BY <1>7, <2>1, <2>2 DEF looping
  <1>9. 2 \in 1 .. Len(stack')
    BY <1>6, <1>7
  <1>10. OneLoop' /\ pops'
    BY <1>3, <1>5, <1>7, <1>8, <1>9 DEF OneLoop, pops
  <1>11. OverflowQueue'
    <2>1. \A x \in Requests : x # f => pc'[x] = pc[x]
      BY <1>1, <1>3 DEF newEntry, TypeOK
    <2>2. Overflowing(2)'
      BY <1>2, <1>3, <2>1 DEF Overflowing
    <2> QED BY <1>3, <1>10, <2>2 DEF OverflowQueue
  <1>12. QueueTyped'
    BY <1>1, <1>3, <1>7 DEF QueueTyped, TypeOK
  <1> QED BY <1>4, <1>10, <1>11, <1>12, PartsNext

LEMMA OverflowAddStep ==
  ASSUME IInv, overflowAdd
  PROVE  IInv'
  <1>1. TypeOK /\ EntriesInv /\ OneLoop /\ OverflowQueue /\ HasLine
    BY Parts DEF IInv
  <1>2. PICK f \in Requests, a \in Lines, op \in Op :
          /\ f = Head(overflow) /\ a = rline[f] /\ op = rop[f]
          /\ pc[f] = "overflow" /\ ~pops /\ Overflowing(2)
          /\ \A i \in 2 .. Len(overflow) : overflow[i] \in Requests /\ overflow[i] # f
    BY <1>1, Front DEF overflowAdd
  <1>3. /\ Top("loop") /\ overflow # <<>> /\ a \in ms /\ canAcceptRequest(entry[a], op)
        /\ addToEntry(f, a, op) /\ overflow' = Tail(overflow)
        /\ checkingOverflow' = checkingOverflow /\ stack' = stack
        /\ rline' = rline /\ rop' = rop /\ nWrites' = nWrites
    BY <1>2 DEF overflowAdd
  <1>4. EntriesInv'
    BY <1>1, <1>2, <1>3, AddToEntryStep
  <1>5. OneLoop' /\ ~pops'
    BY <1>1, <1>2, <1>3, StackSame
  <1>6. overflow' \in Seq(Requests) /\ OverflowQueue'
    <2>1. \A x \in Requests : x # f => pc'[x] = pc[x]
      BY <1>1, <1>3 DEF addToEntry, TypeOK
    <2> QED BY <1>1, <1>2, <1>3, <1>5, <2>1, FrontLeaves
  <1>7. QueueTyped'
    BY <1>1, <1>3, <1>6 DEF QueueTyped, TypeOK
  <1> QED BY <1>4, <1>5, <1>6, <1>7, PartsNext
-----------------------------------------------------------------------------
(***************************************************************************)
(* The theorems                                                            *)
(***************************************************************************)
LEMMA InitIInv == Init => IInv
  <1> SUFFICES ASSUME Init PROVE IInv
    OBVIOUS
  <1>1. TypeOK
    <2>1. NoEntry \in Entry
      BY DEF NoEntry, Entry
    <2>2. overflow \in Seq(Requests) /\ stack \in Seq(Frame)
      BY EmptySeq DEF Init
    <2>3. /\ nFreeEntries \in Nat /\ nFullReadEntries \in Int /\ nFullWriteEntries \in Int
          /\ nWrites \in WriteSizes
      BY SizeAssumption DEF Init
    <2>5. checkingOverflow \in BOOLEAN /\ ms \in SUBSET Lines
      BY DEF Init
    <2>4. /\ pc \in [Requests -> {"idle", "overflow", "queued", "owner"}]
          /\ entry \in [Lines -> Entry] /\ rop \in [Requests -> Op]
          /\ rline \in [Requests -> Lines \cup {None}]
      BY <2>1 DEF Init, Op
    <2> QED BY <2>2, <2>3, <2>4, <2>5 DEF TypeOK
  <1>2. HasLine /\ OneOwner /\ AllSubEntries
    BY DEF Init, HasLine, OneOwner, owners, AllSubEntries
  <1>3. AllQueued
    BY DEF Init, AllQueued, Queued, NoEntry
  <1>4. Len(stack) = 0 /\ Len(overflow) = 0
    BY EmptySeq DEF Init
  <1>5. OneLoop /\ OverflowQueue
    BY <1>4 DEF Init, OneLoop, OverflowQueue, pops, Overflowing
  <1>6. CountersExact
    <2>1. fullReads = {} /\ fullWrites = {} /\ ms = {}
      BY DEF Init, fullReads, fullWrites
    <2> QED BY <2>1, FS_EmptySet, SizeAssumption DEF Init, CountersExact, fullReads, fullWrites
  <1> QED BY <1>1, <1>2, <1>3, <1>5, <1>6 DEF IInv

LEMMA NextStep == ASSUME IInv, [Next]_vars PROVE IInv'
  <1>1. CASE UNCHANGED vars
    BY <1>1 DEF vars, IInv, TypeOK, HasLine, OneOwner, owners, AllQueued, Queued,
       AllSubEntries, SubEntries, rdWrSharing, OneLoop, looping, OverflowQueue, pops,
       Overflowing, CountersExact
  <1>2. CASE Arrival
    BY <1>2, IssueStep, AddEntryStep, ToOverflowStep DEF Arrival
  <1>3. CASE Retire
    BY <1>3, RetireNextKeeps, RetireLastKeeps DEF Retire
  <1>4. CASE Returns
    BY <1>4, CallReturns, CheckStartsStep, CheckEndsStep, OverflowPopStep,
       OverflowIssueStep, OverflowAddStep DEF Returns
  <1> QED BY <1>1, <1>2, <1>3, <1>4 DEF Next

(* The inductive invariant: besides the properties, where each request is  *)
(* while retire and checkOverflow call back and re-enter each other.       *)
THEOREM InductiveInvariant == Spec => []IInv
  <1>1. Init => IInv
    BY InitIInv
  <1>2. IInv /\ [Next]_vars => IInv'
    BY NextStep
  <1> QED BY <1>1, <1>2, PTL DEF Spec

(* No aliasing, for any client: a line with an entry has one owner and one *)
(* without has none, however deep callbacks retire and issue requests.     *)
THEOREM NoAliasing == Spec => []OneOwner
  <1>1. IInv => OneOwner
    BY DEF IInv
  <1> QED BY <1>1, InductiveInvariant, PTL

(* The counters of free entries and of entries without a free read or      *)
(* write are exact, with split and with shared subentries.                 *)
THEOREM CountersAlwaysExact == Spec => []CountersExact
  <1>1. IInv => CountersExact
    BY DEF IInv
  <1> QED BY <1>1, InductiveInvariant, PTL

(* A request overflows exactly if canAcceptRequest said no.                *)
THEOREM AcceptancePromiseKept == Spec => AcceptedNeverOverflows
  <1> DEFINE Kept == \A r \in Requests :
       pc[r] = "idle" /\ pc'[r] # "idle" =>
         (pc'[r] = "overflow" <=> ~canAcceptRequestSpecial(rline'[r], rop'[r]))
  <1>1. IInv /\ [Next]_vars => [Kept]_vars
    <2> SUFFICES ASSUME IInv, Next PROVE Kept
      OBVIOUS
    <2> SUFFICES ASSUME NEW r \in Requests, pc[r] = "idle", pc'[r] # "idle"
                 PROVE  pc'[r] = "overflow" <=> ~canAcceptRequestSpecial(rline'[r], rop'[r])
      OBVIOUS
    <2>1. TypeOK /\ EntriesInv /\ OneLoop /\ OverflowQueue /\ HasLine
      BY Parts DEF IInv
    <2>2. CASE Arrival
      <3>1. PICK x \in Requests, a \in Lines, op \in Op :
              issue(x, a, op) \/ addEntry(x, a, op) \/ toOverflow(x, a, op)
        BY <2>2 DEF Arrival
      <3>2. arrives(x, a, op) /\ x = r
        BY <2>1, <3>1 DEF issue, addEntry, toOverflow, newEntry, addToEntry, TypeOK
      <3>3. rline'[r] = a /\ rop'[r] = op
        BY <2>1, <3>2, ArrivesTyped
      <3>4. CASE issue(r, a, op)
        BY <2>1, <3>3, <3>4 DEF issue, newEntry, canAcceptRequestSpecial, TypeOK
      <3>5. CASE addEntry(r, a, op)
        BY <2>1, <3>3, <3>5 DEF addEntry, addToEntry, canAcceptRequestSpecial, TypeOK
      <3>6. CASE toOverflow(r, a, op)
        BY <2>1, <3>3, <3>6 DEF toOverflow, canAcceptRequestSpecial, TypeOK
      <3> QED BY <3>1, <3>2, <3>4, <3>5, <3>6
    <2>3. CASE Retire
      <3>1. PICK x \in Requests : retireNext(x) \/ retireLast(x)
        BY <2>3 DEF Retire
      <3>2. ~retireNext(x)
        BY <2>1, RetireNextStep
      <3>3. ~retireLast(x)
        BY <2>1, RetireLastStep
      <3> QED BY <3>1, <3>2, <3>3
    <2>4. CASE Returns
      <3>1. ~overflowIssue
        BY <2>1, Front DEF overflowIssue, newEntry, TypeOK
      <3>2. ~overflowAdd
        BY <2>1, Front DEF overflowAdd, addToEntry, TypeOK
      <3> QED BY <2>4, <3>1, <3>2 DEF Returns, callbackReturns, checkSkips, checkStarts,
              overflowPop, checkEnds
    <2> QED BY <2>2, <2>3, <2>4 DEF Next
  <1> QED BY <1>1, InductiveInvariant, PTL DEF Spec, AcceptedNeverOverflows
-----------------------------------------------------------------------------
(***************************************************************************)
(* Cache: its client, and the tags of CacheCore                            *)
(***************************************************************************)
(* A line is in a set, or locked in it.                                    *)
inSet(w, a) == \E i \in 1 .. Len(w) : w[i].tag = a
locks(w, a) == \E i \in 1 .. Len(w) : w[i].tag = a /\ w[i].locked

(* A valid line has a tag, which no other has; only valid ones are locked. *)
WellFormed(w) ==
  /\ w \in Seq(Line(Lines))
  /\ \A i \in 1 .. Len(w) : (w[i].valid <=> w[i].tag # NoTag) /\ (w[i].locked => w[i].valid)
  /\ \A i, j \in 1 .. Len(w) : w[i].tag = w[j].tag /\ w[i].tag # NoTag => i = j

(* A line replaced has to be dropped above.                                *)
drops == ~conf.highest /\ conf.inclusive

MemOp == {"MemRead", "MemReadW", "MemWrite", "MemPush"}
Queueing == {"waits", "reexec"}
Below == {"below", "late", "retry"}
Holding == {"locked", "allocated"}

CacheTyped ==
  /\ conf \in Confs
  /\ memOp \in [Requests -> MemOp]
  /\ stage \in [Requests -> Stage]
  /\ wbuff \in [Lines -> Nat]
  /\ pendingWrites \in Int
  /\ pendInvTable \in [Lines -> [outsResps: Nat, r: Requests \cup {None}]]

(* Which operations are at which level; only a push has no place in the    *)
(* buffer.                                                                 *)
Operations ==
  \A r \in Requests :
    /\ stage[r] # "none" => rline[r] \in Lines
    /\ stage[r] = "none" => memOp[r] = "MemRead"
    /\ memOp[r] = "MemWrite" => conf.highest
    /\ memOp[r] \in {"MemReadW", "MemPush"} => ~conf.highest
    /\ memOp[r] = "MemPush" => ~conf.inclusive /\ pc[r] = "idle"
    /\ stage[r] = "reexec" => conf.highest

(* Of the callbacks active, only the innermost one has its request waiting *)
(* for it, and that owns its line.                                         *)
Calls ==
  \A i \in 1 .. Len(stack) :
    stack[i].call = "callback" /\ stage[stack[i].r] \in Queueing
      => i = 1 /\ pc[stack[i].r] = "owner"

(* A locked line is that of the one request that will unlock it; what is   *)
(* below for a line finds it absent, if lines are dropped above at all.    *)
Locking ==
  /\ WellFormed(set)
  /\ \A r \in Requests : stage[r] \in Holding => drops /\ locks(set, rline[r])
  /\ \A r, s \in Requests : stage[r] \in Holding /\ stage[s] \in Holding /\ rline[r] = rline[s]
                              => r = s
  /\ \A a \in Lines : locks(set, a) =>
       \E r \in Requests : stage[r] \in Holding /\ rline[r] = a
  /\ drops => \A r \in Requests : stage[r] \in Below => ~inSet(set, rline[r])

(* A line that is dropped above is absent, none comes back for it from     *)
(* below, and the request that replaces it does nothing else.              *)
Dropping ==
  /\ \A a \in Lines : pending(a) =>
       /\ drops /\ pendInvTable[a].outsResps \in 1 .. NumUpper
       /\ stage[pendInvTable[a].r] = "locked"
       /\ ~inSet(set, a)
       /\ \A r \in Requests : rline[r] = a => stage[r] \notin {"below", "retry"}
  /\ \A a, b \in Lines : pending(a) /\ pendInvTable[a].r = pendInvTable[b].r => a = b

(* WBuffExact: wbuff has the writes that are on their way.                 *)
writing(r) == stage[r] # "none" /\ memOp[r] = "MemWrite"
writesTo(a) == {r \in Requests : writing(r) /\ rline[r] = a}
allWrites == {r \in Requests : writing(r)}
Writes ==
  conf.doWBFwd => /\ \A a \in Lines : wbuff[a] = Cardinality(writesTo(a))
                  /\ pendingWrites = Cardinality(allWrites)

CInv ==
  /\ IInv /\ CacheTyped /\ Operations /\ Calls /\ MissesOwnLines
  /\ Locking /\ Dropping /\ Writes
-----------------------------------------------------------------------------
(***************************************************************************)
(* The lines of a set                                                      *)
(***************************************************************************)
(* v is w with its line i moved to the front, as l.                        *)
before(i, k) == IF k <= i THEN k - 1 ELSE k
IsFront(w, v, i, l) ==
  /\ v \in Seq(Line(Lines)) /\ Len(v) = Len(w) /\ v[1] = l
  /\ \A k \in 2 .. Len(w) : v[k] = w[before(i, k)]

(* toFront is that.                                                        *)
LEMMA ToFront ==
  ASSUME NEW w \in Seq(Line(Lines)), NEW i \in 1 .. Len(w)
  PROVE  IsFront(w, toFront(w, i), i, w[i])
  <1> DEFINE L == Line(Lines)
             a == SubSeq(w, 1, i - 1)
             b == SubSeq(w, i + 1, Len(w))
             f == <<w[i]>>
             fa == f \o a
             v == fa \o b
  <1>0. Len(w) \in Nat /\ i \in Nat /\ \A k \in 1 .. Len(w) : w[k] \in L
    BY ElementOfSeq
  <1> HIDE DEF L
  <1>1. /\ a \in Seq(L) /\ Len(a) = i - 1
        /\ \A k \in 1 .. i - 1 : a[k] = w[k]
    <2>1. \A k \in 1 .. i - 1 : w[k] \in L
      BY <1>0
    <2> QED BY <1>0, <2>1, SubSeqProperties
  <1>2. /\ b \in Seq(L) /\ Len(b) = Len(w) - i
        /\ \A k \in 1 .. Len(w) - i : b[k] = w[i + k]
    <2>1. \A k \in i + 1 .. Len(w) : w[k] \in L
      BY <1>0
    <2> QED BY <1>0, <2>1, SubSeqProperties
  <1>3. f \in Seq(L) /\ Len(f) = 1 /\ f[1] = w[i]
    BY <1>0
  <1> HIDE DEF a, b, f
  <1>4. /\ fa \in Seq(L) /\ Len(fa) = i
        /\ \A k \in 1 .. i : fa[k] = IF k <= 1 THEN f[k] ELSE a[k - 1]
    <2>1. /\ fa \in Seq(L) /\ Len(fa) = Len(f) + Len(a)
          /\ \A k \in 1 .. Len(f) + Len(a) :
               fa[k] = IF k <= Len(f) THEN f[k] ELSE a[k - Len(f)]
      BY <1>1, <1>3, ConcatProperties
    <2> QED BY <1>0, <1>1, <1>3, <2>1
  <1> HIDE DEF fa
  <1>5. /\ v \in Seq(L) /\ Len(v) = Len(w)
        /\ \A k \in 1 .. Len(w) : v[k] = IF k <= i THEN fa[k] ELSE b[k - i]
    <2>1. /\ v \in Seq(L) /\ Len(v) = Len(fa) + Len(b)
          /\ \A k \in 1 .. Len(fa) + Len(b) :
               v[k] = IF k <= Len(fa) THEN fa[k] ELSE b[k - Len(fa)]
      BY <1>2, <1>4, ConcatProperties
    <2> QED BY <1>0, <1>2, <1>4, <2>1
  <1> HIDE DEF v
  <1>6. v[1] = w[i]
    BY <1>0, <1>3, <1>4, <1>5
  <1>7. \A k \in 2 .. Len(w) : v[k] = w[before(i, k)]
    <2> SUFFICES ASSUME NEW k \in 2 .. Len(w) PROVE v[k] = w[before(i, k)]
      OBVIOUS
    <2>1. CASE k <= i
      <3>1. v[k] = fa[k] /\ fa[k] = a[k - 1] /\ a[k - 1] = w[k - 1]
        BY <2>1, <1>0, <1>1, <1>4, <1>5
      <3> QED BY <3>1, <2>1 DEF before
    <2>2. CASE k > i
      <3>1. v[k] = b[k - i] /\ b[k - i] = w[k]
        BY <2>2, <1>0, <1>2, <1>5
      <3> QED BY <3>1, <2>2, <1>0 DEF before
    <2> QED BY <2>1, <2>2, <1>0
  <1>8. toFront(w, i) = v
    BY DEF toFront, v, fa, f, a, b
  <1> QED BY <1>5, <1>6, <1>7, <1>8 DEF IsFront, L

(* The front may be rewritten, before or after.                            *)
LEMMA FrontAs ==
  ASSUME NEW w \in Seq(Line(Lines)), NEW i \in 1 .. Len(w), NEW v, NEW l, IsFront(w, v, i, l),
         NEW m \in Line(Lines)
  PROVE  IsFront(w, [v EXCEPT ![1] = m], i, m)
  <1>1. v \in Seq(Line(Lines)) /\ Len(v) = Len(w) /\ Len(w) \in Nat \ {0} /\ DOMAIN v = 1 .. Len(w)
    BY DEF IsFront
  <1> DEFINE u == [v EXCEPT ![1] = m]
  <1>2. u \in Seq(Line(Lines)) /\ Len(u) = Len(w)
    BY <1>1
  <1>3. u[1] = m /\ \A k \in 2 .. Len(w) : u[k] = v[k]
    BY <1>1
  <1> QED BY <1>2, <1>3 DEF IsFront

(* fillLine gives way i the tag and moves it to the front.                 *)
LEMMA FilledFront ==
  ASSUME NEW w \in Seq(Line(Lines)), NEW i \in 1 .. Len(w), NEW a \in Lines
  PROVE  IsFront(w, fillLine(w, i, a), i, [w[i] EXCEPT !.tag = a])
  <1> DEFINE m == [w[i] EXCEPT !.tag = a]
             u == [w EXCEPT ![i] = m]
  <1>1. w[i] \in Line(Lines) /\ Len(w) \in Nat /\ i \in Nat
    BY ElementOfSeq
  <1>2. m \in Line(Lines)
    BY <1>1 DEF Line
  <1>3. /\ u \in Seq(Line(Lines)) /\ Len(u) = Len(w) /\ u[i] = m
        /\ \A k \in 1 .. Len(w) : k # i => u[k] = w[k]
    BY <1>1, <1>2
  <1>4. IsFront(u, toFront(u, i), i, m)
    <2> HIDE DEF u
    <2>1. IsFront(u, toFront(u, i), i, u[i])
      BY <1>3, ToFront
    <2> QED BY <1>3, <2>1
  <1>5. fillLine(w, i, a) = toFront(u, i)
    BY DEF fillLine
  <1>6. \A k \in 2 .. Len(w) : before(i, k) \in 1 .. Len(w) /\ before(i, k) # i
    BY <1>1 DEF before
  <1>7. \A k \in 2 .. Len(w) : u[before(i, k)] = w[before(i, k)]
    BY <1>3, <1>6
  <1> HIDE DEF u, m
  <1>8. IsFront(w, toFront(u, i), i, m)
    BY <1>3, <1>4, <1>7 DEF IsFront
  <1> QED BY <1>5, <1>8 DEF m

(* Which lines the set has then, and which are locked.                     *)
LEMMA FrontEffect ==
  ASSUME NEW w, WellFormed(w), NEW i \in 1 .. Len(w), NEW v, NEW l, IsFront(w, v, i, l),
         l.valid <=> l.tag # NoTag, l.locked => l.valid,
         l.tag \in Lines => l.tag = w[i].tag \/ ~inSet(w, l.tag)
  PROVE  /\ WellFormed(v)
         /\ \A a \in Lines : inSet(v, a) <=> a = l.tag \/ (a # w[i].tag /\ inSet(w, a))
         /\ \A a \in Lines : locks(v, a) <=>
              \/ a = l.tag /\ l.locked
              \/ a # l.tag /\ a # w[i].tag /\ locks(w, a)
  <1>1. /\ w \in Seq(Line(Lines)) /\ v \in Seq(Line(Lines)) /\ Len(v) = Len(w)
        /\ Len(w) \in Nat \ {0} /\ i \in Nat /\ v[1] = l
        /\ \A k \in 1 .. Len(w) : k # 1 => v[k] = w[before(i, k)]
    BY DEF IsFront, WellFormed
  <1>2. \A k \in 1 .. Len(w) : k # 1 => before(i, k) \in 1 .. Len(w) /\ before(i, k) # i
    BY <1>1 DEF before
  <1>3. \A j \in 1 .. Len(w) : j # i =>
          \E k \in 1 .. Len(w) : k # 1 /\ before(i, k) = j
    <2> SUFFICES ASSUME NEW j \in 1 .. Len(w), j # i
                 PROVE  \E k \in 1 .. Len(w) : k # 1 /\ before(i, k) = j
      OBVIOUS
    <2>1. CASE j < i
      <3>1. j + 1 \in 1 .. Len(w) /\ j + 1 # 1 /\ before(i, j + 1) = j
        BY <2>1, <1>1 DEF before
      <3> QED BY <3>1
    <2>2. CASE j > i
      <3>1. j # 1 /\ before(i, j) = j
        BY <2>2, <1>1 DEF before
      <3> QED BY <3>1
    <2> QED BY <2>1, <2>2, <1>1
  <1>4. \A j, k \in 1 .. Len(w) : j # 1 /\ k # 1 /\ before(i, j) = before(i, k) => j = k
    BY <1>1 DEF before
  <1>5. \A k \in 1 .. Len(w) : w[k] \in Line(Lines) /\ v[k] \in Line(Lines)
    BY <1>1, ElementOfSeq
  <1>6. \A k \in 1 .. Len(w) : v[k].tag \in Lines \cup {NoTag}
    BY <1>5 DEF Line
  <1>7. /\ \A k \in 1 .. Len(w) : (w[k].valid <=> w[k].tag # NoTag) /\ (w[k].locked => w[k].valid)
        /\ \A j, k \in 1 .. Len(w) : w[j].tag = w[k].tag /\ w[j].tag # NoTag => j = k
    BY DEF WellFormed
  <1>8. \A k \in 1 .. Len(w) : k # 1 => v[k].tag = NoTag \/ (v[k].tag # w[i].tag /\ v[k].tag # l.tag)
    <2> SUFFICES ASSUME NEW k \in 1 .. Len(w), k # 1, v[k].tag # NoTag
                 PROVE  v[k].tag # w[i].tag /\ v[k].tag # l.tag
      OBVIOUS
    <2>1. v[k] = w[before(i, k)] /\ before(i, k) \in 1 .. Len(w) /\ before(i, k) # i
      BY <1>1, <1>2
    <2>2. v[k].tag # w[i].tag
      BY <2>1, <1>7
    <2>3. inSet(w, v[k].tag) /\ v[k].tag \in Lines
      BY <2>1, <1>6 DEF inSet
    <2> QED BY <2>2, <2>3
  <1>9. WellFormed(v)
    <2>1. \A k \in 1 .. Len(v) : (v[k].valid <=> v[k].tag # NoTag) /\ (v[k].locked => v[k].valid)
      <3> SUFFICES ASSUME NEW k \in 1 .. Len(w)
                   PROVE  (v[k].valid <=> v[k].tag # NoTag) /\ (v[k].locked => v[k].valid)
        BY <1>1
      <3>1. CASE k = 1
        BY <3>1, <1>1
      <3>2. CASE k # 1
        BY <3>2, <1>1, <1>2, <1>7
      <3> QED BY <3>1, <3>2
    <2>2. \A j, k \in 1 .. Len(v) : v[j].tag = v[k].tag /\ v[j].tag # NoTag => j = k
      <3> SUFFICES ASSUME NEW j \in 1 .. Len(w), NEW k \in 1 .. Len(w),
                          v[j].tag = v[k].tag, v[j].tag # NoTag
                   PROVE  j = k
        BY <1>1
      <3>1. CASE j = 1 \/ k = 1
        BY <3>1, <1>1, <1>8
      <3>2. CASE j # 1 /\ k # 1
        <4>1. before(i, j) = before(i, k)
          BY <3>2, <1>1, <1>2, <1>7
        <4> QED BY <4>1, <3>2, <1>4
      <3> QED BY <3>1, <3>2
    <2> QED BY <1>1, <2>1, <2>2 DEF WellFormed
  <1>10. ASSUME NEW a \in Lines
         PROVE  inSet(v, a) <=> a = l.tag \/ (a # w[i].tag /\ inSet(w, a))
    <2>1. a # NoTag
      BY CacheAssumption
    <2>2. ASSUME inSet(v, a) PROVE a = l.tag \/ (a # w[i].tag /\ inSet(w, a))
      <3>1. PICK k \in 1 .. Len(w) : v[k].tag = a
        BY <2>2, <1>1 DEF inSet
      <3>2. CASE k = 1
        BY <3>1, <3>2, <1>1
      <3>3. CASE k # 1
        <4>1. v[k] = w[before(i, k)] /\ before(i, k) \in 1 .. Len(w)
          BY <3>3, <1>1, <1>2
        <4>2. a # w[i].tag
          BY <3>1, <3>3, <2>1, <1>8
        <4> QED BY <3>1, <4>1, <4>2 DEF inSet
      <3> QED BY <3>2, <3>3
    <2>3. ASSUME a = l.tag PROVE inSet(v, a)
      BY <2>3, <1>1 DEF inSet
    <2>4. ASSUME a # w[i].tag, inSet(w, a) PROVE inSet(v, a)
      <3>1. PICK j \in 1 .. Len(w) : w[j].tag = a
        BY <2>4 DEF inSet
      <3>2. PICK k \in 1 .. Len(w) : k # 1 /\ before(i, k) = j
        BY <3>1, <2>4, <1>3
      <3> QED BY <3>1, <3>2, <1>1 DEF inSet
    <2> QED BY <2>2, <2>3, <2>4
  <1>11. ASSUME NEW a \in Lines
         PROVE  locks(v, a) <=> \/ a = l.tag /\ l.locked
                                \/ a # l.tag /\ a # w[i].tag /\ locks(w, a)
    <2>1. a # NoTag
      BY CacheAssumption
    <2>2. ASSUME locks(v, a)
          PROVE  \/ a = l.tag /\ l.locked
                 \/ a # l.tag /\ a # w[i].tag /\ locks(w, a)
      <3>1. PICK k \in 1 .. Len(w) : v[k].tag = a /\ v[k].locked
        BY <2>2, <1>1 DEF locks
      <3>2. CASE k = 1
        BY <3>1, <3>2, <1>1
      <3>3. CASE k # 1
        <4>1. v[k] = w[before(i, k)] /\ before(i, k) \in 1 .. Len(w)
          BY <3>3, <1>1, <1>2
        <4>2. a # w[i].tag /\ a # l.tag
          BY <3>1, <3>3, <2>1, <1>8
        <4> QED BY <3>1, <4>1, <4>2 DEF locks
      <3> QED BY <3>2, <3>3
    <2>3. ASSUME a = l.tag, l.locked PROVE locks(v, a)
      BY <2>3, <1>1 DEF locks
    <2>4. ASSUME a # w[i].tag, locks(w, a) PROVE locks(v, a)
      <3>1. PICK j \in 1 .. Len(w) : w[j].tag = a /\ w[j].locked
        BY <2>4 DEF locks
      <3>2. PICK k \in 1 .. Len(w) : k # 1 /\ before(i, k) = j
        BY <3>1, <2>4, <1>3
      <3> QED BY <3>1, <3>2, <1>1 DEF locks
    <2> QED BY <2>2, <2>3, <2>4
  <1> QED BY <1>9, <1>10, <1>11

(* The set as CacheCore looks it up.                                       *)
LEMMA Held ==
  ASSUME NEW w \in Seq(Line(Lines)), NEW a
  PROVE  /\ holds(w, a) <=> inSet(w, a)
         /\ ways(w, a) \subseteq 1 .. Len(w)
         /\ \A i \in 1 .. Len(w) : i \in ways(w, a) <=> w[i].tag = a
  <1>1. DOMAIN w = 1 .. Len(w)
    OBVIOUS
  <1> QED BY <1>1 DEF holds, ways, inSet

(* The way a search finds is the one of the line, its lock included.       *)
LEMMA Chosen ==
  ASSUME NEW w, WellFormed(w), NEW a \in Lines, inSet(w, a)
  PROVE  \E i \in 1 .. Len(w) :
           /\ w[i].tag = a /\ w[i].valid /\ w[i] \in Line(Lines)
           /\ w[i].locked <=> locks(w, a)
           /\ i = CHOOSE j \in ways(w, a) : TRUE
  <1> DEFINE i == CHOOSE j \in ways(w, a) : TRUE
  <1>1. w \in Seq(Line(Lines)) /\ a # NoTag
    BY CacheAssumption DEF WellFormed
  <1>2. i \in ways(w, a)
    BY <1>1, Held DEF holds
  <1> HIDE DEF i
  <1>3. i \in 1 .. Len(w) /\ w[i].tag = a
    BY <1>1, <1>2, Held
  <1>4. w[i].valid /\ w[i] \in Line(Lines)
    BY <1>1, <1>3, ElementOfSeq DEF WellFormed
  <1>5. w[i].locked <=> locks(w, a)
    BY <1>1, <1>3 DEF WellFormed, locks
  <1> QED BY <1>3, <1>4, <1>5 DEF i

(* A line looked up comes to the front, ...                                *)
LEMMA Found ==
  ASSUME NEW w, WellFormed(w), NEW a \in Lines, inSet(w, a)
  PROVE  LET f == findLineTag(w, a) IN
         /\ f[1] \in Line(Lines) /\ f[1].tag = a /\ f[1].valid
         /\ f[1].locked <=> locks(w, a)
         /\ WellFormed(f)
         /\ \A b \in Lines : (inSet(f, b) <=> inSet(w, b)) /\ (locks(f, b) <=> locks(w, b))
  <1>1. PICK i \in 1 .. Len(w) :
           /\ w[i].tag = a /\ w[i].valid /\ w[i] \in Line(Lines)
           /\ w[i].locked <=> locks(w, a)
           /\ i = CHOOSE j \in ways(w, a) : TRUE
    BY Chosen
  <1>2. IsFront(w, findLineTag(w, a), i, w[i])
    <2>1. findLineTag(w, a) = toFront(w, i)
      BY <1>1 DEF findLineTag
    <2> QED BY <2>1, ToFront DEF WellFormed
  <1>3. w[i].valid <=> w[i].tag # NoTag
    BY DEF WellFormed
  <1>4. /\ WellFormed(findLineTag(w, a))
        /\ \A b \in Lines : inSet(findLineTag(w, a), b)
             <=> b = w[i].tag \/ (b # w[i].tag /\ inSet(w, b))
        /\ \A b \in Lines : locks(findLineTag(w, a), b)
             <=> \/ b = w[i].tag /\ w[i].locked
                 \/ b # w[i].tag /\ b # w[i].tag /\ locks(w, b)
    BY <1>1, <1>2, <1>3, FrontEffect
  <1>5. findLineTag(w, a)[1] = w[i]
    BY <1>2 DEF IsFront
  <1> QED BY <1>1, <1>4, <1>5

(* ... where its state is changed, ...                                     *)
LEMMA Rewritten ==
  ASSUME NEW w, WellFormed(w), NEW a \in Lines, inSet(w, a),
         NEW m \in Line(Lines), m.tag = a, m.valid
  PROVE  LET f == [findLineTag(w, a) EXCEPT ![1] = m] IN
         /\ WellFormed(f)
         /\ \A b \in Lines : inSet(f, b) <=> inSet(w, b)
         /\ \A b \in Lines : locks(f, b) <=> IF b = a THEN m.locked ELSE locks(w, b)
  <1>1. PICK i \in 1 .. Len(w) :
           /\ w[i].tag = a /\ w[i].valid /\ w[i] \in Line(Lines)
           /\ w[i].locked <=> locks(w, a)
           /\ i = CHOOSE j \in ways(w, a) : TRUE
    BY Chosen
  <1>2. IsFront(w, findLineTag(w, a), i, w[i])
    <2>1. findLineTag(w, a) = toFront(w, i)
      BY <1>1 DEF findLineTag
    <2> QED BY <2>1, ToFront DEF WellFormed
  <1> DEFINE f == [findLineTag(w, a) EXCEPT ![1] = m]
  <1>3. IsFront(w, f, i, m)
    BY <1>2, FrontAs DEF WellFormed
  <1>4. (m.valid <=> m.tag # NoTag) /\ (m.locked => m.valid)
    BY CacheAssumption
  <1> HIDE DEF f
  <1>5. /\ WellFormed(f)
        /\ \A b \in Lines : inSet(f, b) <=> b = m.tag \/ (b # w[i].tag /\ inSet(w, b))
        /\ \A b \in Lines : locks(f, b) <=>
              \/ b = m.tag /\ m.locked
              \/ b # m.tag /\ b # w[i].tag /\ locks(w, b)
    BY <1>1, <1>3, <1>4, FrontEffect
  <1> QED BY <1>1, <1>5 DEF f

(* ... or it is invalidated.                                               *)
LEMMA Cleared ==
  ASSUME NEW w, WellFormed(w), NEW a \in Lines, inSet(w, a)
  PROVE  LET f == [findLineTag(w, a) EXCEPT ![1] = invalid] IN
         /\ WellFormed(f)
         /\ \A b \in Lines : inSet(f, b) <=> b # a /\ inSet(w, b)
         /\ \A b \in Lines : locks(f, b) <=> b # a /\ locks(w, b)
  <1>1. PICK i \in 1 .. Len(w) :
           /\ w[i].tag = a /\ w[i].valid /\ w[i] \in Line(Lines)
           /\ w[i].locked <=> locks(w, a)
           /\ i = CHOOSE j \in ways(w, a) : TRUE
    BY Chosen
  <1>2. IsFront(w, findLineTag(w, a), i, w[i])
    <2>1. findLineTag(w, a) = toFront(w, i)
      BY <1>1 DEF findLineTag
    <2> QED BY <2>1, ToFront DEF WellFormed
  <1> DEFINE f == [findLineTag(w, a) EXCEPT ![1] = invalid]
  <1>3. /\ invalid \in Line(Lines) /\ invalid.tag = NoTag
        /\ ~invalid.valid /\ ~invalid.locked /\ NoTag \notin Lines
    BY CacheAssumption DEF invalid, Line
  <1>4. IsFront(w, f, i, invalid)
    BY <1>2, <1>3, FrontAs DEF WellFormed
  <1> HIDE DEF f
  <1>5. /\ WellFormed(f)
        /\ \A b \in Lines : inSet(f, b) <=> b = invalid.tag \/ (b # w[i].tag /\ inSet(w, b))
        /\ \A b \in Lines : locks(f, b) <=>
              \/ b = invalid.tag /\ invalid.locked
              \/ b # invalid.tag /\ b # w[i].tag /\ locks(w, b)
    BY <1>1, <1>3, <1>4, FrontEffect
  <1> QED BY <1>1, <1>3, <1>5 DEF f

(* A line absent takes the place of line i.                                *)
LEMMA Filled ==
  ASSUME NEW w, WellFormed(w), NEW a \in Lines, ~inSet(w, a), NEW i \in 1 .. Len(w),
         NEW m, m.tag = a, m.valid, NEW f, IsFront(w, f, i, m)
  PROVE  /\ WellFormed(f)
         /\ \A b \in Lines : inSet(f, b) <=> b = a \/ (b # w[i].tag /\ inSet(w, b))
         /\ \A b \in Lines : locks(f, b) <=>
              IF b = a THEN m.locked ELSE b # w[i].tag /\ locks(w, b)
  <1>1. (m.valid <=> m.tag # NoTag) /\ (m.locked => m.valid)
    BY CacheAssumption
  <1>2. /\ WellFormed(f)
        /\ \A b \in Lines : inSet(f, b) <=> b = m.tag \/ (b # w[i].tag /\ inSet(w, b))
        /\ \A b \in Lines : locks(f, b) <=>
              \/ b = m.tag /\ m.locked
              \/ b # m.tag /\ b # w[i].tag /\ locks(w, b)
    BY <1>1, FrontEffect
  <1> QED BY <1>2

(* A set of naturals has a least element, a bounded one a greatest one.    *)
LEMMA LeastNatural ==
  ASSUME NEW S \in SUBSET Nat, S # {}
  PROVE  Min(S) \in S /\ \A y \in S : Min(S) <= y
  <1>1. PICK x \in S : \A y \in S : <<y, x>> \notin OpToRel(<, Nat)
    BY NatLessThanWellFounded, WFMin
  <1>2. ASSUME NEW y \in S, y < x
        PROVE  <<y, x>> \in OpToRel(<, Nat)
    <2>1. <<y, x>> \in Nat \X Nat /\ <<y, x>>[1] = y /\ <<y, x>>[2] = x
      OBVIOUS
    <2> QED BY <1>2, <2>1 DEF OpToRel
  <1>3. \A y \in S : ~(y < x)
    BY <1>1, <1>2
  <1>4. \A y \in S : x <= y
    BY <1>3
  <1> QED BY <1>4 DEF Min

(* A bounded set of naturals has a greatest element.                       *)
LEMMA GreatestNatural ==
  ASSUME NEW S \in SUBSET Nat, S # {}, NEW n \in Nat, \A y \in S : y <= n
  PROVE  Max(S) \in S
  <1> DEFINE T == {k \in Nat : n - k \in S}
  <1>1. \A y \in S : n - y \in T
    OBVIOUS
  <1>2. T \in SUBSET Nat /\ T # {}
    BY <1>1
  <1>3. Min(T) \in T /\ \A k \in T : Min(T) <= k
    BY <1>2, LeastNatural
  <1>4. n - Min(T) \in S /\ Min(T) \in Nat
    BY <1>3
  <1>5. \A y \in S : n - Min(T) >= y
    BY <1>1, <1>3, <1>4
  <1> QED BY <1>4, <1>5 DEF Max

(* The line to be replaced: invalid, or not locked.                        *)
LEMMA Victim ==
  ASSUME NEW w, WellFormed(w), NEW a \in Lines, ~inSet(w, a), findLine2Replace(w, a) # 0
  PROVE  LET i == findLine2Replace(w, a) IN
         i \in 1 .. Len(w) /\ ~w[i].locked /\ w[i] \in Line(Lines)
         /\ (w[i].valid => w[i].tag \in Lines)
  <1> DEFINE i        == findLine2Replace(w, a)
             free     == {j \in DOMAIN w : ~w[j].valid}
             unlocked == {j \in DOMAIN w : ~w[j].locked}
  <1>1. w \in Seq(Line(Lines)) /\ DOMAIN w = 1 .. Len(w) /\ Len(w) \in Nat
    BY DEF WellFormed
  <1>2. ~holds(w, a)
    BY <1>1, Held
  <1>3. CASE free # {}
    <2>1. i = Min(free)
      BY <1>2, <1>3 DEF findLine2Replace
    <2>2. free \in SUBSET Nat
      BY <1>1
    <2>3. i \in free
      BY <1>3, <2>1, <2>2, LeastNatural
    <2>4. i \in 1 .. Len(w) /\ ~w[i].valid /\ w[i] \in Line(Lines)
      BY <1>1, <2>3, ElementOfSeq
    <2> QED BY <2>4 DEF WellFormed
  <1>4. CASE free = {} /\ unlocked # {}
    <2>1. i = Max(unlocked)
      BY <1>2, <1>4 DEF findLine2Replace
    <2>2. unlocked \in SUBSET Nat /\ \A y \in unlocked : y <= Len(w)
      BY <1>1
    <2>3. i \in unlocked
      BY <1>1, <1>4, <2>1, <2>2, GreatestNatural
    <2>4. i \in 1 .. Len(w) /\ ~w[i].locked /\ w[i] \in Line(Lines)
      BY <1>1, <2>3, ElementOfSeq
    <2>5. w[i].valid => w[i].tag \in Lines
      BY <2>4 DEF WellFormed, Line
    <2> QED BY <2>4, <2>5
  <1>5. CASE free = {} /\ unlocked = {}
    BY <1>2, <1>5 DEF findLine2Replace
  <1> QED BY <1>3, <1>4, <1>5
-----------------------------------------------------------------------------
(***************************************************************************)
(* The write buffer                                                        *)
(***************************************************************************)
(* Counting requests: sets of them are finite, and one more or less counts *)
(* one.                                                                    *)
LEMMA RequestSets ==
  ASSUME NEW S \in SUBSET Requests
  PROVE  /\ IsFiniteSet(S) /\ Cardinality(S) \in Nat
         /\ \A r \in Requests \ S : Cardinality(S \cup {r}) = Cardinality(S) + 1
         /\ \A r \in S : Cardinality(S \ {r}) = Cardinality(S) - 1 /\ Cardinality(S) > 0
  <1>1. IsFiniteSet(S)
    BY FS_Subset, CacheAssumption
  <1>2. Cardinality(S) \in Nat
    BY <1>1, FS_CardinalityType
  <1>3. \A r \in Requests \ S : Cardinality(S \cup {r}) = Cardinality(S) + 1
    BY <1>1, FS_AddElement
  <1>4. \A r \in S : Cardinality(S \ {r}) = Cardinality(S) - 1 /\ Cardinality(S) > 0
    <2> SUFFICES ASSUME NEW r \in S
                 PROVE  Cardinality(S \ {r}) = Cardinality(S) - 1 /\ Cardinality(S) > 0
      OBVIOUS
    <2>1. Cardinality(S \ {r}) = Cardinality(S) - 1
      BY <1>1, FS_RemoveElement
    <2>2. Cardinality(S) # 0
      BY <1>1, FS_EmptySet
    <2> QED BY <1>2, <2>1, <2>2
  <1> QED BY <1>1, <1>2, <1>3, <1>4

(* Requests go on as they are, ...                                         *)
LEMMA WritesStay ==
  ASSUME Writes, UNCHANGED <<conf, wbuff, pendingWrites>>,
         \A x \in Requests : /\ writing(x)' <=> writing(x)
                             /\ writing(x) => rline'[x] = rline[x]
  PROVE  Writes'
  <1>1. \A a \in Lines : writesTo(a)' = writesTo(a)
    BY DEF writesTo
  <1>2. allWrites' = allWrites
    BY DEF allWrites
  <1> QED BY <1>1, <1>2 DEF Writes

(* ... a write comes, ...                                                  *)
LEMMA WriteComes ==
  ASSUME CacheTyped, Writes, NEW r \in Requests, NEW a \in Lines, wbuffAdd(a), conf' = conf,
         ~writing(r), writing(r)', rline'[r] = a,
         \A x \in Requests : x # r => /\ writing(x)' <=> writing(x)
                                      /\ writing(x) => rline'[x] = rline[x]
  PROVE  Writes'
  <1>1. writesTo(a)' = writesTo(a) \cup {r} /\ r \notin writesTo(a)
    BY DEF writesTo
  <1>2. \A b \in Lines : b # a => writesTo(b)' = writesTo(b)
    BY DEF writesTo
  <1>3. allWrites' = allWrites \cup {r} /\ r \notin allWrites
    BY DEF allWrites
  <1>4. writesTo(a) \in SUBSET Requests /\ allWrites \in SUBSET Requests
    BY DEF writesTo, allWrites
  <1>5. /\ Cardinality(writesTo(a)') = Cardinality(writesTo(a)) + 1
        /\ Cardinality(allWrites') = Cardinality(allWrites) + 1
    BY <1>1, <1>3, <1>4, RequestSets
  <1>6. conf.doWBFwd => /\ wbuff' = [wbuff EXCEPT ![a] = @ + 1]
                        /\ pendingWrites' = pendingWrites + 1
    BY DEF wbuffAdd
  <1> QED BY <1>2, <1>5, <1>6 DEF Writes, CacheTyped

(* ... a write is answered.                                                *)
LEMMA WriteGoes ==
  ASSUME CacheTyped, Writes, NEW r \in Requests, NEW a \in Lines, wbuffRemove(a), conf' = conf,
         writing(r), ~writing(r)', rline[r] = a,
         \A x \in Requests : x # r => /\ writing(x)' <=> writing(x)
                                      /\ writing(x) => rline'[x] = rline[x]
  PROVE  Writes'
  <1>1. writesTo(a)' = writesTo(a) \ {r} /\ r \in writesTo(a)
    BY DEF writesTo
  <1>2. \A b \in Lines : b # a => writesTo(b)' = writesTo(b)
    BY DEF writesTo
  <1>3. allWrites' = allWrites \ {r} /\ r \in allWrites
    BY DEF allWrites
  <1>4. writesTo(a) \in SUBSET Requests /\ allWrites \in SUBSET Requests
    BY DEF writesTo, allWrites
  <1>5. /\ Cardinality(writesTo(a)') = Cardinality(writesTo(a)) - 1
        /\ Cardinality(writesTo(a)) > 0
        /\ Cardinality(allWrites') = Cardinality(allWrites) - 1
    BY <1>1, <1>3, <1>4, RequestSets
  <1>6. conf.doWBFwd => /\ wbuff' = [wbuff EXCEPT ![a] = @ - 1]
                        /\ pendingWrites' = pendingWrites - 1
    BY <1>5 DEF wbuffRemove, Writes
  <1> QED BY <1>2, <1>5, <1>6 DEF Writes, CacheTyped

(* A lower-level cache has no writes: what a MemReadW would remove is not  *)
(* there.                                                                  *)
LEMMA NoWritesBelow ==
  ASSUME CacheTyped, Operations, Writes, ~conf.highest, conf.doWBFwd, NEW a \in Lines
  PROVE  wbuff[a] = 0
  <1>1. writesTo(a) = {}
    BY DEF writesTo, writing, Operations
  <1> QED BY <1>1, FS_EmptySet DEF Writes

(* Counting a write keeps the types.                                       *)
LEMMA WBuffTyped ==
  ASSUME CacheTyped, NEW a \in Lines, wbuffAdd(a) \/ wbuffRemove(a)
  PROVE  wbuff' \in [Lines -> Nat] /\ pendingWrites' \in Int
  BY DEF CacheTyped, wbuffAdd, wbuffRemove
-----------------------------------------------------------------------------
(***************************************************************************)
(* What the buffer does to the requests                                    *)
(***************************************************************************)
(* Of a request that is idle the buffer knows nothing.                     *)
LEMMA IdleFree ==
  ASSUME IInv, UNCHANGED <<ms, entry, nFreeEntries, nFullReadEntries, nFullWriteEntries,
                           overflow, checkingOverflow, pc, stack, nWrites>>,
         rline' \in [Requests -> Lines \cup {None}], rop' \in [Requests -> Op],
         \A x \in Requests : pc[x] # "idle" => rline'[x] = rline[x]
  PROVE  IInv'
  <1>1. TypeOK /\ EntriesInv /\ OneLoop /\ OverflowQueue
    BY Parts DEF IInv
  <1>2. EntriesInv'
    <2>1. EntriesTyped' /\ HasLine' /\ AllSubEntries' /\ CountersExact'
      BY <1>1 DEF EntriesInv, EntriesTyped, HasLine, AllSubEntries, SubEntries, rdWrSharing,
                  CountersExact, hasFreeReads, hasFreeWrites
    <2>2. OneOwner'
      <3>1. \A a \in Lines : owners(a)' = owners(a)
        BY DEF owners
      <3> QED BY <1>1, <3>1 DEF EntriesInv, OneOwner
    <2>3. AllQueued'
      <3> SUFFICES ASSUME NEW a \in Lines PROVE Queued(a)'
        BY DEF AllQueued
      <3>1. entry[a].cc \in Seq(Requests)
        BY <1>1 DEF TypeOK, Entry
      <3>2. \A i \in 1 .. Len(entry[a].cc) : entry[a].cc[i] \in Requests
        BY <3>1, ElementOfSeq
      <3> QED BY <1>1, <3>2 DEF EntriesInv, AllQueued, Queued
    <2> QED BY <2>1, <2>2, <2>3 DEF EntriesInv
  <1>3. QueueTyped'
    BY <1>1 DEF TypeOK, QueueTyped
  <1>4. OneLoop' /\ OverflowQueue'
    BY <1>1 DEF OneLoop, looping, OverflowQueue, pops, Overflowing
  <1> QED BY <1>2, <1>3, <1>4, PartsNext

(* What leaves the buffer alone keeps its invariant.                       *)
LEMMA MshrSame ==
  ASSUME IInv, UNCHANGED mshr
  PROVE  IInv'
  <1>1. TypeOK
    BY DEF IInv
  <1> QED BY <1>1, IdleFree DEF mshr, TypeOK

(* A request arrives.                                                      *)
arrived(r, a) ==
  /\ rline'[r] = a /\ pc'[r] \in Places
  /\ \A x \in Requests : x # r => rline'[x] = rline[x] /\ pc'[x] = pc[x]
  /\ stack' = stack

(* An arrival makes the request the owner of its line, or queues it.       *)
LEMMA Arrived ==
  ASSUME IInv, NEW r \in Requests, NEW a \in Lines, NEW op \in Op,
         issue(r, a, op) \/ addEntry(r, a, op) \/ toOverflow(r, a, op)
  PROVE  /\ IInv' /\ arrived(r, a)
         /\ issue(r, a, op) => pc'[r] = "owner"
         /\ addEntry(r, a, op) \/ toOverflow(r, a, op) => pc'[r] \in {"queued", "overflow"}
  <1>1. IInv'
    BY NextStep DEF Next, Arrival
  <1>2. arrives(r, a, op)
    BY DEF issue, addEntry, toOverflow
  <1>3. rline'[r] = a /\ (\A x \in Requests : x # r => rline'[x] = rline[x]) /\ stack' = stack
    BY <1>2, ArrivesTyped DEF IInv
  <1>4. pc \in [Requests -> Places]
    BY DEF IInv, TypeOK, Places
  <1>5. /\ issue(r, a, op) => pc' = [pc EXCEPT ![r] = "owner"]
        /\ addEntry(r, a, op) => pc' = [pc EXCEPT ![r] = "queued"]
        /\ toOverflow(r, a, op) => pc' = [pc EXCEPT ![r] = "overflow"]
    BY DEF issue, addEntry, toOverflow, newEntry, addToEntry
  <1> QED BY <1>1, <1>3, <1>4, <1>5 DEF arrived, Places

(* A request is retired, and the next of its line, if any, called back.    *)
LEMMA Retired ==
  ASSUME IInv, NEW r \in Requests, retire(r)
  PROVE  /\ IInv' /\ pc[r] = "owner" /\ pc'[r] = "idle"
         /\ \A x \in Requests : x # r => rline'[x] = rline[x]
         /\ stack = <<>> \/ (Top("callback") /\ Head(stack).r = r)
         /\ \A x \in Requests : x # r =>
              \/ pc'[x] = pc[x]
              \/ /\ pc[x] = "queued" /\ pc'[x] = "owner"
                 /\ stack' = <<callback(x), frame("check")>> \o stack
         /\ \/ stack' = <<frame("check")>> \o stack
            \/ \E x \in Requests :
                 x # r /\ pc[x] = "queued" /\ pc'[x] = "owner" /\ stack' = <<callback(x), frame("check")>> \o stack
  <1>1. IInv'
    BY NextStep DEF Next, Retire, retire
  <1>2. TypeOK /\ EntriesInv
    BY Parts DEF IInv
  <1>3. /\ pc[r] = "owner" /\ rline' = [rline EXCEPT ![r] = None]
        /\ stack = <<>> \/ (Top("callback") /\ Head(stack).r = r)
    BY DEF retire, retireNext, retireLast, mayRetire, destroy
  <1>4. \A x \in Requests : x # r => rline'[x] = rline[x]
    BY <1>2, <1>3 DEF TypeOK
  <1>5. CASE retireNext(r)
    <2> DEFINE next == Head(entry[rline[r]].cc)
    <2>1. /\ next \in Requests /\ pc[next] = "queued" /\ pc'[next] = "owner"
          /\ pc'[r] = "idle"
          /\ \A x \in Requests : x # r /\ x # next => pc'[x] = pc[x]
      BY <1>2, <1>5, RetireNextStep
    <2>2. stack' = <<callback(next), frame("check")>> \o stack
      BY <1>5 DEF retireNext
    <2> HIDE DEF next
    <2>3. next # r
      BY <1>3, <2>1
    <2> QED BY <1>1, <1>3, <1>4, <2>1, <2>2, <2>3
  <1>6. CASE retireLast(r)
    <2>1. pc'[r] = "idle" /\ \A x \in Requests : x # r => pc'[x] = pc[x]
      BY <1>2, <1>6, RetireLastStep
    <2>2. stack' = <<frame("check")>> \o stack
      BY <1>6 DEF retireLast
    <2> QED BY <1>1, <1>3, <1>4, <2>1, <2>2
  <1> QED BY <1>5, <1>6 DEF retire

(* An active call of the buffer goes on.                                   *)
LEMMA Returned ==
  ASSUME IInv, Returns
  PROVE  /\ IInv' /\ rline' = rline /\ stack # <<>>
         /\ \/ pc' = pc /\ stack' = Tail(stack)
            \/ /\ ~Top("callback")
               /\ \E c \in {"loop", "pop"} : stack' = <<frame(c)>> \o Tail(stack) /\ pc' = pc
            \/ ~Top("callback") /\ stack' = stack /\ \E f \in Requests :
                  pc[f] = "overflow" /\ pc' = [pc EXCEPT ![f] = "queued"]
            \/ /\ ~Top("callback")
               /\ \E f \in Requests : 
                    /\ pc[f] = "overflow" /\ pc' = [pc EXCEPT ![f] = "owner"]
                    /\ stack' = <<callback(f), frame("pop")>> \o Tail(stack)
  <1>1. IInv'
    BY NextStep DEF Next
  <1>2. TypeOK /\ OneLoop /\ OverflowQueue /\ HasLine
    BY DEF IInv
  <1>3. CASE callbackReturns \/ checkSkips \/ checkEnds
    BY <1>1, <1>3 DEF callbackReturns, checkSkips, checkEnds, Top
  <1>4. CASE checkStarts \/ overflowPop
    BY <1>1, <1>4 DEF checkStarts, overflowPop, Top
  <1>5. CASE overflowIssue \/ overflowAdd
    <2>1. Top("loop") /\ overflow # <<>> /\ rline' = rline
      BY <1>5 DEF overflowIssue, overflowAdd
    <2>2. PICK f \in Requests : f = Head(overflow) /\ pc[f] = "overflow"
      BY <1>2, <2>1, Front
    <2>3. ~Top("callback") /\ stack # <<>>
      BY <2>1 DEF Top
    <2>4. \/ pc' = [pc EXCEPT ![f] = "owner"]
             /\ stack' = <<callback(f), frame("pop")>> \o Tail(stack)
          \/ pc' = [pc EXCEPT ![f] = "queued"] /\ stack' = stack
      BY <1>5, <2>2 DEF overflowIssue, overflowAdd, newEntry, addToEntry
    <2> QED BY <1>1, <2>1, <2>2, <2>3, <2>4
  <1> QED BY <1>3, <1>4, <1>5 DEF Returns
-----------------------------------------------------------------------------
(***************************************************************************)
(* Where the requests are: operations, callbacks, owners                   *)
(***************************************************************************)
Requesting == Operations /\ Calls /\ MissesOwnLines

(* The operations a cache of this kind has.                                *)
fits(op, s) ==
  /\ op = "MemWrite" => conf.highest
  /\ op \in {"MemReadW", "MemPush"} => ~conf.highest
  /\ op = "MemPush" => ~conf.inclusive
  /\ s = "reexec" => conf.highest

(* An access that arrives keeps what ties the requests to the buffer.      *)
LEMMA RequestComes ==
  ASSUME CacheTyped, Requesting, NEW r \in Requests, NEW a \in Lines, NEW op \in MemOp,
         NEW s \in {"below", "late"} \cup Queueing,
         accepts(r), arrived(r, a), fits(op, s), conf' = conf,
         stage' = [stage EXCEPT ![r] = s], memOp' = [memOp EXCEPT ![r] = op],
         IF op = "MemPush" THEN s \in Below /\ pc'[r] = "idle"
         ELSE IF s \in Below THEN pc'[r] = "owner" ELSE pc'[r] \in {"queued", "overflow"}
  PROVE  Requesting'
  <1>1. /\ stage'[r] = s /\ memOp'[r] = op /\ rline'[r] = a /\ s # "none"
        /\ \A x \in Requests : x # r => /\ stage'[x] = stage[x] /\ memOp'[x] = memOp[x]
                                        /\ rline'[x] = rline[x] /\ pc'[x] = pc[x]
    BY DEF CacheTyped, arrived, Queueing
  <1>2. stack = <<>> /\ stack' = <<>> /\ ~Top("callback")
    BY DEF accepts, arrived, Top
  <1>3. Operations'
    BY <1>1 DEF Operations, Requesting, fits
  <1>4. Calls'
    BY <1>2 DEF Calls
  <1>5. MissesOwnLines'
    <2>1. \A x \in Requests : ~calledBack(x, stage[x])
      BY <1>2 DEF calledBack
    <2>2. ASSUME NEW x \in Requests, x # r
          PROVE  /\ stage[x] \in {"below", "late", "locked", "allocated", "retry"}
                       /\ memOp[x] # "MemPush" => pc[x] = "owner"
                 /\ stage[x] \in {"waits", "reexec"} => pc[x] \in {"queued", "overflow"}
                 /\ stage[x] = "none" => pc[x] = "idle"
      BY <2>1 DEF Requesting, MissesOwnLines
    <2>3. /\ s \in {"below", "late", "locked", "allocated", "retry"}
               /\ op # "MemPush" => pc'[r] = "owner"
          /\ s \in {"waits", "reexec"} => pc'[r] \in {"queued", "overflow"}
      BY DEF Below, Queueing
    <2> QED BY <1>1, <2>2, <2>3 DEF MissesOwnLines
  <1> QED BY <1>3, <1>4, <1>5 DEF Requesting

(* A request goes on, outside the buffer.                                  *)
LEMMA RequestMoves ==
  ASSUME CacheTyped, Requesting, IInv, NEW r \in Requests, NEW s \in Below \cup Holding,
         stage' = [stage EXCEPT ![r] = s], UNCHANGED <<mshr, memOp, conf>>,
         stage[r] # "none", pc[r] = "owner" \/ memOp[r] = "MemPush"
  PROVE  Requesting'
  <1>1. /\ stage'[r] = s /\ s \notin Queueing /\ s # "none"
        /\ \A x \in Requests : x # r => stage'[x] = stage[x]
    BY DEF CacheTyped, Below, Holding, Queueing
  <1>2. memOp' = memOp /\ pc' = pc /\ rline' = rline /\ stack' = stack
    BY DEF mshr
  <1>3. Operations'
    BY <1>1, <1>2 DEF Operations, Requesting, Queueing
  <1>4. Calls'
    <2> SUFFICES ASSUME NEW i \in 1 .. Len(stack), stack[i].call = "callback",
                        stage'[stack[i].r] \in Queueing
                 PROVE  i = 1 /\ pc[stack[i].r] = "owner"
      BY <1>2 DEF Calls
    <2>1. stack[i] \in Frame
      BY ElementOfSeq DEF IInv, TypeOK
    <2>2. stack[i].r \in Requests
      BY <2>1 DEF Frame
    <2>3. stage[stack[i].r] \in Queueing
      BY <1>1, <2>2
    <2> QED BY <2>3 DEF Calls, Requesting
  <1>5. MissesOwnLines'
    <2>1. \A x \in Requests : x # r => (calledBack(x, stage[x])' <=> calledBack(x, stage[x]))
      BY <1>1, <1>2 DEF calledBack, Top
    <2> QED BY <1>1, <1>2, <2>1 DEF MissesOwnLines, Requesting, Queueing
  <1> QED BY <1>3, <1>4, <1>5 DEF Requesting

(* The stack, with the calls pushed by k.                                  *)
LEMMA Pushed ==
  ASSUME IInv, NEW x \in Requests,
         stack' = <<frame("check")>> \o stack \/ stack' = <<callback(x), frame("check")>> \o stack
  PROVE  \E k \in {1, 2} :
           /\ Len(stack) \in Nat /\ Len(stack') = Len(stack) + k
           /\ \A i \in 1 .. Len(stack) : stack'[i + k] = stack[i]
           /\ stack'[k].call = "check"
           /\ k = 2 => /\ stack'[1] = callback(x) /\ Head(stack') = callback(x)
                       /\ stack' # <<>>
           /\ k = 2 <=> stack' = <<callback(x), frame("check")>> \o stack
  <1>1. stack \in Seq(Frame) /\ Len(stack) \in Nat
    BY DEF IInv, TypeOK
  <1>2. callback(x) \in Frame /\ frame("check") \in Frame /\ frame("check").call = "check"
    BY Frames
  <1>3. CASE stack' = <<callback(x), frame("check")>> \o stack
    <2>1. /\ stack' \in Seq(Frame) /\ Len(stack') = Len(stack) + 2
          /\ stack'[1] = callback(x) /\ stack'[2] = frame("check")
          /\ \A i \in 1 .. Len(stack) : stack'[i + 2] = stack[i]
      BY <1>1, <1>2, <1>3, PushTwo
    <2>2. stack' # <<>> /\ Head(stack') = stack'[1]
      BY <1>1, <2>1, Popped
    <2> QED BY <1>1, <1>2, <1>3, <2>1, <2>2
  <1>4. CASE stack' = <<frame("check")>> \o stack /\ stack' # <<callback(x), frame("check")>> \o stack
    <2>1. /\ Len(stack') = Len(stack) + 1 /\ stack'[1] = frame("check")
          /\ \A i \in 1 .. Len(stack) : stack'[i + 1] = stack[i]
      BY <1>1, <1>2, <1>4, PushOne
    <2> QED BY <1>1, <1>2, <1>4, <2>1
  <1> QED BY <1>3, <1>4

(* A callback on the stack is a request's.                                 *)
LEMMA CallbackOf ==
  ASSUME IInv, NEW i \in 1 .. Len(stack), stack[i].call = "callback"
  PROVE  stack[i].r \in Requests
  <1>1. stack[i] \in Frame
    BY ElementOfSeq DEF IInv, TypeOK
  <1> QED BY <1>1 DEF Frame

(* A request is answered and retired.                                      *)
LEMMA RequestAnswered ==
  ASSUME CacheTyped, Requesting, IInv, NEW r \in Requests, goUp(r), retire(r), conf' = conf
  PROVE  Requesting'
  <1>1. /\ stage'[r] = "none" /\ memOp'[r] = "MemRead"
        /\ \A x \in Requests : x # r => stage'[x] = stage[x] /\ memOp'[x] = memOp[x]
    BY DEF CacheTyped, goUp, setStage
  <1>2. /\ IInv' /\ pc[r] = "owner" /\ pc'[r] = "idle"
        /\ \A x \in Requests : x # r => rline'[x] = rline[x]
        /\ stack = <<>> \/ (Top("callback") /\ Head(stack).r = r)
        /\ \A x \in Requests : x # r =>
              \/ pc'[x] = pc[x]
              \/ /\ pc[x] = "queued" /\ pc'[x] = "owner"
                 /\ stack' = <<callback(x), frame("check")>> \o stack
        /\ \/ stack' = <<frame("check")>> \o stack
           \/ \E x \in Requests :
                x # r /\ pc[x] = "queued" /\ pc'[x] = "owner" /\ stack' = <<callback(x), frame("check")>> \o stack
    BY Retired
  <1>3. Operations'
    BY <1>1, <1>2 DEF Operations, Requesting
  <1>4. Calls'
    <2>1. PICK y \in Requests :
            \/ stack' = <<frame("check")>> \o stack
            \/ pc'[y] = "owner" /\ stack' = <<callback(y), frame("check")>> \o stack
      BY <1>2
    <2>2. PICK k \in {1, 2} :
           /\ Len(stack) \in Nat /\ Len(stack') = Len(stack) + k
           /\ \A i \in 1 .. Len(stack) : stack'[i + k] = stack[i]
           /\ stack'[k].call = "check"
           /\ k = 2 => /\ stack'[1] = callback(y) /\ Head(stack') = callback(y)
                       /\ stack' # <<>>
           /\ k = 2 <=> stack' = <<callback(y), frame("check")>> \o stack
      BY <2>1, Pushed
    <2> SUFFICES ASSUME NEW i \in 1 .. Len(stack'), stack'[i].call = "callback",
                        stage'[stack'[i].r] \in Queueing
                 PROVE  i = 1 /\ pc'[stack'[i].r] = "owner"
      BY DEF Calls
    <2>3. CASE i <= k
      <3>1. i = 1 /\ k = 2
        BY <2>2, <2>3
      <3>2. pc'[y] = "owner"
        <4>1. stack' # <<frame("check")>> \o stack
          <5>1. stack \in Seq(Frame) /\ frame("check") \in Frame
            BY Frames DEF IInv, TypeOK
          <5>2. Len(<<frame("check")>> \o stack) = Len(stack) + 1
            BY <5>1, PushOne
          <5> QED BY <2>2, <3>1, <5>2
        <4> QED BY <2>1, <4>1
      <3> QED BY <2>2, <3>1, <3>2 DEF callback
    <2>4. CASE i > k
      <3>1. PICK j \in 1 .. Len(stack) : i = j + k
        <4>1. Len(stack) \in Nat /\ i \in 1 .. Len(stack) + k /\ i > k /\ k \in Nat
          BY <2>2, <2>4
        <4>2. i - k \in 1 .. Len(stack) /\ i = (i - k) + k
          BY <4>1
        <4> QED BY <4>2
      <3>2. stack'[i] = stack[j]
        BY <2>2, <3>1
      <3>3. stack[j].r \in Requests
        BY <3>2, CallbackOf
      <3>4. stack[j].r # r /\ stage[stack[j].r] \in Queueing
        BY <1>1, <3>2, <3>3 DEF Queueing
      <3>5. j = 1
        BY <3>2, <3>4 DEF Calls, Requesting
      <3>6. stack # <<>>
        BY <3>1
      <3>7. Head(stack) = stack[1]
        BY <3>6, Popped DEF IInv, TypeOK
      <3> QED BY <1>2, <3>4, <3>5, <3>6, <3>7
    <2> QED BY <2>2, <2>3, <2>4
  <1>5. MissesOwnLines'
    <2> SUFFICES ASSUME NEW x \in Requests
                 PROVE  /\ stage'[x] \in {"below", "late", "locked", "allocated", "retry"}
                              /\ memOp'[x] # "MemPush" => pc'[x] = "owner"
                        /\ stage'[x] \in {"waits", "reexec"}
                             => pc'[x] \in {"queued", "overflow"} \/ calledBack(x, stage[x])'
                        /\ stage'[x] = "none" => pc'[x] = "idle"
      BY DEF MissesOwnLines
    <2>1. CASE x = r
      BY <1>1, <1>2, <2>1
    <2>2. CASE x # r
      <3>1. ~calledBack(x, stage[x])
        BY <1>2, <2>2 DEF calledBack, Top
      <3>2. /\ stage[x] \in {"below", "late", "locked", "allocated", "retry"}
                       /\ memOp[x] # "MemPush" => pc[x] = "owner"
            /\ stage[x] \in {"waits", "reexec"} => pc[x] \in {"queued", "overflow"}
            /\ stage[x] = "none" => pc[x] = "idle"
        BY <3>1 DEF Requesting, MissesOwnLines
      <3>3. CASE pc'[x] = pc[x]
        BY <1>1, <2>2, <3>2, <3>3
      <3>4. CASE /\ pc[x] = "queued" /\ pc'[x] = "owner"
                 /\ stack' = <<callback(x), frame("check")>> \o stack
        <4>1. stack' # <<>> /\ Head(stack') = callback(x)
          BY <3>4, Pushed
        <4>2. calledBack(x, stage[x])'
          BY <4>1 DEF calledBack, Top, callback
        <4> QED BY <1>1, <2>2, <3>2, <3>4, <4>2
      <3> QED BY <1>2, <2>2, <3>3, <3>4
    <2> QED BY <2>1, <2>2
  <1> QED BY <1>3, <1>4, <1>5 DEF Requesting

(* A push is done.                                                         *)
LEMMA PushAnswered ==
  ASSUME CacheTyped, Requesting, NEW r \in Requests, goUp(r), memOp[r] = "MemPush",
         stack = <<>>, UNCHANGED <<conf, pc, stack>>,
         \A x \in Requests : x # r => rline'[x] = rline[x]
  PROVE  Requesting'
  <1>1. /\ stage'[r] = "none" /\ memOp'[r] = "MemRead" /\ pc[r] = "idle"
        /\ \A x \in Requests : x # r => stage'[x] = stage[x] /\ memOp'[x] = memOp[x]
    BY DEF CacheTyped, goUp, setStage, Requesting, Operations
  <1>2. Operations'
    BY <1>1 DEF Operations, Requesting
  <1>3. Calls'
    BY DEF Calls
  <1>4. MissesOwnLines'
    <2>1. \A x \in Requests : ~calledBack(x, stage[x])
      BY DEF calledBack, Top
    <2> QED BY <1>1, <2>1 DEF MissesOwnLines, Requesting
  <1> QED BY <1>2, <1>3, <1>4 DEF Requesting

(* The buffer goes on once the request called back has been dealt with.    *)
LEMMA RequestsWait ==
  ASSUME CacheTyped, Requesting, IInv, bufferReturns
  PROVE  Requesting'
  <1>1. /\ Returns /\ (Top("callback") => stage[Head(stack).r] \notin Queueing)
        /\ stage' = stage /\ memOp' = memOp /\ conf' = conf
    BY DEF bufferReturns, cacheVars, Queueing
  <1>2. /\ IInv' /\ rline' = rline /\ stack # <<>>
        /\ \/ pc' = pc /\ stack' = Tail(stack)
           \/ /\ ~Top("callback")
              /\ \E c \in {"loop", "pop"} : stack' = <<frame(c)>> \o Tail(stack) /\ pc' = pc
           \/ ~Top("callback") /\ stack' = stack /\ \E f \in Requests :
                 pc[f] = "overflow" /\ pc' = [pc EXCEPT ![f] = "queued"]
           \/ /\ ~Top("callback")
              /\ \E f \in Requests :
                   /\ pc[f] = "overflow" /\ pc' = [pc EXCEPT ![f] = "owner"]
                   /\ stack' = <<callback(f), frame("pop")>> \o Tail(stack)
    BY <1>1, Returned
  <1>3. /\ stack \in Seq(Frame) /\ Tail(stack) \in Seq(Frame) /\ Len(stack) \in Nat \ {0}
        /\ Len(Tail(stack)) = Len(stack) - 1 /\ Head(stack) = stack[1]
        /\ \A i \in 1 .. Len(stack) - 1 : Tail(stack)[i] = stack[i + 1]
    BY <1>2, Popped DEF IInv, TypeOK
  <1>4. pc \in [Requests -> Places]
    BY DEF IInv, TypeOK, Places
  <1>5. \A x \in Requests :
          /\ stage[x] \in {"below", "late", "locked", "allocated", "retry"}
               /\ memOp[x] # "MemPush" => pc[x] = "owner"
          /\ stage[x] \in {"waits", "reexec"} => pc[x] \in {"queued", "overflow"}
          /\ stage[x] = "none" => pc[x] = "idle"
    BY <1>1 DEF Requesting, MissesOwnLines, calledBack, Queueing
  <1>6. \A i \in 1 .. Len(stack) : stack[i].call = "callback" => stage[stack[i].r] \notin Queueing
    <2> SUFFICES ASSUME NEW i \in 1 .. Len(stack), stack[i].call = "callback",
                        stage[stack[i].r] \in Queueing
                 PROVE  FALSE
      OBVIOUS
    <2>1. i = 1
      BY DEF Requesting, Calls
    <2> QED BY <1>1, <1>2, <1>3, <2>1 DEF Top
  <1>7. \A x \in Requests : pc[x] = "idle" => pc'[x] = "idle"
    BY <1>2, <1>4
  <1>8. Operations'
    BY <1>1, <1>2, <1>7 DEF Operations, Requesting
  <1>9. CASE pc' = pc /\ stack' = Tail(stack)
    <2>1. Calls'
      BY <1>1, <1>3, <1>6, <1>9 DEF Calls
    <2>2. MissesOwnLines'
      BY <1>1, <1>5, <1>9 DEF MissesOwnLines
    <2> QED BY <1>8, <2>1, <2>2 DEF Requesting
  <1>10. CASE \E c \in {"loop", "pop"} : stack' = <<frame(c)>> \o Tail(stack) /\ pc' = pc
    <2>1. PICK c \in {"loop", "pop"} : stack' = <<frame(c)>> \o Tail(stack) /\ pc' = pc
      BY <1>10
    <2>2. frame(c) \in Frame /\ frame(c).call = c
      BY Frames
    <2>3. /\ Len(stack') = Len(Tail(stack)) + 1 /\ stack'[1] = frame(c)
          /\ \A i \in 1 .. Len(Tail(stack)) : stack'[i + 1] = Tail(stack)[i]
      BY <1>3, <2>1, <2>2, PushOne
    <2>4. /\ Len(stack') = Len(stack)
          /\ \A i \in 1 .. Len(stack) : i # 1 => stack'[i] = stack[i]
      <3>1. \A i \in 1 .. Len(stack) : i # 1 => i - 1 \in 1 .. Len(stack) - 1 /\ (i - 1) + 1 = i
        BY <1>3
      <3> QED BY <1>3, <2>3, <3>1
    <2>5. Calls'
      <3> SUFFICES ASSUME NEW i \in 1 .. Len(stack), stack'[i].call = "callback"
                   PROVE  stage[stack'[i].r] \notin Queueing
        BY <1>1, <2>4 DEF Calls
      <3>1. i # 1
        BY <2>2, <2>3
      <3> QED BY <1>6, <2>4, <3>1
    <2>6. MissesOwnLines'
      BY <1>1, <1>5, <2>1 DEF MissesOwnLines
    <2> QED BY <1>8, <2>5, <2>6 DEF Requesting
  <1>11. CASE stack' = stack /\ \E f \in Requests :
                 pc[f] = "overflow" /\ pc' = [pc EXCEPT ![f] = "queued"]
    <2>1. Calls'
      BY <1>1, <1>6, <1>11 DEF Calls
    <2>2. \A x \in Requests : pc'[x] = pc[x] \/ (pc[x] = "overflow" /\ pc'[x] = "queued")
      BY <1>4, <1>11
    <2>3. MissesOwnLines'
      BY <1>1, <1>5, <2>2 DEF MissesOwnLines
    <2> QED BY <1>8, <2>1, <2>3 DEF Requesting
  <1>12. CASE \E f \in Requests : /\ pc[f] = "overflow" /\ pc' = [pc EXCEPT ![f] = "owner"]
                                  /\ stack' = <<callback(f), frame("pop")>> \o Tail(stack)
    <2>1. PICK f \in Requests : /\ pc[f] = "overflow" /\ pc' = [pc EXCEPT ![f] = "owner"]
                                /\ stack' = <<callback(f), frame("pop")>> \o Tail(stack)
      BY <1>12
    <2>2. callback(f) \in Frame /\ frame("pop") \in Frame /\ frame("pop").call = "pop"
      BY Frames
    <2>3. /\ stack' \in Seq(Frame) /\ Len(stack') = Len(Tail(stack)) + 2
          /\ stack'[1] = callback(f) /\ stack'[2] = frame("pop")
          /\ \A i \in 1 .. Len(Tail(stack)) : stack'[i + 2] = Tail(stack)[i]
      BY <1>3, <2>1, <2>2, PushTwo
    <2>4. \A i \in 1 .. Len(stack') : i > 2 => i - 1 \in 1 .. Len(stack) /\ stack'[i] = stack[i - 1]
      <3> SUFFICES ASSUME NEW i \in 1 .. Len(stack'), i > 2
                   PROVE  i - 1 \in 1 .. Len(stack) /\ stack'[i] = stack[i - 1]
        OBVIOUS
      <3>1. i - 2 \in 1 .. Len(stack) - 1 /\ (i - 2) + 2 = i /\ (i - 2) + 1 = i - 1
            /\ i - 1 \in 1 .. Len(stack)
        BY <1>3, <2>3
      <3>2. stack'[(i - 2) + 2] = Tail(stack)[i - 2] /\ Tail(stack)[i - 2] = stack[(i - 2) + 1]
        BY <1>3, <2>3, <3>1
      <3> QED BY <3>1, <3>2
    <2>5. pc'[f] = "owner" /\ \A x \in Requests : x # f => pc'[x] = pc[x]
      BY <1>4, <2>1
    <2>6. Calls'
      <3> SUFFICES ASSUME NEW i \in 1 .. Len(stack'), stack'[i].call = "callback",
                          stage[stack'[i].r] \in Queueing
                   PROVE  i = 1 /\ pc'[stack'[i].r] = "owner"
        BY <1>1 DEF Calls
      <3>1. CASE i > 2
        BY <1>6, <2>4, <3>1
      <3>2. CASE i = 2
        BY <2>2, <2>3, <3>2
      <3>3. CASE i = 1
        BY <2>3, <2>5, <3>3 DEF callback
      <3>4. i \in Nat /\ i >= 1
        BY <1>3, <2>3
      <3> QED BY <3>1, <3>2, <3>3, <3>4
    <2>7. MissesOwnLines'
      <3>1. stack' # <<>> /\ Head(stack') = callback(f)
        BY <1>3, <2>3, Popped
      <3>2. calledBack(f, stage[f])'
        BY <3>1 DEF calledBack, Top, callback
      <3>3. stage[f] # "none"
        BY <1>5, <2>1
      <3> QED BY <1>1, <1>5, <2>1, <2>5, <3>2, <3>3 DEF MissesOwnLines
    <2> QED BY <1>8, <2>6, <2>7 DEF Requesting
  <1> QED BY <1>2, <1>9, <1>10, <1>11, <1>12
-----------------------------------------------------------------------------
(***************************************************************************)
(* Replacements                                                            *)
(***************************************************************************)
Replacing == Locking /\ Dropping

(* Where lines are dropped above there are no pushes: one request at a     *)
(* time is below, or allocates, for a line, and it owns it.                *)
OneEach ==
  drops => \A x, y \in Requests :
             stage[x] \in Below \cup Holding /\ stage[y] \in Below \cup Holding
               /\ rline[x] = rline[y] => x = y

(* Where lines are dropped above, a line is below or held for one request. *)
LEMMA OneForLine == ASSUME IInv, Requesting PROVE OneEach
  <1> SUFFICES ASSUME drops, NEW x \in Requests, NEW y \in Requests,
                      stage[x] \in Below \cup Holding, stage[y] \in Below \cup Holding,
                      rline[x] = rline[y]
               PROVE  x = y
    BY DEF OneEach
  <1>1. memOp[x] # "MemPush" /\ memOp[y] # "MemPush"
    BY DEF drops, Requesting, Operations
  <1>2. pc[x] = "owner" /\ pc[y] = "owner"
    BY <1>1 DEF Requesting, MissesOwnLines, Below, Holding
  <1>3. rline[x] \in Lines
    BY <1>2 DEF IInv, HasLine
  <1>4. x \in owners(rline[x]) /\ y \in owners(rline[x])
    BY <1>2 DEF owners
  <1> QED BY <1>3, <1>4 DEF IInv, OneOwner

(* A locked line is in the set.                                            *)
LEMMA LockedIsIn ==
  ASSUME NEW w, NEW a, locks(w, a) PROVE inSet(w, a)
  BY DEF locks, inSet

(* Only the set changes, and lines may disappear.                          *)
LEMMA LinesKept ==
  ASSUME Replacing, UNCHANGED <<conf, stage, rline, pendInvTable>>, WellFormed(set'),
         \A b \in Lines : inSet(set', b) => inSet(set, b),
         \A b \in Lines : locks(set', b) <=> locks(set, b),
         Operations
  PROVE  Replacing'
  <1>1. \A r \in Requests : stage[r] # "none" => rline[r] \in Lines
    BY DEF Operations
  <1>2. Locking'
    BY <1>1 DEF Replacing, Locking, drops, Holding, Below
  <1>3. Dropping'
    BY DEF Replacing, Dropping, drops, pending
  <1> QED BY <1>2, <1>3 DEF Replacing

(* A request comes, goes on or leaves.                                     *)
LEMMA LinesOfOthers ==
  ASSUME CacheTyped, Operations, Replacing, OneEach, NEW r \in Requests,
         UNCHANGED <<conf, pendInvTable>>,
         \A x \in Requests : x # r => stage'[x] = stage[x] /\ rline'[x] = rline[x],
         stage'[r] \notin Holding, stage[r] # "locked",
         stage'[r] \in Below => rline'[r] \in Lines /\ (drops => ~inSet(set', rline'[r])),
         (\E a \in Lines : pending(a)) =>
            /\ stage'[r] # "below"
            /\ stage'[r] = "retry" => stage[r] = "below" /\ rline'[r] = rline[r],
         WellFormed(set'),
         drops => \A b \in Lines : inSet(set', b) =>
                    inSet(set, b) \/ (b = rline[r] /\ stage[r] \in {"below", "retry"}),
         \A b \in Lines : locks(set', b) <=>
                            locks(set, b) /\ ~(stage[r] \in Holding /\ b = rline[r])
  PROVE  Replacing'
  <1>1. Locking /\ Dropping
    BY DEF Replacing
  <1>2. \A x \in Requests : stage[x] # "none" => rline[x] \in Lines
    BY DEF Operations
  <1>3. Locking'
    <2>1. ASSUME NEW x \in Requests, stage'[x] \in Holding
          PROVE  drops' /\ locks(set', rline'[x])
      <3>1. x # r /\ stage[x] \in Holding /\ rline'[x] = rline[x]
        BY <2>1
      <3>2. drops /\ locks(set, rline[x]) /\ rline[x] \in Lines
        BY <1>1, <1>2, <3>1 DEF Locking, Holding
      <3>3. ~(stage[r] \in Holding /\ rline[x] = rline[r])
        BY <1>1, <3>1 DEF Locking
      <3> QED BY <3>1, <3>2, <3>3 DEF drops
    <2>2. ASSUME NEW x \in Requests, NEW y \in Requests, stage'[x] \in Holding,
                 stage'[y] \in Holding, rline'[x] = rline'[y]
          PROVE  x = y
      <3>1. x # r /\ y # r
        BY <2>2
      <3> QED BY <1>1, <2>2, <3>1 DEF Locking
    <2>3. ASSUME NEW a \in Lines, locks(set', a)
          PROVE  \E x \in Requests : stage'[x] \in Holding /\ rline'[x] = a
      <3>1. locks(set, a) /\ ~(stage[r] \in Holding /\ a = rline[r])
        BY <2>3
      <3>2. PICK x \in Requests : stage[x] \in Holding /\ rline[x] = a
        BY <1>1, <3>1 DEF Locking
      <3>3. x # r
        BY <3>1, <3>2
      <3> QED BY <3>2, <3>3
    <2>4. ASSUME drops', NEW x \in Requests, stage'[x] \in Below
          PROVE  ~inSet(set', rline'[x])
      <3>1. drops
        BY <2>4 DEF drops
      <3>2. CASE x = r
        BY <2>4, <3>1, <3>2
      <3>3. CASE x # r
        <4>1. stage[x] \in Below /\ rline'[x] = rline[x]
          BY <2>4, <3>3
        <4>2. ~inSet(set, rline[x]) /\ rline[x] \in Lines
          BY <1>1, <1>2, <3>1, <4>1 DEF Locking, Below
        <4>3. ~(rline[x] = rline[r] /\ stage[r] \in {"below", "retry"})
          BY <3>1, <3>3, <4>1 DEF OneEach, Below
        <4> QED BY <3>1, <4>1, <4>2, <4>3
      <3> QED BY <3>2, <3>3
    <2> QED BY <2>1, <2>2, <2>3, <2>4 DEF Locking
  <1>4. Dropping'
    <2>1. \A a \in Lines : pending(a)' <=> pending(a)
      BY DEF pending
    <2>2. ASSUME NEW a \in Lines, pending(a)
          PROVE  /\ drops' /\ pendInvTable'[a].outsResps \in 1 .. NumUpper
                 /\ stage'[pendInvTable'[a].r] = "locked"
                 /\ ~inSet(set', a)
                 /\ \A x \in Requests : rline'[x] = a => stage'[x] \notin {"below", "retry"}
      <3>1. /\ drops /\ pendInvTable[a].outsResps \in 1 .. NumUpper
            /\ stage[pendInvTable[a].r] = "locked"
            /\ ~inSet(set, a)
            /\ \A x \in Requests : rline[x] = a => stage[x] \notin {"below", "retry"}
        BY <1>1, <2>2 DEF Dropping
      <3>2. pendInvTable[a].r \in Requests
        BY <2>2 DEF CacheTyped, pending
      <3>3. ~inSet(set', a)
        BY <3>1
      <3>4. \A x \in Requests : rline'[x] = a => stage'[x] \notin {"below", "retry"}
        BY <2>2, <3>1
      <3> QED BY <3>1, <3>2, <3>3, <3>4 DEF drops
    <2>3. \A a, b \in Lines : pending(a) /\ pendInvTable[a].r = pendInvTable[b].r => a = b
      BY <1>1 DEF Dropping
    <2> QED BY <2>1, <2>2, <2>3 DEF Dropping
  <1> QED BY <1>3, <1>4 DEF Replacing

(* A line is locked under its new tag, the old one to be dropped above.    *)
LEMMA LineLocked ==
  ASSUME CacheTyped, Operations, Replacing, OneEach, NEW r \in Requests,
         stage[r] \in {"below", "retry"}, allocateLocks(r)
  PROVE  /\ Replacing'
         /\ pendInvTable' \in [Lines -> [outsResps: Nat, r: Requests \cup {None}]]
  <1> DEFINE a == rline[r]
             i == findLine2Replace(set, a)
             t == set[i].tag
             m == [[set[i] EXCEPT !.tag = a] EXCEPT !.locked = TRUE]
  <1>1. Locking /\ Dropping /\ WellFormed(set)
    BY DEF Replacing, Locking
  <1>2. \A x \in Requests : stage[x] # "none" => rline[x] \in Lines
    BY DEF Operations
  <1>3. a \in Lines
    BY <1>2
  <1>4. ~inSet(set, a) /\ i # 0 /\ ~useAtOnce(i)
    BY <1>1, Held DEF allocateLocks, WellFormed
  <1>5. i \in 1 .. Len(set) /\ ~set[i].locked /\ set[i] \in Line(Lines)
        /\ (set[i].valid => t \in Lines)
    BY <1>1, <1>3, <1>4, Victim
  <1>6. drops /\ set[i].valid /\ t \in Lines
    BY <1>4, <1>5 DEF useAtOnce, drops
  <1>7. m \in Line(Lines) /\ m.tag = a /\ m.valid /\ m.locked
    BY <1>3, <1>5, <1>6 DEF Line
  <1>8. /\ set' = [fillLine(set, i, a) EXCEPT ![1].locked = TRUE]
        /\ pendInvTable' = [pendInvTable EXCEPT ![t] = [outsResps |-> NumUpper, r |-> r]]
        /\ stage' = [stage EXCEPT ![r] = "locked"] /\ rline' = rline /\ conf' = conf
    BY DEF allocateLocks, setStage, mshr
  <1>9. inSet(set, t) /\ a # t /\ ~locks(set, t)
    <2>1. inSet(set, t)
      BY <1>5 DEF inSet
    <2>2. ~locks(set, t)
      <3> SUFFICES ASSUME NEW j \in 1 .. Len(set), set[j].tag = t, set[j].locked PROVE FALSE
        BY DEF locks
      <3>1. t # NoTag
        BY <1>6, CacheAssumption
      <3>2. j = i
        BY <1>1, <1>5, <3>1 DEF WellFormed
      <3> QED BY <1>5, <3>2
    <2> QED BY <1>4, <2>1, <2>2
  <1> HIDE DEF i, t, m, a
  <1>10. /\ WellFormed(set')
         /\ \A b \in Lines : inSet(set', b) <=> b = a \/ (b # t /\ inSet(set, b))
         /\ \A b \in Lines : locks(set', b) <=> b = a \/ locks(set, b)
    <2>1. IsFront(set, fillLine(set, i, a), i, [set[i] EXCEPT !.tag = a])
      BY <1>1, <1>3, <1>5, FilledFront DEF WellFormed
    <2>2. IsFront(set, set', i, m)
      <3>1. fillLine(set, i, a)[1] = [set[i] EXCEPT !.tag = a]
        BY <2>1 DEF IsFront
      <3>2. set' = [fillLine(set, i, a) EXCEPT ![1] = m]
        BY <1>8, <3>1 DEF m
      <3>3. IsFront(set, [fillLine(set, i, a) EXCEPT ![1] = m], i, m)
        BY <1>1, <1>5, <1>7, <2>1, FrontAs DEF WellFormed
      <3> QED BY <3>2, <3>3
    <2>3. /\ WellFormed(set')
          /\ \A b \in Lines : inSet(set', b) <=> b = a \/ (b # set[i].tag /\ inSet(set, b))
          /\ \A b \in Lines : locks(set', b)
               <=> IF b = a THEN m.locked ELSE b # set[i].tag /\ locks(set, b)
      BY <1>1, <1>3, <1>4, <1>5, <1>7, <2>2, Filled
    <2>4. \A b \in Lines : locks(set, b) => b # a /\ b # t
      BY <1>4, <1>9, LockedIsIn
    <2> QED BY <1>7, <2>3, <2>4 DEF t
  <1>11. /\ stage'[r] = "locked" /\ \A x \in Requests : x # r => stage'[x] = stage[x]
    BY <1>8 DEF CacheTyped
  <1>12. /\ pendInvTable'[t] = [outsResps |-> NumUpper, r |-> r]
         /\ \A b \in Lines : b # t => pendInvTable'[b] = pendInvTable[b]
         /\ pendInvTable' \in [Lines -> [outsResps: Nat, r: Requests \cup {None}]]
    BY <1>6, <1>8, CacheAssumption DEF CacheTyped
  <1>13. stage[r] \in Below /\ stage[r] \notin Holding /\ stage[r] # "locked"
    BY DEF Below, Holding
  <1>14. Locking'
    <2>1. ASSUME NEW x \in Requests, stage'[x] \in Holding
          PROVE  drops' /\ locks(set', rline'[x])
      <3>1. CASE x = r
        BY <1>3, <1>6, <1>8, <1>10, <3>1 DEF drops, a
      <3>2. CASE x # r
        <4>1. stage[x] \in Holding
          BY <1>11, <2>1, <3>2
        <4>2. drops /\ locks(set, rline[x]) /\ rline[x] \in Lines
          BY <1>1, <1>2, <4>1 DEF Locking, Holding
        <4> QED BY <1>8, <1>10, <4>2 DEF drops
      <3> QED BY <3>1, <3>2
    <2>2. \A x \in Requests : x # r /\ stage'[x] \in Holding => rline[x] # a /\ stage[x] \in Holding
      BY <1>1, <1>4, <1>11, LockedIsIn DEF Locking
    <2>3. ASSUME NEW x \in Requests, NEW y \in Requests, stage'[x] \in Holding,
                 stage'[y] \in Holding, rline'[x] = rline'[y]
          PROVE  x = y
      <3>1. CASE x = r \/ y = r
        BY <1>8, <2>2, <2>3, <3>1 DEF a
      <3>2. CASE x # r /\ y # r
        BY <1>1, <1>8, <2>2, <2>3, <3>2 DEF Locking
      <3> QED BY <3>1, <3>2
    <2>4. ASSUME NEW b \in Lines, locks(set', b)
          PROVE  \E x \in Requests : stage'[x] \in Holding /\ rline'[x] = b
      <3>1. CASE b = a
        BY <1>8, <1>11, <3>1 DEF a, Holding
      <3>2. CASE b # a
        <4>1. PICK x \in Requests : stage[x] \in Holding /\ rline[x] = b
          BY <1>1, <1>10, <2>4, <3>2 DEF Locking
        <4> QED BY <1>8, <1>11, <1>13, <4>1
      <3> QED BY <3>1, <3>2
    <2>5. ASSUME NEW x \in Requests, stage'[x] \in Below PROVE ~inSet(set', rline'[x])
      <3>1. x # r /\ stage[x] \in Below
        BY <1>11, <2>5 DEF Below
      <3>2. ~inSet(set, rline[x]) /\ rline[x] \in Lines
        BY <1>1, <1>2, <1>6, <3>1 DEF Locking, Below
      <3>3. rline[x] # a
        BY <1>6, <1>13, <3>1 DEF OneEach, a
      <3> QED BY <1>8, <1>10, <3>2, <3>3
    <2> QED BY <1>10, <2>1, <2>3, <2>4, <2>5 DEF Locking
  <1>15. Dropping'
    <2>1. ASSUME NEW b \in Lines, pending(b)'
          PROVE  /\ drops' /\ pendInvTable'[b].outsResps \in 1 .. NumUpper
                 /\ stage'[pendInvTable'[b].r] = "locked"
                 /\ ~inSet(set', b)
                 /\ \A x \in Requests : rline'[x] = b => stage'[x] \notin {"below", "retry"}
                 /\ b # t => pendInvTable'[b].r # r /\ pending(b)
      <3>1. drops'
        BY <1>6, <1>8 DEF drops
      <3>2. CASE b = t
        <4>1. \A x \in Requests : rline[x] = t => stage[x] \notin Below
          BY <1>1, <1>6, <1>9 DEF Locking
        <4>2. \A x \in Requests : rline'[x] = b => stage'[x] \notin {"below", "retry"}
          BY <1>8, <1>11, <3>2, <4>1 DEF Below
        <4>3. ~inSet(set', b)
          BY <1>6, <1>9, <1>10, <3>2
        <4>4. pendInvTable'[b].outsResps \in 1 .. NumUpper /\ pendInvTable'[b].r = r
          BY <1>12, <3>2, CacheAssumption
        <4> QED BY <1>11, <3>1, <3>2, <4>2, <4>3, <4>4
      <3>3. CASE b # t
        <4>1. pendInvTable'[b] = pendInvTable[b] /\ pending(b)
          BY <1>12, <2>1, <3>3 DEF pending
        <4>2. /\ pendInvTable[b].outsResps \in 1 .. NumUpper
              /\ stage[pendInvTable[b].r] = "locked"
              /\ ~inSet(set, b)
              /\ \A x \in Requests : rline[x] = b => stage[x] \notin {"below", "retry"}
          BY <1>1, <4>1 DEF Dropping
        <4>3. pendInvTable[b].r \in Requests /\ pendInvTable[b].r # r
          BY <1>13, <4>1, <4>2 DEF CacheTyped, pending
        <4>4. b # a
          BY <4>2 DEF a
        <4>5. \A x \in Requests : rline'[x] = b => stage'[x] \notin {"below", "retry"}
          BY <1>8, <1>11, <4>2
        <4> QED BY <1>10, <1>11, <3>1, <4>1, <4>2, <4>3, <4>4, <4>5
      <3> QED BY <3>2, <3>3
    <2>2. ASSUME NEW b \in Lines, NEW c \in Lines, pending(b)',
                 pendInvTable'[b].r = pendInvTable'[c].r
          PROVE  b = c
      <3>1. pending(c)'
        BY <2>2 DEF pending
      <3>2. CASE b = t \/ c = t
        <4>1. pendInvTable'[t].r = r
          BY <1>12
        <4> QED BY <2>1, <2>2, <3>1, <3>2, <4>1
      <3>3. CASE b # t /\ c # t
        BY <1>1, <1>12, <2>1, <2>2, <3>3 DEF Dropping
      <3> QED BY <3>2, <3>3
    <2> QED BY <2>1, <2>2 DEF Dropping
  <1> QED BY <1>12, <1>14, <1>15 DEF Replacing

(* A cache above has dropped a line.                                       *)
LEMMA LineDropped ==
  ASSUME CacheTyped, Operations, Replacing, NEW a \in Lines, doInvalidate(a)
  PROVE  /\ Replacing' /\ set' = set /\ conf' = conf
         /\ pendInvTable' \in [Lines -> [outsResps: Nat, r: Requests \cup {None}]]
         /\ stage' \in [Requests -> Stage]
         /\ \A x \in Requests :
              \/ stage'[x] = stage[x]
              \/ stage[x] = "locked" /\ stage'[x] = "allocated"
              \/ stage[x] = "late" /\ stage'[x] = "below"
  <1> DEFINE e == pendInvTable[a]
             last == e.outsResps = 1
             ends == last /\ \A b \in Lines \ {a} : ~pending(b)
  <1>1. Locking /\ Dropping /\ WellFormed(set)
    BY DEF Replacing, Locking
  <1>2. pending(a) /\ rline' = rline /\ conf' = conf
    BY DEF doInvalidate, mshr
  <1>3. /\ drops /\ e.outsResps \in 1 .. NumUpper /\ e.r \in Requests
        /\ stage[e.r] = "locked" /\ ~inSet(set, a)
    BY <1>1, <1>2 DEF Dropping, CacheTyped, pending
  <1>4. set' = set
    BY <1>1, <1>3, Held DEF doInvalidate, WellFormed
  <1>5. /\ pendInvTable'[a] = IF last THEN [outsResps |-> 0, r |-> None]
                              ELSE [e EXCEPT !.outsResps = @ - 1]
        /\ \A b \in Lines : b # a => pendInvTable'[b] = pendInvTable[b]
        /\ DOMAIN pendInvTable' = Lines
        /\ pendInvTable' = [b \in Lines |-> pendInvTable'[b]]
    <2>1. pendInvTable \in [Lines -> [outsResps: Nat, r: Requests \cup {None}]]
      BY DEF CacheTyped
    <2> DEFINE new == IF last THEN [outsResps |-> 0, r |-> None]
                      ELSE [e EXCEPT !.outsResps = @ - 1]
    <2>2. pendInvTable' = [pendInvTable EXCEPT ![a] = new]
      BY DEF doInvalidate
    <2> HIDE DEF new
    <2>3. /\ pendInvTable'[a] = new /\ DOMAIN pendInvTable' = Lines
          /\ \A b \in Lines : b # a => pendInvTable'[b] = pendInvTable[b]
          /\ pendInvTable' = [b \in Lines |-> pendInvTable'[b]]
      BY <2>1, <2>2
    <2> QED BY <2>3 DEF new
  <1>6. \A x \in Requests : stage'[x] =
          IF last /\ x = e.r THEN "allocated"
          ELSE IF ends /\ stage[x] = "late" THEN "below" ELSE stage[x]
    BY DEF doInvalidate
  <1>7. stage' \in [Requests -> Stage]
    BY DEF doInvalidate, Stage, CacheTyped
  <1>8. e \in [outsResps: Nat, r: Requests \cup {None}] /\ NumUpper \in Nat
    BY CacheAssumption DEF CacheTyped
  <1>9. /\ last => pendInvTable'[a].r = None /\ pendInvTable'[a].outsResps = 0
        /\ ~last => /\ pendInvTable'[a].r = e.r
                    /\ pendInvTable'[a].outsResps \in 1 .. NumUpper
        /\ pendInvTable'[a] \in [outsResps: Nat, r: Requests \cup {None}]
    BY <1>3, <1>5, <1>8
  <1>10. pendInvTable' \in [Lines -> [outsResps: Nat, r: Requests \cup {None}]]
    <2>1. \A b \in Lines : pendInvTable'[b] \in [outsResps: Nat, r: Requests \cup {None}]
      BY <1>5, <1>9 DEF CacheTyped
    <2> QED BY <1>5, <2>1
  <1> HIDE DEF e, last, ends
  <1>11. \A x \in Requests :
              \/ stage'[x] = stage[x]
              \/ stage[x] = "locked" /\ stage'[x] = "allocated"
              \/ stage[x] = "late" /\ stage'[x] = "below"
    BY <1>3, <1>6
  <1>12. Locking'
    <2>1. \A x \in Requests : /\ stage'[x] \in Holding <=> stage[x] \in Holding
                              /\ stage'[x] \in Below <=> stage[x] \in Below
      BY <1>11 DEF Holding, Below
    <2> QED BY <1>1, <1>2, <1>4, <2>1 DEF Locking, drops
  <1>13. Dropping'
    <2>1. ASSUME NEW b \in Lines, pending(b)'
          PROVE  /\ drops' /\ pendInvTable'[b].outsResps \in 1 .. NumUpper
                 /\ stage'[pendInvTable'[b].r] = "locked"
                 /\ ~inSet(set', b)
                 /\ \A x \in Requests : rline'[x] = b => stage'[x] \notin {"below", "retry"}
                 /\ pendInvTable'[b].r = pendInvTable[b].r /\ pending(b)
      <3>1. pending(b) /\ pendInvTable'[b].r = pendInvTable[b].r
            /\ pendInvTable'[b].outsResps \in 1 .. NumUpper /\ (b = a => ~last)
        <4>1. CASE b = a
          BY <1>2, <1>9, <2>1, <4>1 DEF pending, e
        <4>2. CASE b # a
          BY <1>1, <1>5, <2>1, <4>2 DEF pending, Dropping
        <4> QED BY <4>1, <4>2
      <3>2. /\ stage[pendInvTable[b].r] = "locked" /\ pendInvTable[b].r \in Requests
            /\ ~inSet(set, b)
            /\ \A x \in Requests : rline[x] = b => stage[x] \notin {"below", "retry"}
        BY <1>1, <3>1 DEF Dropping, CacheTyped, pending
      <3>3. ~ends
        BY <3>1 DEF ends
      <3>4. last => pendInvTable[b].r # e.r
        BY <1>1, <3>1 DEF Dropping, e
      <3>5. stage'[pendInvTable[b].r] = "locked"
        BY <1>6, <3>2, <3>3, <3>4
      <3>6. \A x \in Requests : rline[x] = b => stage'[x] \notin {"below", "retry"}
        BY <1>6, <3>2, <3>3
      <3> QED BY <1>2, <1>3, <1>4, <3>1, <3>2, <3>5, <3>6 DEF drops
    <2>2. ASSUME NEW b \in Lines, NEW c \in Lines, pending(b)',
                 pendInvTable'[b].r = pendInvTable'[c].r
          PROVE  b = c
      <3>1. pending(c)'
        BY <2>2 DEF pending
      <3>2. pendInvTable[b].r = pendInvTable[c].r /\ pending(b)
        BY <2>1, <2>2, <3>1
      <3> QED BY <1>1, <3>2 DEF Dropping
    <2> QED BY <2>1, <2>2 DEF Dropping
  <1> QED BY <1>2, <1>4, <1>7, <1>10, <1>11, <1>12, <1>13 DEF Replacing
-----------------------------------------------------------------------------
(***************************************************************************)
(* The steps of the cache                                                  *)
(***************************************************************************)
(* doReturnAccess, on the set: the line is valid, and unlocked.            *)
LEMMA LineReturns ==
  ASSUME NEW r \in Requests, NEW w, doReturnAccess(r, w), WellFormed(w),
         rline[r] \in Lines, inSet(w, rline[r])
  PROVE  /\ WellFormed(set')
         /\ \A b \in Lines : inSet(set', b) <=> inSet(w, b)
         /\ \A b \in Lines : locks(set', b) <=> b # rline[r] /\ locks(w, b)
  <1> DEFINE a == rline[r]
             f == findLineTag(w, a)
             d == conf.writeBack /\ memOp[r] # "MemRead"
             m == [validate(f[1]) EXCEPT !.dirty = validate(f[1]).dirty \/ d]
  <1>1. f[1] \in Line(Lines) /\ f[1].tag = a /\ f[1].valid
    BY Found
  <1>2. m \in Line(Lines) /\ m.tag = a /\ m.valid /\ ~m.locked
    BY <1>1 DEF validate, Line
  <1>3. set' = [f EXCEPT ![1] = m]
    BY DEF doReturnAccess
  <1> HIDE DEF m
  <1>4. /\ WellFormed([findLineTag(w, a) EXCEPT ![1] = m])
        /\ \A b \in Lines : inSet([findLineTag(w, a) EXCEPT ![1] = m], b) <=> inSet(w, b)
        /\ \A b \in Lines : locks([findLineTag(w, a) EXCEPT ![1] = m], b)
             <=> IF b = a THEN m.locked ELSE locks(w, b)
    BY <1>2, Rewritten
  <1> QED BY <1>2, <1>3, <1>4

(* And on the requests.                                                    *)
LEMMA AccessReturns ==
  ASSUME IInv, CacheTyped, Requesting, Writes, NEW r \in Requests, NEW w,
         doReturnAccess(r, w), UNCHANGED <<conf, pendInvTable>>, stack = <<>>, stage[r] # "none"
  PROVE  /\ IInv' /\ CacheTyped' /\ Requesting' /\ Writes' /\ stage'[r] = "none"
         /\ \A x \in Requests : x # r => stage'[x] = stage[x] /\ rline'[x] = rline[x]
  <1>1. /\ stage' = [stage EXCEPT ![r] = "none"] /\ memOp' = [memOp EXCEPT ![r] = "MemRead"]
        /\ goUp(r)
    BY DEF doReturnAccess, goUp, setStage
  <1>2. /\ stage'[r] = "none" /\ memOp'[r] = "MemRead"
        /\ \A x \in Requests : x # r => stage'[x] = stage[x] /\ memOp'[x] = memOp[x]
        /\ stage' \in [Requests -> Stage] /\ memOp' \in [Requests -> MemOp]
    BY <1>1 DEF CacheTyped, Stage, MemOp
  <1>3. rline[r] \in Lines /\ Operations
    BY DEF Requesting, Operations
  <1>4. CASE memOp[r] = "MemPush"
    <2>1. destroy(r) /\ UNCHANGED <<ms, entry, nFreeEntries, nFullReadEntries,
            nFullWriteEntries, overflow, checkingOverflow, pc, stack, nWrites, wbuff, pendingWrites>>
      BY <1>4 DEF doReturnAccess
    <2>2. /\ rline' \in [Requests -> Lines \cup {None}] /\ rop' \in [Requests -> Op]
          /\ \A x \in Requests : x # r => rline'[x] = rline[x]
      BY <2>1 DEF destroy, IInv, TypeOK, Op
    <2>3. pc[r] = "idle"
      BY <1>3, <1>4 DEF Operations
    <2>4. IInv'
      BY <2>1, <2>2, <2>3, IdleFree
    <2>5. Requesting'
      BY <1>1, <1>4, <2>1, <2>2, PushAnswered
    <2>6. Writes'
      BY <1>2, <1>4, <2>1, <2>2, WritesStay DEF writing
    <2>7. CacheTyped'
      BY <1>2, <2>1 DEF CacheTyped
    <2> QED BY <1>2, <2>2, <2>4, <2>5, <2>6, <2>7
  <1>5. CASE memOp[r] # "MemPush"
    <2>1. /\ retire(r)
          /\ IF memOp[r] # "MemRead" THEN wbuffRemove(rline[r])
                                     ELSE UNCHANGED <<wbuff, pendingWrites>>
      BY <1>5 DEF doReturnAccess
    <2>2. IInv' /\ \A x \in Requests : x # r => rline'[x] = rline[x]
      BY <2>1, Retired
    <2>3. Requesting'
      BY <1>1, <2>1, RequestAnswered
    <2>4. CacheTyped'
      <3>1. wbuff' \in [Lines -> Nat] /\ pendingWrites' \in Int
        BY <1>3, <2>1, WBuffTyped DEF CacheTyped
      <3> QED BY <1>2, <3>1 DEF CacheTyped
    <2>5. \A x \in Requests : x # r => /\ writing(x)' <=> writing(x)
                                       /\ writing(x) => rline'[x] = rline[x]
      BY <1>2, <2>2 DEF writing
    <2>6. ~writing(r)'
      BY <1>2 DEF writing
    <2>7. CASE memOp[r] = "MemWrite"
      <3>1. writing(r) /\ wbuffRemove(rline[r])
        BY <2>1, <2>7 DEF writing
      <3>2. Writes'
        BY <1>3, <2>5, <2>6, <3>1, WriteGoes
      <3> QED BY <1>2, <2>2, <2>3, <2>4, <3>2
    <2>8. CASE memOp[r] # "MemWrite"
      <3>1. ~writing(r)
        BY <2>8 DEF writing
      <3>2. \A x \in Requests : /\ writing(x)' <=> writing(x)
                                /\ writing(x) => rline'[x] = rline[x]
        BY <2>5, <2>6, <3>1
      <3>3. CASE ~conf.doWBFwd
        BY <1>2, <2>2, <2>3, <2>4, <3>3 DEF Writes
      <3>4. CASE conf.doWBFwd
        <4>1. wbuff' = wbuff /\ pendingWrites' = pendingWrites
          <5>1. CASE memOp[r] = "MemRead"
            BY <2>1, <5>1
          <5>2. CASE memOp[r] # "MemRead"
            <6>1. memOp[r] = "MemReadW"
              BY <1>5, <2>8, <5>2 DEF CacheTyped, MemOp
            <6>2. wbuff[rline[r]] = 0
              BY <1>3, <3>4, <6>1, NoWritesBelow DEF Operations
            <6> QED BY <2>1, <5>2, <6>2 DEF wbuffRemove
          <5> QED BY <5>1, <5>2
        <4>2. Writes'
          BY <3>2, <4>1, WritesStay
        <4> QED BY <1>2, <2>2, <2>3, <2>4, <4>2
      <3> QED BY <3>3, <3>4
    <2> QED BY <2>7, <2>8
  <1> QED BY <1>4, <1>5

(* The parts of the invariant.                                             *)
LEMMA CParts == CInv <=> IInv /\ CacheTyped /\ Requesting /\ Replacing /\ Writes
  BY DEF CInv, Requesting, Replacing

(* The parts of the invariant make it up after a step.                     *)
LEMMA CPartsNext ==
  ASSUME IInv', CacheTyped', Requesting', Replacing', Writes' PROVE CInv'
  BY DEF CInv, Requesting, Replacing

(* Only the set changes.                                                   *)
LEMMA SetChanges ==
  ASSUME CInv, UNCHANGED <<mshr, conf, memOp, stage, wbuff, pendingWrites, pendInvTable>>,
         WellFormed(set'), \A b \in Lines : inSet(set', b) => inSet(set, b),
         \A b \in Lines : locks(set', b) <=> locks(set, b)
  PROVE  CInv'
  <1>1. IInv /\ CacheTyped /\ Requesting /\ Replacing /\ Writes
    BY CParts
  <1>2. IInv'
    BY <1>1, MshrSame
  <1>3. CacheTyped'
    BY <1>1 DEF CacheTyped
  <1>4. rline' = rline /\ pc' = pc /\ stack' = stack
    BY DEF mshr
  <1>5. Requesting'
    BY <1>1, <1>4 DEF Requesting, Operations, Calls, MissesOwnLines, calledBack, Top
  <1>6. Replacing'
    BY <1>1, <1>4, LinesKept DEF Requesting
  <1>7. Writes'
    BY <1>1, <1>4, WritesStay DEF writing
  <1> QED BY <1>2, <1>3, <1>5, <1>6, <1>7, CPartsNext

(* Hits and invalidations that find the line keep the invariant.           *)
LEMMA HitsStep == ASSUME CInv, Hits PROVE CInv'
  <1>1. PICK a \in Lines : readHit(a) \/ writeHit(a) \/ pushHit(a) \/ invalidate(a)
    BY DEF Hits
  <1>2. UNCHANGED <<mshr, conf, memOp, stage, wbuff, pendingWrites, pendInvTable>>
    BY <1>1 DEF readHit, writeHit, pushHit, invalidate
  <1>3. Locking /\ WellFormed(set) /\ Operations
    BY DEF CInv, Locking
  <1>4. inSet(set, a)
    BY <1>1, <1>3, Held DEF readHit, writeHit, pushHit, invalidate, WellFormed
  <1> DEFINE f == findLineTag(set, a)
  <1>5. /\ f[1] \in Line(Lines) /\ f[1].tag = a /\ f[1].valid
        /\ f[1].locked <=> locks(set, a)
        /\ WellFormed(f)
        /\ \A b \in Lines : (inSet(f, b) <=> inSet(set, b)) /\ (locks(f, b) <=> locks(set, b))
    BY <1>3, <1>4, Found
  <1>6. CASE readHit(a)
    <2>1. set' = f
      BY <1>6 DEF readHit
    <2> QED BY <1>2, <1>5, <2>1, SetChanges
  <1>7. CASE writeHit(a) \/ pushHit(a)
    <2>1. PICK m \in Line(Lines) : /\ m.tag = a /\ m.valid /\ (m.locked <=> locks(set, a))
                                   /\ set' = [f EXCEPT ![1] = m]
      <3>1. CASE writeHit(a)
        <4> DEFINE m == [f[1] EXCEPT !.dirty = TRUE]
        <4>1. set' = [f EXCEPT ![1] = m]
          BY <3>1 DEF writeHit
        <4>2. m \in Line(Lines) /\ m.tag = a /\ m.valid /\ (m.locked <=> locks(set, a))
          BY <1>5 DEF Line
        <4> QED BY <4>1, <4>2
      <3>2. CASE pushHit(a)
        <4> DEFINE m == [validate(f[1]) EXCEPT !.dirty = TRUE]
        <4>1. set' = [f EXCEPT ![1] = m]
          BY <3>2 DEF pushHit
        <4>2. m \in Line(Lines) /\ m.tag = a /\ m.valid /\ ~m.locked
          BY <1>5 DEF Line, validate
        <4>3. ~locks(set, a)
          <5>1. PICK i \in 1 .. Len(set) : /\ set[i].locked <=> locks(set, a)
                                          /\ i = CHOOSE j \in ways(set, a) : TRUE
            BY <1>3, <1>4, Chosen
          <5>2. lineOf(set, a) = set[i]
            BY <5>1 DEF lineOf
          <5>3. ~lineOf(set, a).locked
            BY <3>2 DEF pushHit, isLocked
          <5> QED BY <5>1, <5>2, <5>3
        <4> QED BY <4>1, <4>2, <4>3
      <3> QED BY <1>7, <3>1, <3>2
    <2>2. /\ WellFormed([findLineTag(set, a) EXCEPT ![1] = m])
          /\ \A b \in Lines : inSet([findLineTag(set, a) EXCEPT ![1] = m], b) <=> inSet(set, b)
          /\ \A b \in Lines : locks([findLineTag(set, a) EXCEPT ![1] = m], b)
               <=> IF b = a THEN m.locked ELSE locks(set, b)
      BY <1>3, <1>4, <2>1, Rewritten
    <2>3. /\ WellFormed(set') /\ \A b \in Lines : inSet(set', b) => inSet(set, b)
          /\ \A b \in Lines : locks(set', b) <=> locks(set, b)
      BY <2>1, <2>2
    <2> QED BY <1>2, <2>3, SetChanges
  <1>8. CASE invalidate(a)
    <2>1. set' = [findLineTag(set, a) EXCEPT ![1] = invalid] /\ ~drops
      BY <1>8 DEF invalidate, drops
    <2>2. /\ WellFormed([findLineTag(set, a) EXCEPT ![1] = invalid])
          /\ \A b \in Lines : inSet([findLineTag(set, a) EXCEPT ![1] = invalid], b)
               <=> b # a /\ inSet(set, b)
          /\ \A b \in Lines : locks([findLineTag(set, a) EXCEPT ![1] = invalid], b)
               <=> b # a /\ locks(set, b)
      BY <1>3, <1>4, Cleared
    <2>3. \A b \in Lines : ~locks(set, b)
      BY <1>3, <2>1 DEF Locking
    <2> QED BY <1>2, <2>1, <2>2, <2>3, SetChanges
  <1> QED BY <1>1, <1>6, <1>7, <1>8

(* A request comes, with operation op, and waits at s.                     *)
LEMMA Comes ==
  ASSUME CInv, NEW r \in Requests, NEW a \in Lines, NEW op \in MemOp,
         NEW s \in {"below", "late"} \cup Queueing,
         accepts(r), IInv', arrived(r, a), fits(op, s), UNCHANGED <<conf, pendInvTable>>,
         stage' = [stage EXCEPT ![r] = s], memOp' = [memOp EXCEPT ![r] = op],
         IF op = "MemPush" THEN s \in Below /\ pc'[r] = "idle"
         ELSE IF s \in Below THEN pc'[r] = "owner" ELSE pc'[r] \in {"queued", "overflow"},
         s = "below" => \A b \in Lines : ~pending(b),
         IF op = "MemWrite" THEN wbuffAdd(a) ELSE UNCHANGED <<wbuff, pendingWrites>>,
         drops => ~inSet(set, a),
         WellFormed(set'),
         \A b \in Lines : (inSet(set', b) <=> inSet(set, b)) /\ (locks(set', b) <=> locks(set, b))
  PROVE  CInv'
  <1>1. IInv /\ CacheTyped /\ Requesting /\ Replacing /\ Writes
    BY CParts
  <1>2. /\ stage[r] = "none" /\ stage'[r] = s /\ memOp'[r] = op /\ rline'[r] = a
        /\ s # "none" /\ s \notin Holding /\ s # "retry"
        /\ \A x \in Requests : x # r => /\ stage'[x] = stage[x] /\ memOp'[x] = memOp[x]
                                        /\ rline'[x] = rline[x]
    BY <1>1 DEF CacheTyped, accepts, arrived, Queueing, Holding
  <1>3. Requesting'
    BY <1>1, RequestComes
  <1>4. CacheTyped'
    <2>1. s \in Stage
      BY DEF Stage, Queueing
    <2>2. wbuff' \in [Lines -> Nat] /\ pendingWrites' \in Int
      BY <1>1, WBuffTyped DEF CacheTyped
    <2> QED BY <1>1, <2>1, <2>2 DEF CacheTyped
  <1>5. Replacing'
    <2>1. OneEach /\ Operations
      BY <1>1, OneForLine DEF Requesting
    <2>2. stage[r] \notin Holding /\ stage[r] # "locked"
      BY <1>2 DEF Holding
    <2>3. /\ stage'[r] \in Below => rline'[r] \in Lines /\ (drops => ~inSet(set', rline'[r]))
          /\ (\E b \in Lines : pending(b)) =>
               /\ stage'[r] # "below"
               /\ stage'[r] = "retry" => stage[r] = "below" /\ rline'[r] = rline[r]
      BY <1>2
    <2> QED BY <1>1, <1>2, <2>1, <2>2, <2>3, LinesOfOthers
  <1>6. Writes'
    <2>1. /\ ~writing(r)
          /\ \A x \in Requests : x # r => /\ writing(x)' <=> writing(x)
                                          /\ writing(x) => rline'[x] = rline[x]
      BY <1>2 DEF writing
    <2>2. CASE op = "MemWrite"
      <3>1. writing(r)'
        BY <1>2, <2>2 DEF writing
      <3>2. wbuffAdd(a) /\ conf' = conf /\ rline'[r] = a
        BY <1>2, <2>2
      <3> QED BY <1>1, <2>1, <3>1, <3>2, WriteComes
    <2>3. CASE op # "MemWrite"
      <3>1. ~writing(r)'
        BY <1>2, <2>3 DEF writing
      <3>2. UNCHANGED <<conf, wbuff, pendingWrites>>
        BY <2>3
      <3>3. \A x \in Requests : /\ writing(x)' <=> writing(x)
                                /\ writing(x) => rline'[x] = rline[x]
        BY <2>1, <3>1
      <3> QED BY <1>1, <3>2, <3>3, WritesStay
    <2> QED BY <2>2, <2>3
  <1> QED BY <1>3, <1>4, <1>5, <1>6, CPartsNext

(* Sent below: late while lines are dropped above.                         *)
LEMMA GoesDown ==
  ASSUME NEW r \in Requests, goDown(r)
  PROVE  \E s \in {"below", "late"} :
           /\ stage' = [stage EXCEPT ![r] = s]
           /\ s = "below" => \A b \in Lines : ~pending(b)
  <1>1. CASE \E b \in Lines : pending(b)
    BY <1>1 DEF goDown, setStage
  <1>2. CASE \A b \in Lines : ~pending(b)
    BY <1>2 DEF goDown, setStage
  <1> QED BY <1>1, <1>2

(* How a request with operation op asks the buffer, with q if it has to    *)
(* wait.                                                                   *)
LEMMA Asks ==
  ASSUME IInv, NEW r \in Requests, NEW a \in Lines, NEW o \in Op, NEW q \in Queueing,
         \/ issue(r, a, o) /\ goDown(r)
         \/ addEntry(r, a, o) /\ setStage(r, q)
         \/ toOverflow(r, a, o) /\ setStage(r, q)
  PROVE  /\ IInv' /\ arrived(r, a)
         /\ \E s \in {"below", "late", q} :
              /\ stage' = [stage EXCEPT ![r] = s]
              /\ s = "below" => \A b \in Lines : ~pending(b)
              /\ IF s \in Below THEN pc'[r] = "owner" ELSE pc'[r] \in {"queued", "overflow"}
  <1>1. /\ IInv' /\ arrived(r, a)
        /\ issue(r, a, o) => pc'[r] = "owner"
        /\ addEntry(r, a, o) \/ toOverflow(r, a, o) => pc'[r] \in {"queued", "overflow"}
    BY Arrived
  <1>2. CASE issue(r, a, o) /\ goDown(r)
    <2>1. PICK s \in {"below", "late"} :
           /\ stage' = [stage EXCEPT ![r] = s]
           /\ s = "below" => \A b \in Lines : ~pending(b)
      BY <1>2, GoesDown
    <2> QED BY <1>1, <1>2, <2>1 DEF Below
  <1>3. CASE /\ addEntry(r, a, o) \/ toOverflow(r, a, o)
             /\ setStage(r, q)
    <2>1. stage' = [stage EXCEPT ![r] = q] /\ q \notin Below /\ q # "below"
      BY <1>3 DEF setStage, Below, Queueing
    <2> QED BY <1>1, <1>3, <2>1
  <1> QED BY <1>2, <1>3

(* Every access that misses or propagates keeps the invariant.             *)
LEMMA AccessesStep == ASSUME CInv, Accesses PROVE CInv'
  <1>0. IInv /\ CacheTyped /\ Requesting /\ Replacing /\ Writes /\ WellFormed(set)
    BY CParts DEF Replacing, Locking
  <1>1. PICK r \in Requests, a \in Lines :
          \/ readMissHandler(r, a, "MemRead")
          \/ ~conf.highest /\ readMissHandler(r, a, "MemReadW")
          \/ writeMissHandler(r, a) \/ writePropagateHandler(r, a) \/ pushMiss(r, a)
    BY DEF Accesses
  <1>2. "waits" \in Queueing /\ "reexec" \in Queueing
    BY DEF Queueing
  <1>3. ASSUME NEW op \in MemOp, missHandler(r, a, op)
        PROVE  /\ accepts(r) /\ ~inSet(set, a) /\ memOp' = [memOp EXCEPT ![r] = op]
               /\ UNCHANGED <<conf, set, pendInvTable>> /\ WellFormed(set')
    <2>1. accepts(r) /\ ~holds(set, a) /\ memOp' = [memOp EXCEPT ![r] = op]
          /\ UNCHANGED <<conf, set, pendInvTable>>
      BY <1>3 DEF missHandler
    <2> QED BY <1>0, <2>1, Held DEF WellFormed
  <1>4. ASSUME NEW op \in {"MemRead", "MemReadW"}, readMissHandler(r, a, op),
               op = "MemReadW" => ~conf.highest
        PROVE  CInv'
    <2>1. /\ missHandler(r, a, op) /\ UNCHANGED <<wbuff, pendingWrites>>
          /\ \/ issue(r, a, "MemRead") /\ goDown(r)
             \/ addEntry(r, a, "MemRead") /\ setStage(r, "waits")
             \/ toOverflow(r, a, "MemRead") /\ setStage(r, "waits")
      BY <1>4 DEF readMissHandler
    <2>2. "MemRead" \in Op /\ op \in MemOp
      BY DEF Op, MemOp
    <2>3. /\ IInv' /\ arrived(r, a)
          /\ \E s \in {"below", "late", "waits"} :
              /\ stage' = [stage EXCEPT ![r] = s]
              /\ s = "below" => \A b \in Lines : ~pending(b)
              /\ IF s \in Below THEN pc'[r] = "owner" ELSE pc'[r] \in {"queued", "overflow"}
      BY <1>0, <1>2, <2>1, <2>2, Asks
    <2>4. PICK s \in {"below", "late", "waits"} :
              /\ stage' = [stage EXCEPT ![r] = s]
              /\ s = "below" => \A b \in Lines : ~pending(b)
              /\ IF s \in Below THEN pc'[r] = "owner" ELSE pc'[r] \in {"queued", "overflow"}
      BY <2>3
    <2>5. fits(op, s) /\ s \in {"below", "late"} \cup Queueing
      BY <1>2, <1>4 DEF fits
    <2>6. op # "MemPush" /\ op # "MemWrite"
      OBVIOUS
    <2>7. /\ accepts(r) /\ ~inSet(set, a) /\ memOp' = [memOp EXCEPT ![r] = op]
          /\ UNCHANGED <<conf, set, pendInvTable>> /\ WellFormed(set')
      BY <1>3, <2>1, <2>2
    <2> QED BY <2>1, <2>2, <2>3, <2>4, <2>5, <2>6, <2>7, Comes
  <1>5. CASE writeMissHandler(r, a)
    <2>1. /\ missHandler(r, a, "MemWrite") /\ wbuffAdd(a) /\ conf.highest
          /\ \/ issue(r, a, "MemWrite") /\ goDown(r)
             \/ addEntry(r, a, "MemWrite") /\ setStage(r, "waits")
             \/ toOverflow(r, a, "MemWrite") /\ setStage(r, "waits")
      BY <1>5 DEF writeMissHandler
    <2>2. "MemWrite" \in Op /\ "MemWrite" \in MemOp
      BY DEF Op, MemOp
    <2>3. /\ IInv' /\ arrived(r, a)
          /\ \E s \in {"below", "late", "waits"} :
              /\ stage' = [stage EXCEPT ![r] = s]
              /\ s = "below" => \A b \in Lines : ~pending(b)
              /\ IF s \in Below THEN pc'[r] = "owner" ELSE pc'[r] \in {"queued", "overflow"}
      BY <1>0, <1>2, <2>1, <2>2, Asks
    <2>4. PICK s \in {"below", "late", "waits"} :
              /\ stage' = [stage EXCEPT ![r] = s]
              /\ s = "below" => \A b \in Lines : ~pending(b)
              /\ IF s \in Below THEN pc'[r] = "owner" ELSE pc'[r] \in {"queued", "overflow"}
      BY <2>3
    <2>5. fits("MemWrite", s) /\ s \in {"below", "late"} \cup Queueing
      BY <1>2, <2>1 DEF fits
    <2>6. /\ accepts(r) /\ ~inSet(set, a) /\ memOp' = [memOp EXCEPT ![r] = "MemWrite"]
          /\ UNCHANGED <<conf, set, pendInvTable>> /\ WellFormed(set')
      BY <1>3, <2>1, <2>2
    <2> QED BY <2>1, <2>2, <2>3, <2>4, <2>5, <2>6, Comes
  <1>6. CASE writePropagateHandler(r, a)
    <2>1. /\ ~conf.writeBack /\ accepts(r) /\ holds(set, a) /\ set' = findLineTag(set, a)
          /\ memOp' = [memOp EXCEPT ![r] = "MemWrite"] /\ wbuffAdd(a)
          /\ \/ issue(r, a, "MemRead") /\ goDown(r)
             \/ addEntry(r, a, "MemRead") /\ setStage(r, "reexec")
             \/ toOverflow(r, a, "MemRead") /\ setStage(r, "reexec")
          /\ UNCHANGED <<conf, pendInvTable>>
      BY <1>6 DEF writePropagateHandler
    <2>2. "MemRead" \in Op /\ "MemWrite" \in MemOp
      BY DEF Op, MemOp
    <2>3. conf.highest /\ ~drops
      BY <1>0, <2>1, CacheAssumption DEF CacheTyped, drops
    <2>4. /\ IInv' /\ arrived(r, a)
          /\ \E s \in {"below", "late", "reexec"} :
              /\ stage' = [stage EXCEPT ![r] = s]
              /\ s = "below" => \A b \in Lines : ~pending(b)
              /\ IF s \in Below THEN pc'[r] = "owner" ELSE pc'[r] \in {"queued", "overflow"}
      BY <1>0, <1>2, <2>1, <2>2, Asks
    <2>5. PICK s \in {"below", "late", "reexec"} :
              /\ stage' = [stage EXCEPT ![r] = s]
              /\ s = "below" => \A b \in Lines : ~pending(b)
              /\ IF s \in Below THEN pc'[r] = "owner" ELSE pc'[r] \in {"queued", "overflow"}
      BY <2>4
    <2>6. fits("MemWrite", s) /\ s \in {"below", "late"} \cup Queueing
      BY <1>2, <2>3 DEF fits
    <2>7. inSet(set, a)
      BY <1>0, <2>1, Held DEF WellFormed
    <2>8. /\ WellFormed(set')
          /\ \A b \in Lines : (inSet(set', b) <=> inSet(set, b)) /\ (locks(set', b) <=> locks(set, b))
      BY <1>0, <2>1, <2>7, Found
    <2> QED BY <2>1, <2>2, <2>3, <2>4, <2>5, <2>6, <2>8, Comes
  <1>7. CASE pushMiss(r, a)
    <2>1. /\ ~conf.highest /\ ~conf.inclusive /\ missHandler(r, a, "MemPush")
          /\ rline' = [rline EXCEPT ![r] = a] /\ goDown(r)
          /\ UNCHANGED <<ms, entry, nFreeEntries, nFullReadEntries, nFullWriteEntries,
                 overflow, checkingOverflow, pc, rop, stack, nWrites, wbuff, pendingWrites>>
      BY <1>7 DEF pushMiss
    <2>2. "MemPush" \in MemOp
      BY DEF MemOp
    <2>3. /\ accepts(r) /\ ~inSet(set, a) /\ memOp' = [memOp EXCEPT ![r] = "MemPush"]
          /\ UNCHANGED <<conf, set, pendInvTable>> /\ WellFormed(set')
      BY <1>3, <2>1, <2>2
    <2>4. TypeOK /\ pc[r] = "idle"
      BY <1>0, <2>3 DEF IInv, accepts
    <2>5. /\ rline' \in [Requests -> Lines \cup {None}] /\ rop' \in [Requests -> Op]
          /\ rline'[r] = a /\ \A x \in Requests : x # r => rline'[x] = rline[x]
      BY <2>1, <2>4 DEF TypeOK
    <2>6. IInv'
      BY <1>0, <2>1, <2>4, <2>5, IdleFree
    <2>7. arrived(r, a)
      BY <2>1, <2>4, <2>5 DEF arrived, Places
    <2>8. PICK s \in {"below", "late"} :
           /\ stage' = [stage EXCEPT ![r] = s]
           /\ s = "below" => \A b \in Lines : ~pending(b)
      BY <2>1, GoesDown
    <2>9. fits("MemPush", s) /\ s \in {"below", "late"} \cup Queueing /\ s \in Below
          /\ pc'[r] = "idle"
      BY <2>1, <2>4 DEF fits, Below
    <2> QED BY <2>1, <2>2, <2>3, <2>6, <2>7, <2>8, <2>9, Comes
  <1> QED BY <1>1, <1>4, <1>5, <1>6, <1>7

(* A request that is called back and answered.                             *)
LEMMA Leaves ==
  ASSUME CInv, NEW r \in Requests, stage[r] \in Queueing, goUp(r), retire(r),
         UNCHANGED <<conf, pendInvTable>>,
         IF memOp[r] = "MemWrite" THEN wbuffRemove(rline[r]) ELSE UNCHANGED <<wbuff, pendingWrites>>,
         WellFormed(set'),
         \A b \in Lines : (inSet(set', b) <=> inSet(set, b)) /\ (locks(set', b) <=> locks(set, b))
  PROVE  CInv'
  <1>1. IInv /\ CacheTyped /\ Requesting /\ Replacing /\ Writes
    BY CParts
  <1>2. /\ stage[r] # "none" /\ stage[r] # "locked" /\ stage[r] \notin Holding
        /\ stage'[r] = "none" /\ memOp'[r] = "MemRead"
        /\ \A x \in Requests : x # r => stage'[x] = stage[x] /\ memOp'[x] = memOp[x]
        /\ stage' \in [Requests -> Stage] /\ memOp' \in [Requests -> MemOp]
    BY <1>1 DEF CacheTyped, goUp, setStage, Queueing, Holding, Stage, MemOp
  <1>3. rline[r] \in Lines /\ Operations
    BY <1>1, <1>2 DEF Requesting, Operations
  <1>4. IInv' /\ \A x \in Requests : x # r => rline'[x] = rline[x]
    BY <1>1, Retired
  <1>5. Requesting'
    BY <1>1, RequestAnswered
  <1>6. CacheTyped'
    <2>1. wbuff' \in [Lines -> Nat] /\ pendingWrites' \in Int
      BY <1>1, <1>3, WBuffTyped DEF CacheTyped
    <2> QED BY <1>1, <1>2, <2>1 DEF CacheTyped
  <1>7. Replacing'
    <2>1. OneEach
      BY <1>1, OneForLine
    <2>2. stage'[r] \notin Holding /\ stage'[r] \notin Below
      BY <1>2 DEF Holding, Below
    <2> QED BY <1>1, <1>2, <1>3, <1>4, <2>1, <2>2, LinesOfOthers
  <1>8. Writes'
    <2>1. /\ ~writing(r)'
          /\ \A x \in Requests : x # r => /\ writing(x)' <=> writing(x)
                                          /\ writing(x) => rline'[x] = rline[x]
      BY <1>2, <1>4 DEF writing
    <2>2. CASE memOp[r] = "MemWrite"
      <3>1. writing(r) /\ wbuffRemove(rline[r]) /\ conf' = conf
        BY <1>2, <2>2 DEF writing
      <3> QED BY <1>1, <1>3, <2>1, <3>1, WriteGoes
    <2>3. CASE memOp[r] # "MemWrite"
      <3>1. UNCHANGED <<conf, wbuff, pendingWrites>>
        BY <2>3
      <3>2. ~writing(r)
        BY <2>3 DEF writing
      <3>3. \A x \in Requests : /\ writing(x)' <=> writing(x)
                                /\ writing(x) => rline'[x] = rline[x]
        BY <2>1, <3>2
      <3> QED BY <1>1, <3>1, <3>3, WritesStay
    <2> QED BY <2>2, <2>3
  <1> QED BY <1>4, <1>5, <1>6, <1>7, <1>8, CPartsNext

(* A request that goes on below.                                           *)
LEMMA Moves ==
  ASSUME CInv, NEW r \in Requests, NEW s \in Below, stage' = [stage EXCEPT ![r] = s],
         UNCHANGED <<mshr, conf, memOp, wbuff, pendingWrites, pendInvTable>>,
         stage[r] \in Queueing \cup Below, pc[r] = "owner" \/ memOp[r] = "MemPush",
         drops => ~inSet(set, rline[r]),
         s = "below" => \A b \in Lines : ~pending(b),
         s = "retry" => stage[r] = "below",
         WellFormed(set'),
         \A b \in Lines : (inSet(set', b) <=> inSet(set, b)) /\ (locks(set', b) <=> locks(set, b))
  PROVE  CInv'
  <1>1. IInv /\ CacheTyped /\ Requesting /\ Replacing /\ Writes
    BY CParts
  <1>2. /\ stage[r] # "none" /\ stage[r] # "locked" /\ stage[r] \notin Holding
        /\ stage'[r] = s /\ s # "none" /\ s \notin Holding /\ s \in Stage
        /\ \A x \in Requests : x # r => stage'[x] = stage[x]
    BY <1>1 DEF CacheTyped, Queueing, Holding, Below, Stage
  <1>3. rline[r] \in Lines /\ Operations
    BY <1>1, <1>2 DEF Requesting, Operations
  <1>4. rline' = rline /\ memOp' = memOp
    BY DEF mshr
  <1>5. IInv'
    BY <1>1, MshrSame
  <1>6. Requesting'
    BY <1>1, <1>2, RequestMoves
  <1>7. CacheTyped'
    BY <1>1, <1>2 DEF CacheTyped
  <1>8. Replacing'
    <2>1. OneEach
      BY <1>1, OneForLine
    <2> QED BY <1>1, <1>2, <1>3, <1>4, <2>1, LinesOfOthers
  <1>9. Writes'
    <2>1. \A x \in Requests : /\ writing(x)' <=> writing(x)
                              /\ writing(x) => rline'[x] = rline[x]
      BY <1>2, <1>4 DEF writing
    <2> QED BY <1>1, <2>1, WritesStay
  <1> QED BY <1>5, <1>6, <1>7, <1>8, <1>9, CPartsNext

(* So does every callback of the buffer, from inside retire too.           *)
LEMMA CallbacksStep ==
  ASSUME CInv, NEW r \in Requests, callbacks(r)
  PROVE  CInv'
  <1>1. IInv /\ CacheTyped /\ Requesting /\ Replacing /\ Writes /\ WellFormed(set)
    BY CParts DEF Replacing, Locking
  <1>2. Top("callback") /\ Head(stack).r = r /\ stage[r] \in Queueing
    BY DEF callbacks, doReadQueued, doWriteQueued, activateOverflow, activateHit, activateMiss,
           reexecuteDoWrite, calledBack, Queueing
  <1>3. pc[r] = "owner" /\ rline[r] \in Lines
    <2>1. Len(stack) \in Nat \ {0} /\ stack[1].call = "callback" /\ Head(stack) = stack[1]
      BY <1>1, <1>2, TopIsFirst DEF IInv
    <2>2. 1 \in 1 .. Len(stack)
      BY <2>1
    <2>3. pc[r] = "owner"
      BY <1>1, <1>2, <2>1, <2>2 DEF Requesting, Calls
    <2> QED BY <1>1, <2>3 DEF IInv, HasLine
  <1> DEFINE a == rline[r]
             f == findLineTag(set, a)
  <1>4. inSet(set, a) <=> holds(set, a)
    BY <1>1, Held DEF WellFormed
  <1>5. inSet(set, a) =>
          /\ f[1] \in Line(Lines) /\ f[1].tag = a /\ f[1].valid
          /\ f[1].locked <=> locks(set, a)
          /\ WellFormed(f)
          /\ \A b \in Lines : (inSet(f, b) <=> inSet(set, b)) /\ (locks(f, b) <=> locks(set, b))
    BY <1>1, <1>3, Found
  <1>6. CASE doReadQueued(r) \/ doWriteQueued(r)
    <2>1. /\ goUp(r) /\ retire(r) /\ UNCHANGED <<conf, pendInvTable>> /\ set' = set
          /\ IF memOp[r] = "MemWrite" THEN wbuffRemove(rline[r])
             ELSE UNCHANGED <<wbuff, pendingWrites>>
      BY <1>6 DEF doReadQueued, doWriteQueued
    <2> QED BY <1>1, <1>2, <2>1, Leaves
  <1>7. CASE activateHit(r)
    <2> DEFINE m == [f[1] EXCEPT !.dirty = f[1].dirty \/ memOp[r] = "MemWrite"]
    <2>1. /\ goUp(r) /\ retire(r) /\ UNCHANGED <<conf, pendInvTable>>
          /\ IF memOp[r] = "MemWrite" THEN wbuffRemove(rline[r])
             ELSE UNCHANGED <<wbuff, pendingWrites>>
          /\ inSet(set, a)
      BY <1>4, <1>7 DEF activateHit
    <2>2. set' = [f EXCEPT ![1] = m]
      BY <1>7 DEF activateHit
    <2>3. m \in Line(Lines) /\ m.tag = a /\ m.valid /\ (m.locked <=> locks(set, a))
      BY <1>5, <2>1 DEF Line
    <2> HIDE DEF m
    <2>4. /\ WellFormed([findLineTag(set, a) EXCEPT ![1] = m])
          /\ \A b \in Lines : inSet([findLineTag(set, a) EXCEPT ![1] = m], b) <=> inSet(set, b)
          /\ \A b \in Lines : locks([findLineTag(set, a) EXCEPT ![1] = m], b)
               <=> IF b = a THEN m.locked ELSE locks(set, b)
      BY <1>1, <1>3, <2>1, <2>3, Rewritten
    <2>5. /\ WellFormed(set')
          /\ \A b \in Lines : (inSet(set', b) <=> inSet(set, b)) /\ (locks(set', b) <=> locks(set, b))
      BY <2>2, <2>3, <2>4
    <2> QED BY <1>2, <2>1, <2>5, Leaves
  <1>8. CASE activateMiss(r) \/ reexecuteDoWrite(r)
    <2>1. UNCHANGED <<mshr, conf, memOp, wbuff, pendingWrites, pendInvTable>> /\ goDown(r)
      BY <1>8 DEF activateMiss, reexecuteDoWrite
    <2>2. /\ WellFormed(set')
          /\ \A b \in Lines : (inSet(set', b) <=> inSet(set, b)) /\ (locks(set', b) <=> locks(set, b))
      <3>1. set' = set \/ (inSet(set, a) /\ set' = f)
        BY <1>4, <1>8 DEF activateMiss, reexecuteDoWrite
      <3> QED BY <1>1, <1>5, <3>1
    <2>3. drops => ~inSet(set, rline[r])
      <3>1. CASE activateMiss(r)
        BY <1>4, <3>1 DEF activateMiss
      <3>2. CASE reexecuteDoWrite(r)
        <4>1. stage[r] = "reexec"
          BY <3>2 DEF reexecuteDoWrite, calledBack
        <4> QED BY <1>1, <4>1 DEF Requesting, Operations, drops
      <3> QED BY <1>8, <3>1, <3>2
    <2>4. PICK s \in {"below", "late"} :
           /\ stage' = [stage EXCEPT ![r] = s]
           /\ s = "below" => \A b \in Lines : ~pending(b)
      BY <2>1, GoesDown
    <2>5. s \in Below /\ s # "retry"
      BY DEF Below
    <2> QED BY <1>2, <1>3, <2>1, <2>2, <2>3, <2>4, <2>5, Moves
  <1> QED BY <1>6, <1>7, <1>8 DEF callbacks, activateOverflow

(* An answer from below, or a line allocated: w has the line of r.         *)
LEMMA Returning ==
  ASSUME CInv, NEW r \in Requests, NEW w, doReturnAccess(r, w), stack = <<>>,
         UNCHANGED <<conf, pendInvTable>>, stage[r] \in {"below", "allocated"},
         WellFormed(w), inSet(w, rline[r]),
         drops => \A b \in Lines : inSet(w, b) =>
                    inSet(set, b) \/ (b = rline[r] /\ stage[r] = "below"),
         \A b \in Lines : b # rline[r] => (locks(w, b) <=> locks(set, b)),
         stage[r] = "below" => ~locks(set, rline[r])
  PROVE  CInv'
  <1>1. IInv /\ CacheTyped /\ Requesting /\ Replacing /\ Writes
    BY CParts
  <1>2. /\ IInv' /\ CacheTyped' /\ Requesting' /\ Writes' /\ stage'[r] = "none"
        /\ \A x \in Requests : x # r => stage'[x] = stage[x] /\ rline'[x] = rline[x]
    BY <1>1, AccessReturns
  <1>3. rline[r] \in Lines /\ Operations
    BY <1>1 DEF Requesting, Operations
  <1>4. /\ WellFormed(set')
        /\ \A b \in Lines : inSet(set', b) <=> inSet(w, b)
        /\ \A b \in Lines : locks(set', b) <=> b # rline[r] /\ locks(w, b)
    BY <1>3, LineReturns
  <1>5. Replacing'
    <2>1. OneEach
      BY <1>1, OneForLine
    <2>2. stage'[r] \notin Holding /\ stage'[r] \notin Below /\ stage[r] # "locked"
          /\ (stage[r] \in Holding <=> stage[r] = "allocated")
      BY <1>2 DEF Holding, Below
    <2>3. drops => \A b \in Lines : inSet(set', b) =>
                    inSet(set, b) \/ (b = rline[r] /\ stage[r] \in {"below", "retry"})
      BY <1>4
    <2>4. \A b \in Lines : locks(set', b) <=>
                            locks(set, b) /\ ~(stage[r] \in Holding /\ b = rline[r])
      BY <1>4, <2>2
    <2> QED BY <1>1, <1>2, <1>3, <1>4, <2>1, <2>2, <2>3, <2>4, LinesOfOthers
  <1> QED BY <1>2, <1>5, CPartsNext

(* A line is locked: the request waits for the caches above.               *)
LEMMA LocksStep ==
  ASSUME CInv, NEW r \in Requests, stage[r] \in {"below", "retry"}, allocateLocks(r)
  PROVE  CInv'
  <1>1. IInv /\ CacheTyped /\ Requesting /\ Replacing /\ Writes
    BY CParts
  <1>2. /\ stage' = [stage EXCEPT ![r] = "locked"] /\ rline' = rline /\ memOp' = memOp
        /\ UNCHANGED <<mshr, conf, memOp, wbuff, pendingWrites>>
    BY DEF allocateLocks, setStage, mshr
  <1>3. /\ Replacing'
        /\ pendInvTable' \in [Lines -> [outsResps: Nat, r: Requests \cup {None}]]
    BY <1>1, OneForLine, LineLocked DEF Requesting
  <1>4. pc[r] = "owner" \/ memOp[r] = "MemPush"
    BY <1>1 DEF Requesting, MissesOwnLines
  <1>5. Requesting'
    <2>1. "locked" \in Below \cup Holding
      BY DEF Holding
    <2> QED BY <1>1, <1>2, <1>4, <2>1, RequestMoves
  <1>6. CacheTyped'
    BY <1>1, <1>2, <1>3 DEF CacheTyped, Stage
  <1>7. Writes'
    <2>1. \A x \in Requests : /\ writing(x)' <=> writing(x)
                              /\ writing(x) => rline'[x] = rline[x]
      BY <1>1, <1>2 DEF writing, CacheTyped
    <2> QED BY <1>1, <1>2, <2>1, WritesStay
  <1>8. IInv'
    BY <1>1, <1>2, MshrSame
  <1> QED BY <1>3, <1>5, <1>6, <1>7, <1>8, CPartsNext

(* So do an answer from below, a retry and the allocation it ends in.      *)
LEMMA AnswersStep ==
  ASSUME CInv, NEW r \in Requests, preReturnAccess(r) \/ doAllocateLineRetry(r) \/ doAllocateLine(r)
  PROVE  CInv'
  <1> DEFINE a == rline[r]
  <1>1. /\ IInv /\ CacheTyped /\ Requesting /\ Replacing /\ Writes
        /\ WellFormed(set) /\ Locking /\ stack = <<>>
        /\ stage[r] \in {"below", "retry", "allocated"}
    BY CParts DEF Replacing, Locking, preReturnAccess, doAllocateLineRetry, doAllocateLine
  <1>2. a \in Lines /\ (pc[r] = "owner" \/ memOp[r] = "MemPush")
    BY <1>1 DEF Requesting, Operations, MissesOwnLines
  <1>3. holds(set, a) <=> inSet(set, a)
    BY <1>1, Held DEF WellFormed
  <1>4. CASE stage[r] = "below" /\ findsLine(r)
    <2>1. inSet(set, a) /\ doReturnAccess(r, set) /\ UNCHANGED <<conf, pendInvTable>>
      BY <1>3, <1>4 DEF findsLine
    <2>2. ~drops
      BY <1>1, <1>4, <2>1 DEF Locking, Below
    <2>3. ~locks(set, a)
      BY <1>1, <1>2, <2>2 DEF Locking
    <2> QED BY <1>1, <1>4, <2>1, <2>2, <2>3, Returning
  <1>5. CASE stage[r] = "below" /\ allocateNow(r)
    <2> DEFINE i == findLine2Replace(set, a)
               l == [set[i] EXCEPT !.tag = a]
               m == [validate(l) EXCEPT !.dirty = FALSE]
               w == [fillLine(set, i, a) EXCEPT ![1] = m]
    <2>1. ~inSet(set, a) /\ i # 0
      BY <1>3, <1>5 DEF allocateNow, useAtOnce
    <2>2. i \in 1 .. Len(set) /\ ~set[i].locked /\ set[i] \in Line(Lines)
      BY <1>1, <1>2, <2>1, Victim
    <2>3. m \in Line(Lines) /\ m.tag = a /\ m.valid /\ ~m.locked
      BY <1>2, <2>2 DEF Line, validate
    <2>4. IsFront(set, fillLine(set, i, a), i, l)
      BY <1>1, <1>2, <2>2, FilledFront DEF WellFormed
    <2>5. doReturnAccess(r, w) /\ UNCHANGED <<conf, pendInvTable>>
      <3>1. fillLine(set, i, a)[1] = l
        BY <2>4 DEF IsFront
      <3>2. w = [fillLine(set, i, a) EXCEPT
                   ![1] = [validate(fillLine(set, i, a)[1]) EXCEPT !.dirty = FALSE]]
        BY <3>1
      <3>3. doReturnAccess(r, [fillLine(set, i, a) EXCEPT
                   ![1] = [validate(fillLine(set, i, a)[1]) EXCEPT !.dirty = FALSE]])
        BY <1>5 DEF allocateNow
      <3>4. UNCHANGED <<conf, pendInvTable>>
        BY <1>5 DEF allocateNow
      <3> QED BY <3>2, <3>3, <3>4
    <2> HIDE DEF i, l, m
    <2>6. IsFront(set, w, i, m)
      BY <1>1, <2>2, <2>3, <2>4, FrontAs DEF WellFormed
    <2> HIDE DEF w
    <2>7. /\ WellFormed(w)
          /\ \A b \in Lines : inSet(w, b) <=> b = a \/ (b # set[i].tag /\ inSet(set, b))
          /\ \A b \in Lines : locks(w, b) <=>
               IF b = a THEN m.locked ELSE b # set[i].tag /\ locks(set, b)
      BY <1>1, <1>2, <2>1, <2>2, <2>3, <2>6, Filled
    <2>8. ~locks(set, a)
      BY <2>1, LockedIsIn
    <2>9. \A b \in Lines : locks(set, b) => b # set[i].tag
      <3> SUFFICES ASSUME NEW b \in Lines, NEW j \in 1 .. Len(set), set[j].tag = b,
                          set[j].locked, b = set[i].tag
                   PROVE  FALSE
        BY DEF locks
      <3>1. b # NoTag
        BY CacheAssumption
      <3>2. j = i
        BY <1>1, <2>2, <3>1 DEF WellFormed
      <3> QED BY <2>2, <3>2
    <2> QED BY <1>1, <1>2, <1>5, <2>5, <2>7, <2>8, <2>9, Returning
  <1>6. CASE stage[r] \in {"below", "retry"} /\ allocateLocks(r)
    BY <1>6, LocksStep
  <1>7. CASE stage[r] = "below" /\ allocateLater(r)
    <2>1. /\ stage' = [stage EXCEPT ![r] = "retry"] /\ ~inSet(set, a)
          /\ UNCHANGED <<mshr, conf, memOp, wbuff, pendingWrites, pendInvTable>> /\ set' = set
      BY <1>3, <1>7 DEF allocateLater, setStage
    <2>2. "retry" \in Below /\ stage[r] \in Queueing \cup Below
      BY <1>7 DEF Below
    <2> QED BY <1>1, <1>2, <1>7, <2>1, <2>2, Moves
  <1>8. CASE stage[r] = "allocated" /\ doAllocateLine(r)
    <2> DEFINE f == findLineTag(set, a)
               m == [f[1] EXCEPT !.dirty = FALSE]
               w == [f EXCEPT ![1] = m]
    <2>1. inSet(set, a) /\ doReturnAccess(r, w) /\ UNCHANGED <<conf, pendInvTable>>
      BY <1>3, <1>8 DEF doAllocateLine
    <2>2. /\ f[1] \in Line(Lines) /\ f[1].tag = a /\ f[1].valid
      BY <1>1, <1>2, <2>1, Found
    <2>3. m \in Line(Lines) /\ m.tag = a /\ m.valid
      BY <2>2 DEF Line
    <2> HIDE DEF m
    <2>4. /\ WellFormed([findLineTag(set, a) EXCEPT ![1] = m])
          /\ \A b \in Lines : inSet([findLineTag(set, a) EXCEPT ![1] = m], b) <=> inSet(set, b)
          /\ \A b \in Lines : locks([findLineTag(set, a) EXCEPT ![1] = m], b)
               <=> IF b = a THEN m.locked ELSE locks(set, b)
      BY <1>1, <1>2, <2>1, <2>3, Rewritten
    <2>5. /\ WellFormed(w) /\ (\A b \in Lines : inSet(w, b) <=> inSet(set, b))
          /\ \A b \in Lines : b # a => (locks(w, b) <=> locks(set, b))
      BY <2>4
    <2> HIDE DEF w
    <2> QED BY <1>1, <1>2, <1>8, <2>1, <2>5, Returning
  <1> QED BY <1>4, <1>5, <1>6, <1>7, <1>8
          DEF preReturnAccess, doAllocateLineRetry, doAllocateLine

(* A cache above has dropped a line.                                       *)
LEMMA DropStep ==
  ASSUME CInv, NEW a \in Lines, doInvalidate(a)
  PROVE  CInv'
  <1>1. IInv /\ CacheTyped /\ Requesting /\ Replacing /\ Writes /\ Operations
    BY CParts DEF Requesting
  <1>2. /\ Replacing' /\ set' = set /\ conf' = conf
        /\ pendInvTable' \in [Lines -> [outsResps: Nat, r: Requests \cup {None}]]
        /\ stage' \in [Requests -> Stage]
        /\ \A x \in Requests :
              \/ stage'[x] = stage[x]
              \/ stage[x] = "locked" /\ stage'[x] = "allocated"
              \/ stage[x] = "late" /\ stage'[x] = "below"
    BY <1>1, LineDropped
  <1>3. UNCHANGED <<mshr, conf, memOp, wbuff, pendingWrites>>
    BY DEF doInvalidate
  <1>4. rline' = rline /\ pc' = pc /\ stack' = stack /\ stack = <<>> /\ memOp' = memOp
    BY <1>3 DEF mshr, doInvalidate
  <1>5. Requesting'
    <2>1. Operations'
      BY <1>1, <1>2, <1>4 DEF Operations
    <2>2. Calls'
      BY <1>4 DEF Calls
    <2>3. \A x \in Requests : ~calledBack(x, stage[x])
      BY <1>4 DEF calledBack, Top
    <2>4. MissesOwnLines'
      BY <1>1, <1>2, <1>4, <2>3 DEF Requesting, MissesOwnLines
    <2> QED BY <2>1, <2>2, <2>4 DEF Requesting
  <1>6. CacheTyped'
    BY <1>1, <1>2, <1>3 DEF CacheTyped
  <1>7. Writes'
    <2>1. \A x \in Requests : /\ writing(x)' <=> writing(x)
                              /\ writing(x) => rline'[x] = rline[x]
      BY <1>2, <1>4 DEF writing
    <2> QED BY <1>1, <1>3, <2>1, WritesStay
  <1>8. IInv'
    BY <1>1, <1>3, MshrSame
  <1> QED BY <1>2, <1>5, <1>6, <1>7, <1>8, CPartsNext

(* So does the buffer's return from its own calls.                         *)
LEMMA BufferStep == ASSUME CInv, bufferReturns PROVE CInv'
  <1>1. IInv /\ CacheTyped /\ Requesting /\ Replacing /\ Writes /\ Operations
    BY CParts DEF Requesting
  <1>2. IInv' /\ rline' = rline
    BY <1>1, Returned DEF bufferReturns
  <1>3. UNCHANGED <<conf, set, memOp, stage, wbuff, pendingWrites, pendInvTable>>
    BY DEF bufferReturns, cacheVars
  <1>4. Requesting'
    BY <1>1, RequestsWait
  <1>5. CacheTyped'
    BY <1>1, <1>3 DEF CacheTyped
  <1>6. Replacing'
    <2>1. WellFormed(set')
      BY <1>1, <1>3 DEF Replacing, Locking
    <2> QED BY <1>1, <1>2, <1>3, <2>1, LinesKept
  <1>7. Writes'
    BY <1>1, <1>2, <1>3, WritesStay DEF writing
  <1> QED BY <1>2, <1>4, <1>5, <1>6, <1>7, CPartsNext
-----------------------------------------------------------------------------
(***************************************************************************)
(* The theorems                                                            *)
(***************************************************************************)
(* A set of n equal ways is a sequence of them.                            *)
LEMMA EqualWays ==
  ASSUME NEW S, NEW e \in S, NEW n \in Nat, NEW w, w = [i \in 1 .. n |-> e]
  PROVE  w \in Seq(S) /\ \A i \in 1 .. Len(w) : w[i] = e
  <1>1. w \in [1 .. n -> S]
    OBVIOUS
  <1>2. w \in Seq(S) /\ Len(w) = n
    BY <1>1
  <1> QED BY <1>2

(* The empty cache satisfies the invariant.                                *)
LEMMA InitCInv == Init /\ CacheInit => CInv
  <1> SUFFICES ASSUME Init, CacheInit PROVE CInv
    OBVIOUS
  <1>1. IInv
    BY InitIInv
  <1>2. conf \in Confs /\ conf.assoc \in Nat \ {0}
    BY CacheAssumption DEF CacheInit, Conf
  <1>3. /\ \A r \in Requests : stage[r] = "none" /\ memOp[r] = "MemRead" /\ pc[r] = "idle"
        /\ \A a \in Lines : ~pending(a) /\ wbuff[a] = 0
        /\ stack = <<>> /\ pendingWrites = 0
    BY DEF Init, CacheInit, pending
  <1>4. CacheTyped
    BY <1>2 DEF CacheInit, CacheTyped, MemOp, Stage
  <1>5. Requesting
    BY <1>3 DEF Requesting, Operations, Calls, MissesOwnLines
  <1>6. WellFormed(set) /\ \A i \in 1 .. Len(set) : ~set[i].locked
    <2>1. /\ invalid \in Line(Lines) /\ invalid.tag = NoTag
          /\ ~invalid.valid /\ ~invalid.locked
      BY DEF invalid, Line
    <2>2. set = [i \in 1 .. conf.assoc |-> invalid]
      BY DEF CacheInit
    <2>3. set \in Seq(Line(Lines)) /\ \A i \in 1 .. Len(set) : set[i] = invalid
      BY <1>2, <2>1, <2>2, EqualWays
    <2> QED BY <2>1, <2>3 DEF WellFormed
  <1>7. Replacing
    BY <1>3, <1>6 DEF Replacing, Locking, Dropping, Holding, Below, locks
  <1>8. Writes
    <2>1. allWrites = {} /\ \A a \in Lines : writesTo(a) = {}
      BY <1>3 DEF allWrites, writesTo, writing
    <2> QED BY <1>3, <2>1, FS_EmptySet DEF Writes
  <1> QED BY <1>1, <1>4, <1>5, <1>7, <1>8, CParts

(* Every step keeps the invariant.                                         *)
LEMMA CNextStep == ASSUME CInv, [CacheNext]_<<vars, cacheVars>> PROVE CInv'
  <1>1. CASE UNCHANGED <<vars, cacheVars>>
    <2>1. /\ UNCHANGED <<mshr, conf, memOp, stage, wbuff, pendingWrites, pendInvTable>>
          /\ set' = set
      BY <1>1 DEF vars, mshr, cacheVars
    <2>2. WellFormed(set)
      BY DEF CInv, Locking
    <2> QED BY <2>1, <2>2, SetChanges
  <1>2. CASE Events
    <2>1. ASSUME NEW r \in Requests, event(r) PROVE CInv'
      BY <2>1, CallbacksStep, AnswersStep DEF event
    <2> QED BY <1>2, <2>1, DropStep, BufferStep DEF Events
  <1> QED BY <1>1, <1>2, HitsStep, AccessesStep DEF CacheNext

(* The invariant of the cache over its buffer.                             *)
THEOREM CacheInvariant == CacheSpec => []CInv
  <1>1. Init /\ CacheInit => CInv
    BY InitCInv
  <1>2. CInv /\ [CacheNext]_<<vars, cacheVars>> => CInv'
    BY CNextStep
  <1> QED BY <1>1, <1>2, PTL DEF CacheSpec

(* The callbacks and answers reach the owner of the line, through nested   *)
(* retire and checkOverflow: a request is below, or allocates, exactly     *)
(* when it owns its line, and the line has no other owner.                 *)
THEOREM AnswersReachOwners == CacheSpec => [](OneOwner /\ MissesOwnLines)
  <1>1. CInv => OneOwner /\ MissesOwnLines
    BY DEF CInv, IInv
  <1> QED BY <1>1, CacheInvariant, PTL

(* The same of the system that TLC runs, whose client is a cache or any    *)
(* other: an entry of the buffer has one owner, and if the client is a     *)
(* cache it is the one request that will retire it.                        *)
THEOREM OneMissAlways == MCSpec => []OneMissPerLine
  <1> DEFINE MInv == (client = "cache" /\ CInv) \/ (client = "any" /\ IInv)
  <1>1. MCInit => MInv
    <2> SUFFICES ASSUME MCInit PROVE MInv
      OBVIOUS
    <2>1. Init /\ CacheInit /\ client \in {"cache", "any"}
      BY DEF MCInit
    <2> QED BY <2>1, InitIInv, InitCInv
  <1>2. MInv /\ [MCNext]_all => MInv'
    <2> SUFFICES ASSUME MInv, [MCNext]_all PROVE MInv'
      OBVIOUS
    <2>1. client' = client
      BY DEF MCNext, Runs, all
    <2>2. CASE client = "cache" /\ CInv
      <3>1. [CacheNext]_<<vars, cacheVars>>
        BY <2>2 DEF MCNext, Arrives, Runs, CacheNext, all
      <3> QED BY <2>1, <2>2, <3>1, CNextStep
    <2>3. CASE client = "any" /\ IInv
      <3>1. [Next]_vars
        BY <2>3 DEF MCNext, Arrives, Runs, Next, all
      <3> QED BY <2>1, <2>3, <3>1, NextStep
    <2> QED BY <2>2, <2>3
  <1>3. MInv => OneMissPerLine
    BY DEF OneMissPerLine, CInv, IInv
  <1> QED BY <1>1, <1>2, <1>3, PTL DEF MCSpec

(* wbuff, which reads are served from, and pendingWrites, which            *)
(* canAcceptStore counts by, have exactly the writes not yet finished.     *)
THEOREM WriteBufferExact == CacheSpec => []WBuffExact
  <1>1. CInv => WBuffExact
    <2> SUFFICES ASSUME CInv PROVE WBuffExact
      OBVIOUS
    <2>1. \A a \in Lines : writesTo(a) =
            {r \in Requests : stage[r] # "none" /\ memOp[r] = "MemWrite" /\ rline[r] = a}
      BY DEF writesTo, writing
    <2>2. allWrites = {r \in Requests : stage[r] # "none" /\ memOp[r] = "MemWrite"}
      BY DEF allWrites, writing
    <2> QED BY <2>1, <2>2 DEF CInv, Writes, WBuffExact
  <1> QED BY <1>1, CacheInvariant, PTL

(* As many locked lines as requests that will unlock one.                  *)
LEMMA LocksCounted ==
  ASSUME CacheTyped, Operations, Locking
  PROVE  Cardinality({i \in DOMAIN set : set[i].locked})
           = Cardinality({r \in Requests : stage[r] \in {"locked", "allocated"}})
  <1> DEFINE S == {r \in Requests : stage[r] \in Holding}
             T == {i \in 1 .. Len(set) : set[i].locked}
             way(r) == CHOOSE i \in 1 .. Len(set) : set[i].tag = rline[r] /\ set[i].locked
             f == [r \in S |-> way(r)]
  <1>1. set \in Seq(Line(Lines)) /\ DOMAIN set = 1 .. Len(set)
    BY DEF Locking, WellFormed
  <1>2. \A r \in S : way(r) \in T /\ set[way(r)].tag = rline[r]
    <2> SUFFICES ASSUME NEW r \in S PROVE way(r) \in T /\ set[way(r)].tag = rline[r]
      OBVIOUS
    <2>1. \E i \in 1 .. Len(set) : set[i].tag = rline[r] /\ set[i].locked
      BY DEF Locking, locks
    <2> QED BY <2>1
  <1>3. f \in [S -> T]
    BY <1>2
  <1>4. \A r, s \in S : f[r] = f[s] => r = s
    <2> SUFFICES ASSUME NEW r \in S, NEW s \in S, f[r] = f[s] PROVE r = s
      OBVIOUS
    <2>1. rline[r] = rline[s]
      BY <1>2
    <2> QED BY <2>1 DEF Locking
  <1>5. \A i \in T : \E r \in S : f[r] = i
    <2> SUFFICES ASSUME NEW i \in T PROVE \E r \in S : f[r] = i
      OBVIOUS
    <2>1. set[i] \in Line(Lines) /\ set[i].tag # NoTag
      BY <1>1, ElementOfSeq DEF Locking, WellFormed
    <2>2. set[i].tag \in Lines /\ locks(set, set[i].tag)
      BY <2>1 DEF Line, locks
    <2>3. PICK r \in Requests : stage[r] \in Holding /\ rline[r] = set[i].tag
      BY <2>2 DEF Locking
    <2>4. r \in S
      BY <2>3
    <2>5. way(r) \in 1 .. Len(set) /\ set[way(r)].tag = set[i].tag
      BY <1>2, <2>3, <2>4
    <2>6. way(r) = i
      <3> HIDE DEF way
      <3> QED BY <2>1, <2>5 DEF Locking, WellFormed
    <2> QED BY <2>4, <2>6
  <1> HIDE DEF f
  <1>6. f \in Bijection(S, T)
    <2>1. f \in Injection(S, T)
      BY <1>3, <1>4 DEF Injection, IsInjective
    <2>2. f \in Surjection(S, T)
      BY <1>3, <1>5 DEF Surjection
    <2> QED BY <2>1, <2>2 DEF Bijection
  <1>7. ExistsBijection(S, T)
    BY <1>6 DEF ExistsBijection
  <1>8. IsFiniteSet(S)
    BY FS_Subset, CacheAssumption
  <1>9. Cardinality(T) = Cardinality(S)
    BY <1>7, <1>8, FS_Bijection
  <1>10. T = {i \in DOMAIN set : set[i].locked}
    BY <1>1
  <1> QED BY <1>9, <1>10 DEF Holding

(* Replacements of one set do not get into each other's lines: a line is   *)
(* in the set once, one that is dropped above is not in it, and each       *)
(* locked line is that of the one request that will unlock it.  The        *)
(* assertions of allocateLine, doAllocateLine and invalidate rely on it.   *)
THEOREM ReplacementsStayApart == CacheSpec => []ReplacementsApart
  <1>1. CInv => ReplacementsApart
    <2> SUFFICES ASSUME CInv PROVE ReplacementsApart
      OBVIOUS
    <2>1. CacheTyped /\ Operations /\ Locking /\ Dropping /\ WellFormed(set)
      BY DEF CInv, Locking
    <2>2. set \in Seq(Line(Lines))
      BY <2>1 DEF WellFormed
    <2>3. ASSUME NEW a \in Lines PROVE Cardinality(ways(set, a)) <= 1
      <3>1. a # NoTag
        BY CacheAssumption
      <3>2. \A i, j \in ways(set, a) : i = j
        BY <2>1, <2>2, <3>1, Held DEF WellFormed
      <3>3. CASE ways(set, a) = {}
        BY <3>3, FS_EmptySet
      <3>4. CASE ways(set, a) # {}
        <4>1. PICK i \in ways(set, a) : TRUE
          BY <3>4
        <4>2. ways(set, a) = {i}
          BY <3>2, <4>1
        <4>3. Cardinality({i}) = 1
          BY FS_Singleton
        <4> QED BY <4>2, <4>3
      <3> QED BY <3>3, <3>4
    <2>4. \A a \in Lines : pending(a) => ~holds(set, a) /\ stage[pendInvTable[a].r] = "locked"
      BY <2>1, <2>2, Held DEF Dropping
    <2>5. ASSUME NEW r \in Requests, stage[r] \in {"locked", "allocated"}
          PROVE  isLocked(rline[r])
      <3>1. locks(set, rline[r]) /\ rline[r] \in Lines
        BY <2>1, <2>5 DEF Locking, Holding, Operations
      <3>2. inSet(set, rline[r])
        BY <3>1, LockedIsIn
      <3>3. PICK i \in 1 .. Len(set) : /\ set[i].locked
                                      /\ i = CHOOSE j \in ways(set, rline[r]) : TRUE
        BY <2>1, <3>1, <3>2, Chosen
      <3>4. lineOf(set, rline[r]) = set[i]
        BY <3>3 DEF lineOf
      <3> QED BY <2>2, <3>2, <3>3, <3>4, Held DEF isLocked
    <2>6. Cardinality({i \in DOMAIN set : set[i].locked})
            = Cardinality({r \in Requests : stage[r] \in {"locked", "allocated"}})
      BY <2>1, LocksCounted
    <2> QED BY <2>3, <2>4, <2>5, <2>6 DEF ReplacementsApart
  <1> QED BY <1>1, CacheInvariant, PTL
=============================================================================
