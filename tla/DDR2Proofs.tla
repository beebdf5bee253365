----------------------------- MODULE DDR2Proofs -----------------------------
(***************************************************************************)
(* Proofs about DDR2 for any number of ranks, banks, rows and slots, any   *)
(* timing and both schedulers.                                             *)
(***************************************************************************)
EXTENDS DDR2, FiniteSetTheorems, SequenceTheorems, TLAPS

(* The flags of every reference of queue q are those of the banks bks.     *)
FlagsFresh(q, bks) ==
  \A i \in Slots : q[i].valid =>
    /\ q[i].prechargePending = needsPrecharge(q[i].req, bks)
    /\ q[i].activatePending = needsActivate(q[i].req, bks)

(* Two states of the banks with the same rows open.                        *)
SameRows(bks, bks2) ==
  \A k \in Ranks, b \in Banks : /\ bks[k][b].state = bks2[k][b].state
                                /\ bks[k][b].openRowID = bks2[k][b].openRowID

(* Open rows are counted, and the cached flags of the references are those *)
(* of their banks: that a bank is closed only when open needs the latter.  *)
IInv == TypeOK /\ PendingFlagsFresh /\ NumActiveExact

LEMMA SlotsFinite == IsFiniteSet(Slots) /\ IsFiniteSet(Banks)
  <1>1. queueSize - 1 \in Int /\ numBanks - 1 \in Int /\ 0 \in Int
    BY SizeAssumption
  <1> QED BY <1>1, FS_Interval DEF Slots, Banks

LEMMA NeedsType ==
  ASSUME NEW r, NEW bks
  PROVE  needsPrecharge(r, bks) \in BOOLEAN /\ needsActivate(r, bks) \in BOOLEAN
  BY DEF needsPrecharge, needsActivate

(* Only the open rows matter to what a reference needs.                    *)
LEMMA NeedsSame ==
  ASSUME NEW r \in Request, NEW bks, NEW bks2, SameRows(bks, bks2)
  PROVE  /\ needsPrecharge(r, bks) = needsPrecharge(r, bks2)
         /\ needsActivate(r, bks) = needsActivate(r, bks2)
  BY DEF needsPrecharge, needsActivate, SameRows, Request

LEMMA NEnqueuedType ==
  ASSUME TypeOK
  PROVE  /\ nEnqueued \in Nat
         /\ nEnqueued <= Len(freeList) /\ nEnqueued <= Len(arrivalQ)
  <1> DEFINE S == {Len(freeList), Len(arrivalQ)}
  <1>1. Len(freeList) \in Nat /\ Len(arrivalQ) \in Nat
    BY DEF TypeOK
  <1>2. \E x \in S : \A y \in S : x =< y
    <2>1. CASE Len(freeList) =< Len(arrivalQ)
      BY <1>1, <2>1
    <2>2. CASE ~(Len(freeList) =< Len(arrivalQ))
      BY <1>1, <2>2
    <2> QED BY <2>1, <2>2
  <1>3. nEnqueued \in S /\ \A y \in S : nEnqueued =< y
    BY <1>2 DEF nEnqueued, Min
  <1> QED BY <1>1, <1>3

(* Enqueueing fills slots with references whose flags are fresh.           *)
LEMMA EnqueuedOK ==
  ASSUME TypeOK, PendingFlagsFresh
  PROVE  enqueued \in [Slots -> MemRef] /\ FlagsFresh(enqueued, bank)
  <1> SUFFICES ASSUME NEW i \in Slots
      PROVE  /\ enqueued[i] \in MemRef
             /\ enqueued[i].valid =>
                  /\ enqueued[i].prechargePending = needsPrecharge(enqueued[i].req, bank)
                  /\ enqueued[i].activatePending = needsActivate(enqueued[i].req, bank)
    BY DEF enqueued, FlagsFresh
  <1> DEFINE here(n) == freeList[n] = i
  <1>1. CASE \E n \in 1 .. nEnqueued : here(n)
    <2> DEFINE n == CHOOSE n \in 1 .. nEnqueued : here(n)
               r == arrivalQ[n]
    <2>1. n \in 1 .. nEnqueued
      BY <1>1
    <2>2. r \in Request /\ n \in Nat
      BY <2>1, NEnqueuedType DEF TypeOK
    <2>3. enqueued[i] = [valid |-> TRUE, req |-> r,
                         prechargePending |-> needsPrecharge(r, bank),
                         activatePending |-> needsActivate(r, bank),
                         timeStamp |-> queueSize]
      BY <1>1 DEF enqueued
    <2> HIDE DEF n, r
    <2>4. needsPrecharge(r, bank) \in BOOLEAN /\ needsActivate(r, bank) \in BOOLEAN
      BY NeedsType
    <2>5. enqueued[i] \in MemRef
      BY <2>2, <2>3, <2>4, SizeAssumption DEF MemRef
    <2> QED BY <2>3, <2>5
  <1>2. CASE ~\E n \in 1 .. nEnqueued : here(n)
    <2>1. enqueued[i] = dramQ[i]
      BY <1>2 DEF enqueued
    <2> QED BY <2>1 DEF TypeOK, PendingFlagsFresh, candidates
  <1> QED BY <1>1, <1>2

(* Renumbering the time stamps leaves the rest of a reference alone.       *)
LEMMA RenumberOK ==
  ASSUME NEW q \in [Slots -> MemRef]
  PROVE  /\ renumber(q) \in [Slots -> MemRef]
         /\ \A i \in Slots :
              /\ renumber(q)[i].valid = q[i].valid
              /\ renumber(q)[i].req = q[i].req
              /\ renumber(q)[i].prechargePending = q[i].prechargePending
              /\ renumber(q)[i].activatePending = q[i].activatePending
  <1> DEFINE valid == {i \in Slots : q[i].valid}
             before(i) == {q[j].timeStamp : j \in valid} \cap 0 .. q[i].timeStamp - 1
  <1> SUFFICES ASSUME NEW i \in Slots
      PROVE  /\ renumber(q)[i] \in MemRef
             /\ renumber(q)[i].valid = q[i].valid
             /\ renumber(q)[i].req = q[i].req
             /\ renumber(q)[i].prechargePending = q[i].prechargePending
             /\ renumber(q)[i].activatePending = q[i].activatePending
    BY DEF renumber
  <1>1. q[i] \in MemRef
    OBVIOUS
  <1>2. Cardinality(before(i)) \in Nat
    <2>1. IsFiniteSet(0 .. q[i].timeStamp - 1)
      BY <1>1, FS_Interval DEF MemRef
    <2>2. IsFiniteSet(before(i))
      BY <2>1, FS_Subset
    <2> QED BY <2>2, FS_CardinalityType
  <1>3. renumber(q)[i] = IF i \notin valid THEN q[i]
                         ELSE [q[i] EXCEPT !.timeStamp = Cardinality(before(i))]
    BY DEF renumber
  <1> HIDE DEF before, valid
  <1> QED BY <1>1, <1>2, <1>3 DEF MemRef

LEMMA RenumberFresh ==
  ASSUME NEW q \in [Slots -> MemRef], NEW bks, FlagsFresh(q, bks)
  PROVE  FlagsFresh(renumber(q), bks)
  BY RenumberOK DEF FlagsFresh

(* updateQueueState makes every flag fresh.                                *)
LEMMA UpdateFresh ==
  ASSUME NEW q \in [Slots -> MemRef], NEW bks
  PROVE  /\ updateQueueState(q, bks) \in [Slots -> MemRef]
         /\ FlagsFresh(updateQueueState(q, bks), bks)
  <1> SUFFICES ASSUME NEW i \in Slots
      PROVE  LET u == updateQueueState(q, bks)[i] IN
             /\ u \in MemRef
             /\ u.valid => /\ u.prechargePending = needsPrecharge(u.req, bks)
                           /\ u.activatePending = needsActivate(u.req, bks)
    BY DEF updateQueueState, FlagsFresh
  <1>1. q[i] \in MemRef
    OBVIOUS
  <1>2. /\ needsPrecharge(q[i].req, bks) \in BOOLEAN
        /\ needsActivate(q[i].req, bks) \in BOOLEAN
    BY NeedsType
  <1> QED BY <1>1, <1>2 DEF updateQueueState, MemRef

-----------------------------------------------------------------------------
LEMMA LaterType ==
  ASSUME NEW t \in -Skew .. Cap
  PROVE  later(t) \in -Skew .. Cap /\ (t \in Time => later(t) \in Time)
  BY TimingAssumption DEF later, Time

(* The clock advances every age and opens and closes no row.               *)
LEMMA NowType ==
  ASSUME TypeOK
  PROVE  /\ bankNow \in [Ranks -> [Banks -> Bank]] /\ SameRows(bankNow, bank)
         /\ rankNow \in [Ranks -> Rank]
         /\ \A k \in Ranks : rankNow[k].numActive = rank[k].numActive
         /\ chanNow \in [lastRead: -Skew .. Cap, lastWrite: -Skew .. Cap]
         /\ busNow \in [Offsets -> Nat]
  <1>0. Time \subseteq -Skew .. Cap
    BY TimingAssumption DEF Time
  <1>1. \A k \in Ranks, b \in Banks :
          /\ bankNow[k][b] \in Bank
          /\ bankNow[k][b].state = bank[k][b].state
          /\ bankNow[k][b].openRowID = bank[k][b].openRowID
    <2> SUFFICES ASSUME NEW k \in Ranks, NEW b \in Banks
        PROVE  /\ bankNow[k][b] \in Bank
               /\ bankNow[k][b].state = bank[k][b].state
               /\ bankNow[k][b].openRowID = bank[k][b].openRowID
      OBVIOUS
    <2>1. bank[k][b] \in Bank
      BY DEF TypeOK
    <2>2. /\ later(bank[k][b].lastPrecharge) \in Time
          /\ later(bank[k][b].lastActivate) \in Time
          /\ later(bank[k][b].lastRead) \in Time
          /\ later(bank[k][b].lastWrite) \in Time
      BY <1>0, <2>1, LaterType DEF Bank
    <2> QED BY <2>1, <2>2 DEF bankNow, Bank
  <1>2. \A k \in Ranks : /\ rankNow[k] \in Rank
                         /\ rankNow[k].numActive = rank[k].numActive
    <2> SUFFICES ASSUME NEW k \in Ranks
        PROVE  rankNow[k] \in Rank /\ rankNow[k].numActive = rank[k].numActive
      OBVIOUS
    <2>1. rank[k] \in Rank
      BY DEF TypeOK
    <2>2. /\ later(rank[k].lastRead) \in Time
          /\ later(rank[k].lastWrite) \in Time
          /\ later(rank[k].lastRefresh) \in Time
      BY <1>0, <2>1, LaterType DEF Rank
    <2> QED BY <2>1, <2>2 DEF rankNow, Rank
  <1>3. chanNow \in [lastRead: -Skew .. Cap, lastWrite: -Skew .. Cap]
    BY LaterType DEF TypeOK, chanNow
  <1>4. busNow \in [Offsets -> Nat]
    BY DEF TypeOK, busNow
  <1> QED BY <1>1, <1>2, <1>3, <1>4 DEF SameRows, bankNow, rankNow

(* The queues after the arrivals with a free slot have left them.          *)
LEMMA QueueType ==
  ASSUME TypeOK
  PROVE  LET f == SubSeq(freeList, nEnqueued + 1, Len(freeList))
             a == SubSeq(arrivalQ, nEnqueued + 1, Len(arrivalQ)) IN
         /\ f \in Seq(Slots)
         /\ a \in Seq(Request) /\ Len(a) <= ArrivalBound
  <1> DEFINE f == SubSeq(freeList, nEnqueued + 1, Len(freeList))
             a == SubSeq(arrivalQ, nEnqueued + 1, Len(arrivalQ))
  <1>1. freeList \in Seq(Slots) /\ arrivalQ \in Seq(Request)
    BY DEF TypeOK
  <1>2. f \in Seq(Slots) /\ a \in Seq(Request) /\ Len(a) = Len(arrivalQ) - nEnqueued
    BY <1>1, NEnqueuedType, SubSeqProperties
  <1> QED BY <1>1, <1>2, NEnqueuedType, SizeAssumption DEF TypeOK

LEMMA AdvanceType ==
  ASSUME TypeOK, advance
  PROVE  /\ freeList' \in Seq(Slots)
         /\ arrivalQ' \in Seq(Request) /\ Len(arrivalQ') <= ArrivalBound
         /\ policy' \in Policies
  <1>1. policy' \in Policies
    BY DEF advance, TypeOK
  <1> QED BY <1>1, QueueType DEF advance

LEMMA RefType ==
  ASSUME TypeOK, NEW i \in Slots
  PROVE  /\ dramQ[i].req \in Request
         /\ dramQ[i].req.rank \in Ranks /\ dramQ[i].req.bank \in Banks
         /\ dramQ[i].req.row \in Rows
  BY DEF TypeOK, MemRef, Request

(* The reference scheduled is a valid one.                                 *)
LEMMA ScheduledValid ==
  ASSUME NEW i \in Slots, scheduled(i)
  PROVE  i \in candidates
  BY DEF scheduled, scheduleFCFS, scheduleFRFCFS, oldest

(* The queue is fresh again after a command that changes no row and may    *)
(* complete the reference in slot i.                                       *)
LEMMA ColumnFresh ==
  ASSUME TypeOK, PendingFlagsFresh, NEW bks, SameRows(bks, bank)
  PROVE  /\ renumber(enqueued) \in [Slots -> MemRef]
         /\ FlagsFresh(renumber(enqueued), bks)
         /\ \A i \in Slots :
              LET q == renumber([enqueued EXCEPT ![i] = NoRef]) IN
              q \in [Slots -> MemRef] /\ FlagsFresh(q, bks)
  <1>1. enqueued \in [Slots -> MemRef] /\ FlagsFresh(enqueued, bank)
    BY EnqueuedOK
  <1>2. FlagsFresh(enqueued, bks)
    <2> SUFFICES ASSUME NEW i \in Slots, enqueued[i].valid
        PROVE  /\ enqueued[i].prechargePending = needsPrecharge(enqueued[i].req, bks)
               /\ enqueued[i].activatePending = needsActivate(enqueued[i].req, bks)
      BY DEF FlagsFresh
    <2>1. enqueued[i].req \in Request
      BY <1>1 DEF MemRef
    <2> QED BY <1>1, <2>1, NeedsSame DEF FlagsFresh
  <1>3. NoRef \in MemRef /\ ~NoRef.valid
    BY SizeAssumption DEF NoRef, MemRef, Request, Ranks, Banks, Rows
  <1>4. ASSUME NEW i \in Slots
        PROVE  /\ [enqueued EXCEPT ![i] = NoRef] \in [Slots -> MemRef]
               /\ FlagsFresh([enqueued EXCEPT ![i] = NoRef], bks)
    BY <1>1, <1>2, <1>3 DEF FlagsFresh
  <1>5. ASSUME NEW q \in [Slots -> MemRef], FlagsFresh(q, bks)
        PROVE  renumber(q) \in [Slots -> MemRef] /\ FlagsFresh(renumber(q), bks)
    BY <1>5, RenumberOK, RenumberFresh
  <1> QED BY <1>1, <1>2, <1>4, <1>5
-----------------------------------------------------------------------------
Active(bks, k) == {b \in Banks : bks[k][b].state = "ACTIVE"}

LEMMA ActiveCount ==
  ASSUME NEW bks, NEW k
  PROVE  /\ IsFiniteSet(Active(bks, k))
         /\ Cardinality(Active(bks, k)) \in 0 .. numBanks
  <1>1. Active(bks, k) \subseteq Banks
    BY DEF Active
  <1>2. numBanks \in Nat /\ Cardinality(Banks) = numBanks
    <2>1. numBanks \in Nat \ {0} /\ numBanks - 1 \in Int
      BY SizeAssumption
    <2>2. Cardinality(0 .. numBanks - 1) = IF 0 > numBanks - 1 THEN 0 ELSE numBanks - 1 - 0 + 1
      BY <2>1, FS_Interval
    <2> QED BY <2>1, <2>2 DEF Banks
  <1>3. IsFiniteSet(Active(bks, k)) /\ Cardinality(Active(bks, k)) <= numBanks
    BY <1>1, <1>2, SlotsFinite, FS_Subset
  <1> QED BY <1>2, <1>3, FS_CardinalityType

(* What is left of the proof that a step keeps NumActiveExact and the type *)
(* of rank: the count of one rank follows the set of its open banks.       *)
LEMMA CountKept ==
  ASSUME IInv, NEW k \in Ranks, NEW b \in Banks,
         bank' \in [Ranks -> [Banks -> Bank]],
         \A j \in Ranks \ {k} : Active(bank', j) = Active(bank, j)
  PROVE  /\ (/\ rank' = [rankNow EXCEPT ![k].numActive = @ - 1]
             /\ b \in Active(bank, k) /\ Active(bank', k) = Active(bank, k) \ {b})
              => rank' \in [Ranks -> Rank] /\ NumActiveExact'
         /\ (/\ rank' = [rankNow EXCEPT ![k].numActive = @ + 1]
             /\ b \notin Active(bank, k) /\ Active(bank', k) = Active(bank, k) \cup {b})
              => rank' \in [Ranks -> Rank] /\ NumActiveExact'
  <1>1. /\ rankNow \in [Ranks -> Rank]
        /\ \A j \in Ranks : rankNow[j].numActive = Cardinality(Active(bank, j))
    BY NowType DEF IInv, NumActiveExact, Active
  <1>2. \A j \in Ranks : Cardinality(Active(bank', j)) \in 0 .. numBanks
    BY ActiveCount
  <1>3. IsFiniteSet(Active(bank, k)) /\ Cardinality(Active(bank, k)) \in Nat
    BY ActiveCount
  <1>4. ASSUME NEW n, n = Cardinality(Active(bank', k)),
               rank' = [rankNow EXCEPT ![k].numActive = n]
        PROVE  rank' \in [Ranks -> Rank] /\ NumActiveExact'
    <2>1. \A j \in Ranks : rank'[j].numActive = Cardinality(Active(bank', j))
      BY <1>1, <1>4 DEF Rank
    <2>2. rank' \in [Ranks -> Rank]
      BY <1>1, <1>2, <1>4 DEF Rank
    <2> QED BY <2>1, <2>2 DEF NumActiveExact, Active
  <1>5. ASSUME rank' = [rankNow EXCEPT ![k].numActive = @ - 1],
               b \in Active(bank, k), Active(bank', k) = Active(bank, k) \ {b}
        PROVE  rank' \in [Ranks -> Rank] /\ NumActiveExact'
    <2>1. Cardinality(Active(bank', k)) = Cardinality(Active(bank, k)) - 1
      BY <1>3, <1>5, FS_RemoveElement
    <2> QED BY <1>1, <1>4, <1>5, <2>1
  <1>6. ASSUME rank' = [rankNow EXCEPT ![k].numActive = @ + 1],
               b \notin Active(bank, k), Active(bank', k) = Active(bank, k) \cup {b}
        PROVE  rank' \in [Ranks -> Rank] /\ NumActiveExact'
    <2>1. Cardinality(Active(bank', k)) = Cardinality(Active(bank, k)) + 1
      BY <1>3, <1>6, FS_AddElement
    <2> QED BY <1>1, <1>4, <1>6, <2>1
  <1> QED BY <1>5, <1>6

LEMMA FreshPrimed ==
  ASSUME FlagsFresh(dramQ', bank')
  PROVE  PendingFlagsFresh'
  BY DEF FlagsFresh, PendingFlagsFresh, candidates, needsPrecharge, needsActivate

LEMMA PrechargeStep ==
  ASSUME IInv, NEW i \in Slots, precharge(i)
  PROVE  IInv'
  <1> DEFINE k == dramQ[i].req.rank
             b == dramQ[i].req.bank
  <1>1. k \in Ranks /\ b \in Banks
    BY RefType DEF IInv
  <1>2. bank' = [bankNow EXCEPT ![k][b].state = "IDLE", ![k][b].lastPrecharge = 0]
    BY DEF precharge
  <1>3. /\ bank' \in [Ranks -> [Banks -> Bank]]
        /\ \A j \in Ranks, c \in Banks :
             bank'[j][c].state = IF j = k /\ c = b THEN "IDLE" ELSE bank[j][c].state
    <2>1. 0 \in Time
      BY TimingAssumption DEF Time
    <2> DEFINE new == [bankNow[k][b] EXCEPT !.state = "IDLE", !.lastPrecharge = 0]
    <2>2. bankNow \in [Ranks -> [Banks -> Bank]] /\ SameRows(bankNow, bank)
      BY NowType DEF IInv
    <2>3. bankNow[k][b] \in Bank
      BY <1>1, <2>2
    <2>4. new \in Bank /\ new.state = "IDLE"
      BY <1>1, <2>1, <2>3 DEF Bank
    <2>5. bank' = [bankNow EXCEPT ![k][b] = new]
      BY <1>1, <1>2, <2>2, <2>3 DEF Bank
    <2> HIDE DEF new
    <2> QED BY <1>1, <2>2, <2>4, <2>5 DEF SameRows
  <1>4. bank[k][b].state = "ACTIVE"
    BY ScheduledValid DEF precharge, IInv, PendingFlagsFresh, needsPrecharge
  <1>5. rank' \in [Ranks -> Rank] /\ NumActiveExact'
    <2>1. /\ \A j \in Ranks \ {k} : Active(bank', j) = Active(bank, j)
          /\ b \in Active(bank, k) /\ Active(bank', k) = Active(bank, k) \ {b}
      BY <1>1, <1>3, <1>4 DEF Active
    <2>2. rank' = [rankNow EXCEPT ![k].numActive = @ - 1]
      BY DEF precharge
    <2> QED BY <1>1, <1>3, <2>1, <2>2, CountKept
  <1>6. dramQ' \in [Slots -> MemRef] /\ FlagsFresh(dramQ', bank')
    <2>1. dramQ' = renumber(updateQueueState(enqueued, bank'))
      BY DEF precharge
    <2> QED BY <2>1, EnqueuedOK, UpdateFresh, RenumberOK, RenumberFresh DEF IInv
  <1>7. TypeOK'
    BY <1>3, <1>5, <1>6, NowType, AdvanceType DEF TypeOK, IInv, precharge
  <1> QED BY <1>5, <1>6, <1>7, FreshPrimed DEF IInv

LEMMA ActivateStep ==
  ASSUME IInv, NEW i \in Slots, activate(i)
  PROVE  IInv'
  <1> DEFINE k == dramQ[i].req.rank
             b == dramQ[i].req.bank
             row == dramQ[i].req.row
  <1>1. k \in Ranks /\ b \in Banks /\ row \in Rows
    BY RefType DEF IInv
  <1>2. bank' = [bankNow EXCEPT ![k][b].state = "ACTIVE", ![k][b].openRowID = row,
                                ![k][b].lastActivate = 0]
    BY DEF activate
  <1>3. /\ bank' \in [Ranks -> [Banks -> Bank]]
        /\ \A j \in Ranks, c \in Banks :
             bank'[j][c].state = IF j = k /\ c = b THEN "ACTIVE" ELSE bank[j][c].state
    <2>1. 0 \in Time
      BY TimingAssumption DEF Time
    <2> DEFINE new == [bankNow[k][b] EXCEPT !.state = "ACTIVE", !.openRowID = row,
                                             !.lastActivate = 0]
    <2>2. bankNow \in [Ranks -> [Banks -> Bank]] /\ SameRows(bankNow, bank)
      BY NowType DEF IInv
    <2>3. bankNow[k][b] \in Bank
      BY <1>1, <2>2
    <2>4. new \in Bank /\ new.state = "ACTIVE"
      BY <1>1, <2>1, <2>3 DEF Bank
    <2>5. bank' = [bankNow EXCEPT ![k][b] = new]
      BY <1>1, <1>2, <2>2, <2>3 DEF Bank
    <2> HIDE DEF new
    <2> QED BY <1>1, <2>2, <2>4, <2>5 DEF SameRows
  <1>4. bank[k][b].state # "ACTIVE"
    BY ScheduledValid
    DEF activate, IInv, PendingFlagsFresh, needsPrecharge, needsActivate
  <1>5. rank' \in [Ranks -> Rank] /\ NumActiveExact'
    <2>1. /\ \A j \in Ranks \ {k} : Active(bank', j) = Active(bank, j)
          /\ b \notin Active(bank, k) /\ Active(bank', k) = Active(bank, k) \cup {b}
      BY <1>1, <1>3, <1>4 DEF Active
    <2>2. rank' = [rankNow EXCEPT ![k].numActive = @ + 1]
      BY DEF activate
    <2> QED BY <1>1, <1>3, <2>1, <2>2, CountKept
  <1>6. dramQ' \in [Slots -> MemRef] /\ FlagsFresh(dramQ', bank')
    <2>1. dramQ' = renumber(updateQueueState(enqueued, bank'))
      BY DEF activate
    <2> QED BY <2>1, EnqueuedOK, UpdateFresh, RenumberOK, RenumberFresh DEF IInv
  <1>7. TypeOK'
    BY <1>3, <1>5, <1>6, NowType, AdvanceType DEF TypeOK, IInv, activate
  <1> QED BY <1>5, <1>6, <1>7, FreshPrimed DEF IInv

(* A step that opens and closes no row keeps the count of open rows.       *)
LEMMA CountSame ==
  ASSUME IInv, SameRows(bank', bank),
         \A k \in Ranks : rank'[k].numActive = rank[k].numActive
  PROVE  NumActiveExact'
  <1>1. \A k \in Ranks : Active(bank', k) = Active(bank, k)
    BY DEF SameRows, Active
  <1> QED BY <1>1 DEF IInv, NumActiveExact, Active

(* A column access, by reference i to bank b of rank k: what read and      *)
(* write have in common.                                                   *)
LEMMA CompleteStep ==
  ASSUME IInv, NEW i \in Slots, NEW start \in Nat, complete(i, start),
         bank' \in [Ranks -> [Banks -> Bank]], SameRows(bank', bank),
         rank' \in [Ranks -> Rank],
         \A k \in Ranks : rank'[k].numActive = rank[k].numActive,
         chan' \in [lastRead: -Skew .. Cap, lastWrite: -Skew .. Cap]
  PROVE  IInv'
  <1>1. NumActiveExact'
    BY CountSame
  <1>2. dramQ' \in [Slots -> MemRef] /\ FlagsFresh(dramQ', bank')
    BY ColumnFresh DEF complete, IInv
  <1>3. /\ freeList' \in Seq(Slots)
        /\ arrivalQ' \in Seq(Request) /\ Len(arrivalQ') <= ArrivalBound
    <2>1. SubSeq(freeList, nEnqueued + 1, Len(freeList)) \in Seq(Slots)
      BY QueueType DEF IInv
    <2>2. freeList' \in Seq(Slots)
      BY <2>1, AppendProperties DEF complete
    <2> QED BY <2>2, QueueType DEF complete, IInv
  <1>4. bus' \in [Offsets -> Nat]
    <2>1. busNow \in [Offsets -> Nat]
      BY NowType DEF IInv
    <2> QED BY <2>1 DEF complete
  <1>5. policy' \in Policies
    BY DEF complete, IInv, TypeOK
  <1>6. TypeOK'
    BY <1>2, <1>3, <1>4, <1>5 DEF TypeOK
  <1> QED BY <1>1, <1>2, <1>6, FreshPrimed DEF IInv

LEMMA ReadStep ==
  ASSUME IInv, NEW i \in Slots, read(i)
  PROVE  IInv'
  <1> DEFINE k == dramQ[i].req.rank
             b == dramQ[i].req.bank
  <1>1. k \in Ranks /\ b \in Banks /\ 0 \in Time /\ tCL \in Nat
    BY RefType, TimingAssumption DEF IInv, Time, Timings
  <1>2. /\ bankNow \in [Ranks -> [Banks -> Bank]] /\ SameRows(bankNow, bank)
        /\ rankNow \in [Ranks -> Rank]
        /\ \A j \in Ranks : rankNow[j].numActive = rank[j].numActive
        /\ chanNow \in [lastRead: -Skew .. Cap, lastWrite: -Skew .. Cap]
    BY NowType DEF IInv
  <1>3. /\ bank' = [bankNow EXCEPT ![k][b].lastRead = 0]
        /\ rank' = [rankNow EXCEPT ![k].lastRead = 0]
        /\ chan' = [chanNow EXCEPT !.lastRead = 0]
        /\ complete(i, tCL)
    BY DEF read
  <1>4. bank' \in [Ranks -> [Banks -> Bank]] /\ SameRows(bank', bank)
    <2> DEFINE new == [bankNow[k][b] EXCEPT !.lastRead = 0]
    <2>1. bankNow[k][b] \in Bank
      BY <1>1, <1>2
    <2>2. /\ new \in Bank /\ new.state = bankNow[k][b].state
          /\ new.openRowID = bankNow[k][b].openRowID
      BY <1>1, <2>1 DEF Bank
    <2>3. bank' = [bankNow EXCEPT ![k][b] = new]
      BY <1>3
    <2> HIDE DEF new
    <2> QED BY <1>1, <1>2, <2>2, <2>3 DEF SameRows
  <1>5. /\ rank' \in [Ranks -> Rank]
        /\ \A j \in Ranks : rank'[j].numActive = rank[j].numActive
    BY <1>1, <1>2, <1>3 DEF Rank
  <1>6. chan' \in [lastRead: -Skew .. Cap, lastWrite: -Skew .. Cap]
    BY <1>2, <1>3, TimingAssumption
  <1> QED BY <1>1, <1>3, <1>4, <1>5, <1>6, CompleteStep

LEMMA WriteStep ==
  ASSUME IInv, NEW i \in Slots, write(i)
  PROVE  IInv'
  <1> DEFINE k == dramQ[i].req.rank
             b == dramQ[i].req.bank
  <1>1. k \in Ranks /\ b \in Banks /\ 0 \in Time /\ tWL \in Nat
    BY RefType, TimingAssumption DEF IInv, Time, Timings
  <1>2. /\ bankNow \in [Ranks -> [Banks -> Bank]] /\ SameRows(bankNow, bank)
        /\ rankNow \in [Ranks -> Rank]
        /\ \A j \in Ranks : rankNow[j].numActive = rank[j].numActive
        /\ chanNow \in [lastRead: -Skew .. Cap, lastWrite: -Skew .. Cap]
    BY NowType DEF IInv
  <1>3. /\ bank' = [bankNow EXCEPT ![k][b].lastWrite = 0]
        /\ rank' = [rankNow EXCEPT ![k].lastWrite = 0]
        /\ chan' = [chanNow EXCEPT !.lastWrite = 0]
        /\ complete(i, tWL)
    BY DEF write
  <1>4. bank' \in [Ranks -> [Banks -> Bank]] /\ SameRows(bank', bank)
    <2> DEFINE new == [bankNow[k][b] EXCEPT !.lastWrite = 0]
    <2>1. bankNow[k][b] \in Bank
      BY <1>1, <1>2
    <2>2. /\ new \in Bank /\ new.state = bankNow[k][b].state
          /\ new.openRowID = bankNow[k][b].openRowID
      BY <1>1, <2>1 DEF Bank
    <2>3. bank' = [bankNow EXCEPT ![k][b] = new]
      BY <1>3
    <2> HIDE DEF new
    <2> QED BY <1>1, <1>2, <2>2, <2>3 DEF SameRows
  <1>5. /\ rank' \in [Ranks -> Rank]
        /\ \A j \in Ranks : rank'[j].numActive = rank[j].numActive
    BY <1>1, <1>2, <1>3 DEF Rank
  <1>6. chan' \in [lastRead: -Skew .. Cap, lastWrite: -Skew .. Cap]
    BY <1>2, <1>3, TimingAssumption
  <1> QED BY <1>1, <1>3, <1>4, <1>5, <1>6, CompleteStep

LEMMA NopStep ==
  ASSUME IInv, nop
  PROVE  IInv'
  <1>1. /\ bankNow \in [Ranks -> [Banks -> Bank]] /\ SameRows(bankNow, bank)
        /\ rankNow \in [Ranks -> Rank]
        /\ \A j \in Ranks : rankNow[j].numActive = rank[j].numActive
        /\ chanNow \in [lastRead: -Skew .. Cap, lastWrite: -Skew .. Cap]
        /\ busNow \in [Offsets -> Nat]
    BY NowType DEF IInv
  <1>2. bank' = bankNow /\ rank' = rankNow /\ chan' = chanNow /\ bus' = busNow
    BY DEF nop
  <1>3. NumActiveExact'
    BY <1>1, <1>2, CountSame
  <1>4. dramQ' \in [Slots -> MemRef] /\ FlagsFresh(dramQ', bank')
    BY <1>1, <1>2, ColumnFresh DEF nop, IInv
  <1>5. TypeOK'
    BY <1>1, <1>2, <1>4, AdvanceType DEF TypeOK, IInv, nop
  <1> QED BY <1>3, <1>4, <1>5, FreshPrimed DEF IInv

LEMMA ArriveStep ==
  ASSUME IInv, NEW r \in Request, arrive(r)
  PROVE  IInv'
  <1>1. arrivalQ' \in Seq(Request) /\ Len(arrivalQ') <= ArrivalBound
    BY AppendProperties, SizeAssumption DEF IInv, TypeOK, arrive
  <1>2. TypeOK'
    BY <1>1 DEF IInv, TypeOK, arrive
  <1>3. PendingFlagsFresh'
    BY DEF IInv, arrive, PendingFlagsFresh, candidates, needsPrecharge, needsActivate
  <1>4. NumActiveExact'
    BY DEF IInv, arrive, NumActiveExact
  <1> QED BY <1>2, <1>3, <1>4 DEF IInv

LEMMA InitIInv == Init => IInv
  <1> SUFFICES ASSUME Init PROVE IInv
    OBVIOUS
  <1>1. 0 \in Time /\ 0 \in 0 .. numBanks /\ queueSize \in Nat \ {0} /\ 0 <= ArrivalBound
    BY TimingAssumption, SizeAssumption DEF Time
  <1>2. dramQ \in [Slots -> MemRef] /\ \A i \in Slots : ~dramQ[i].valid
    <2>1. NoRef \in MemRef /\ ~NoRef.valid
      BY SizeAssumption DEF NoRef, MemRef, Request, Ranks, Banks, Rows
    <2> QED BY <2>1 DEF Init
  <1>3. freeList \in Seq(Slots)
    <2>1. \A n \in 1 .. queueSize : n - 1 \in Slots
      BY <1>1 DEF Slots
    <2> QED BY <1>1, <2>1, IsASeq DEF Init
  <1>4. bank \in [Ranks -> [Banks -> Bank]] /\ rank \in [Ranks -> Rank]
    BY <1>1 DEF Init, Bank, Rank
  <1>5. TypeOK
    BY <1>1, <1>2, <1>3, <1>4 DEF Init, TypeOK
  <1>6. PendingFlagsFresh
    BY <1>2 DEF PendingFlagsFresh, candidates
  <1>7. NumActiveExact
    <2> SUFFICES ASSUME NEW k \in Ranks
        PROVE  rank[k].numActive = Cardinality(Active(bank, k))
      BY DEF NumActiveExact, Active
    <2>1. Active(bank, k) = {}
      BY DEF Active, Init
    <2> QED BY <2>1, FS_EmptySet DEF Init
  <1> QED BY <1>5, <1>6, <1>7 DEF IInv

LEMMA NextIInv == IInv /\ [Next]_vars => IInv'
  <1> SUFFICES ASSUME IInv, [Next]_vars PROVE IInv'
    OBVIOUS
  <1>1. CASE UNCHANGED vars
    BY <1>1
    DEF vars, IInv, TypeOK, PendingFlagsFresh, NumActiveExact, candidates,
        needsPrecharge, needsActivate
  <1>2. ASSUME NEW r \in Request, arrive(r) PROVE IInv'
    BY <1>2, ArriveStep
  <1>3. CASE nop
    BY <1>3, NopStep
  <1>4. ASSUME NEW i \in Slots, precharge(i) \/ activate(i) \/ read(i) \/ write(i)
        PROVE  IInv'
    BY <1>4, PrechargeStep, ActivateStep, ReadStep, WriteStep
  <1> QED BY <1>1, <1>2, <1>3, <1>4 DEF Next, clock

(* The clock empties no slot but that of the reference it completes.       *)
LEMMA StaysValid ==
  ASSUME TypeOK, PendingFlagsFresh, NEW i \in Slots, dramQ[i].valid
  PROVE  /\ enqueued[i].valid
         /\ renumber(enqueued)[i].valid
         /\ \A bks : renumber(updateQueueState(enqueued, bks))[i].valid
         /\ \A j \in Slots \ {i} : renumber([enqueued EXCEPT ![j] = NoRef])[i].valid
  <1>1. enqueued \in [Slots -> MemRef]
    BY EnqueuedOK
  <1>2. enqueued[i].valid
    BY DEF enqueued
  <1>3. ASSUME NEW bks PROVE renumber(updateQueueState(enqueued, bks))[i].valid
    <2>1. enqueued[i] \in MemRef
      BY <1>1
    <2>2. updateQueueState(enqueued, bks)[i].valid
      BY <1>2, <2>1 DEF updateQueueState, MemRef
    <2> QED BY <1>1, <2>2, UpdateFresh, RenumberOK
  <1>4. NoRef \in MemRef
    BY SizeAssumption DEF NoRef, MemRef, Request, Ranks, Banks, Rows
  <1>5. ASSUME NEW j \in Slots \ {i}
        PROVE  renumber([enqueued EXCEPT ![j] = NoRef])[i].valid
    BY <1>1, <1>2, <1>4, RenumberOK
  <1> QED BY <1>1, <1>2, <1>3, <1>5, RenumberOK

(* In every state the channel can reach, for any geometry, any timing and  *)
(* either scheduler, the variables are well typed.                         *)
THEOREM TypeCorrect == Spec => []TypeOK
  <1>1. IInv => TypeOK
    BY DEF IInv
  <1> QED BY <1>1, InitIInv, NextIInv, PTL DEF Spec

(* The cached needs of every waiting reference are those of its bank, so a *)
(* scheduler that trusts them never acts on a stale row.                   *)
THEOREM FlagsAlwaysFresh == Spec => []PendingFlagsFresh
  <1>1. IInv => PendingFlagsFresh
    BY DEF IInv
  <1> QED BY <1>1, InitIInv, NextIInv, PTL DEF Spec

(* numActive counts the open rows of its rank.                             *)
THEOREM OpenRowsCounted == Spec => []NumActiveExact
  <1>1. IInv => NumActiveExact
    BY DEF IInv
  <1> QED BY <1>1, InitIInv, NextIInv, PTL DEF Spec

(* A reference leaves its slot only by a column access that finds its row  *)
(* open in its bank, although the schedulers look at cached flags alone    *)
(* and the row last opened is remembered after the bank is closed.         *)
THEOREM ColumnsHitOpenRows == Spec => ColumnHitsOpenRow
  <1>1. ASSUME IInv, Next, NEW i \in Slots, dramQ[i].valid, ~dramQ'[i].valid
        PROVE  LET r == dramQ[i].req IN
               /\ bank[r.rank][r.bank].state = "ACTIVE"
               /\ bank[r.rank][r.bank].openRowID = r.row
    <2>1. TypeOK /\ PendingFlagsFresh
      BY <1>1 DEF IInv
    <2>2. PICK j \in Slots : read(j) \/ write(j)
      BY <1>1, <2>1, StaysValid DEF Next, clock, arrive, nop, precharge, activate
    <2>3. needsColumn(j) /\ dramQ' = renumber([enqueued EXCEPT ![j] = NoRef])
      BY <2>2 DEF read, write, complete
    <2>4. j = i
      BY <1>1, <2>1, <2>3, StaysValid
    <2>5. /\ ~needsPrecharge(dramQ[i].req, bank)
          /\ ~needsActivate(dramQ[i].req, bank)
      BY <1>1, <2>1, <2>3, <2>4 DEF needsColumn, PendingFlagsFresh, candidates
    <2>6. bank[dramQ[i].req.rank][dramQ[i].req.bank] \in Bank
      BY <2>1, RefType DEF TypeOK
    <2> QED BY <2>5, <2>6 DEF needsPrecharge, needsActivate, Bank
  <1>2. IInv /\ [Next]_vars =>
          [\A i \in Slots :
             dramQ[i].valid /\ ~dramQ'[i].valid =>
               LET r == dramQ[i].req IN
               /\ bank[r.rank][r.bank].state = "ACTIVE"
               /\ bank[r.rank][r.bank].openRowID = r.row]_vars
    BY <1>1
  <1> QED BY <1>2, InitIInv, NextIInv, PTL DEF Spec, ColumnHitsOpenRow
-----------------------------------------------------------------------------
(***************************************************************************)
(* The data bus.  A burst on it belongs to the last read or to the last    *)
(* write of the channel or lies before the end of that one's burst, and    *)
(* the rank that read or wrote knows how long ago that was.                *)
(***************************************************************************)
beforeReadEnds(o, rk, ch) ==
  /\ \E k \in Ranks : rk[k].lastRead = ch.lastRead
  /\ ch.lastRead + o < tCL + HalfBL
beforeWriteEnds(o, rk, ch) ==
  /\ \E k \in Ranks : rk[k].lastWrite = ch.lastWrite
  /\ ch.lastWrite + o < tWL + HalfBL

OneBurst(b, rk, ch) ==
  \A o \in Offsets :
    b[o] # 0 => b[o] = 1 /\ (beforeReadEnds(o, rk, ch) \/ beforeWriteEnds(o, rk, ch))
BusInv == OneBurst(bus, rank, chan)

LEMMA TimingFacts ==
  /\ {tRCD, tCL, tWL, tCCD, tWTR, tRTRS, tOST, HalfBL} \subseteq Nat \ {0}
  /\ Cap \in Nat /\ Skew \in Nat /\ tCCD >= HalfBL
  /\ tRTRS + tCL + HalfBL <= Cap /\ tRTRS + tWL + HalfBL <= Cap
  <1>1. {tRCD, tCL, tWL, tCCD, tWTR, tRTRS, tOST, HalfBL} \subseteq Timings
    BY DEF Timings
  <1> QED BY <1>1, TimingAssumption

LEMMA OffsetsNat == Offsets \subseteq Nat
  BY TimingFacts DEF Offsets

(* Bursts come nearer as the clock advances.                               *)
LEMMA BurstsAdvance ==
  ASSUME TypeOK, BusInv
  PROVE  OneBurst(busNow, rankNow, chanNow)
  <1> SUFFICES ASSUME NEW o \in Offsets, busNow[o] # 0
               PROVE  /\ busNow[o] = 1
                      /\ beforeReadEnds(o, rankNow, chanNow) \/ beforeWriteEnds(o, rankNow, chanNow)
    BY DEF OneBurst
  <1>1. o \in Nat /\ o + 1 \in Offsets /\ busNow[o] = bus[o + 1]
    BY TimingFacts DEF busNow, Offsets
  <1>2. bus[o + 1] = 1 /\ (beforeReadEnds(o + 1, rank, chan) \/ beforeWriteEnds(o + 1, rank, chan))
    BY <1>1 DEF BusInv, OneBurst
  <1>3. /\ chan.lastRead \in -Skew .. Cap /\ chan.lastWrite \in -Skew .. Cap
        /\ chanNow.lastRead = later(chan.lastRead) /\ chanNow.lastWrite = later(chan.lastWrite)
    BY DEF TypeOK, chanNow
  <1>4. \A k \in Ranks : /\ rankNow[k].lastRead = later(rank[k].lastRead)
                         /\ rankNow[k].lastWrite = later(rank[k].lastWrite)
    BY DEF TypeOK, rankNow, Rank
  <1>5. CASE beforeReadEnds(o + 1, rank, chan)
    <2>1. PICK k \in Ranks : rank[k].lastRead = chan.lastRead
      BY <1>5 DEF beforeReadEnds
    <2>2. rankNow[k].lastRead = chanNow.lastRead
      BY <1>3, <1>4, <2>1
    <2>3. chanNow.lastRead + o < tCL + HalfBL
      BY <1>1, <1>3, <1>5, TimingFacts DEF beforeReadEnds, later
    <2> QED BY <1>1, <1>2, <2>2, <2>3 DEF beforeReadEnds
  <1>6. CASE beforeWriteEnds(o + 1, rank, chan)
    <2>1. PICK k \in Ranks : rank[k].lastWrite = chan.lastWrite
      BY <1>6 DEF beforeWriteEnds
    <2>2. rankNow[k].lastWrite = chanNow.lastWrite
      BY <1>3, <1>4, <2>1
    <2>3. chanNow.lastWrite + o < tWL + HalfBL
      BY <1>1, <1>3, <1>6, TimingFacts DEF beforeWriteEnds, later
    <2> QED BY <1>1, <1>2, <2>2, <2>3 DEF beforeWriteEnds
  <1> QED BY <1>2, <1>5, <1>6

LEMMA ScheduledReady ==
  ASSUME TypeOK, NEW i \in Slots, scheduled(i), needsColumn(i)
  PROVE  LET r == dramQ[i].req IN
         /\ r.read => canIssueRead(r.rank, r.bank, r.row)
         /\ ~r.read => canIssueWrite(r.rank, r.bank, r.row)
  <1>1. ready(i)
    BY DEF scheduled, scheduleFCFS, scheduleFRFCFS, oldest
  <1>2. /\ dramQ[i].prechargePending \in BOOLEAN /\ dramQ[i].activatePending \in BOOLEAN
        /\ dramQ[i].req.read \in BOOLEAN
    BY DEF TypeOK, MemRef, Request
  <1> QED BY <1>1, <1>2 DEF ready, needsColumn

(* A read finds the bus free from the start of its burst on: the ranks'    *)
(* own times keep it apart from earlier bursts.                            *)
LEMMA ReadBurst ==
  ASSUME IInv, BusInv, NEW i \in Slots, read(i)
  PROVE  BusInv'
  <1>1. TypeOK
    BY DEF IInv
  <1>2. PICK k \in Ranks, b \in Banks, row \in Rows :
          k = dramQ[i].req.rank /\ b = dramQ[i].req.bank /\ row = dramQ[i].req.row
    BY <1>1, RefType
  <1>3. canIssueRead(k, b, row)
    BY <1>1, <1>2, ScheduledReady DEF read
  <1>4. /\ rank' = [rankNow EXCEPT ![k].lastRead = 0]
        /\ chan' = [chanNow EXCEPT !.lastRead = 0]
        /\ \A o \in Offsets :
             bus'[o] = busNow[o] + (IF o \in tCL .. tCL + HalfBL - 1 THEN 1 ELSE 0)
    BY <1>2 DEF read, complete
  <1>5. /\ rankNow \in [Ranks -> Rank] /\ busNow \in [Offsets -> Nat]
        /\ chanNow \in [lastRead: -Skew .. Cap, lastWrite: -Skew .. Cap]
        /\ \A j \in Ranks : rankNow[j].lastRead \in Nat /\ rankNow[j].lastWrite \in Nat
    BY <1>1, NowType DEF Rank, Time
  <1>6. \A j \in Ranks : /\ rankNow[j].lastRead >= HalfBL
                         /\ rankNow[j].lastWrite + tCL >= tWL + HalfBL
    <2>1. /\ rankNow[k].lastRead >= tCCD
          /\ rankNow[k].lastWrite >= tWTR + tWL + HalfBL
      BY <1>3, <1>5, TimingFacts DEF canIssueRead, rankCanIssueColumn, tooSoon
    <2>2. \A j \in Ranks \ {k} : /\ rankNow[j].lastRead >= tRTRS + HalfBL
                                 /\ rankNow[j].lastWrite + tCL >= tRTRS + tWL + HalfBL
      BY <1>3, <1>5, TimingFacts DEF canIssueRead, tooSoon
    <2> QED BY <1>5, <2>1, <2>2, TimingFacts
  <1>7. OneBurst(busNow, rankNow, chanNow)
    BY <1>1, BurstsAdvance
  <1>8. /\ rank'[k].lastRead = 0 /\ chan'.lastRead = 0 /\ chan'.lastWrite = chanNow.lastWrite
        /\ \A j \in Ranks : rank'[j].lastWrite = rankNow[j].lastWrite
    BY <1>4, <1>5 DEF Rank
  <1>9. ASSUME NEW o \in Offsets, busNow[o] # 0 PROVE busNow[o] = 1 /\ o < tCL
    <2>1. o \in Nat
      BY OffsetsNat
    <2>2. busNow[o] = 1 /\ (beforeReadEnds(o, rankNow, chanNow) \/ beforeWriteEnds(o, rankNow, chanNow))
      BY <1>7, <1>9 DEF OneBurst
    <2>3. beforeReadEnds(o, rankNow, chanNow) => o < tCL
      BY <1>5, <1>6, <2>1, TimingFacts DEF beforeReadEnds
    <2>4. beforeWriteEnds(o, rankNow, chanNow) => o < tCL
      BY <1>5, <1>6, <2>1, TimingFacts DEF beforeWriteEnds
    <2> QED BY <2>2, <2>3, <2>4
  <1>10. ASSUME NEW o \in Offsets, bus'[o] # 0
         PROVE  bus'[o] = 1 /\ beforeReadEnds(o, rank', chan')
    <2>1. o \in Nat /\ busNow[o] \in Nat
      BY <1>5, OffsetsNat
    <2>2. bus'[o] = 1 /\ o < tCL + HalfBL
      BY <1>4, <1>9, <1>10, <2>1, TimingFacts
    <2>3. rank'[k].lastRead = chan'.lastRead /\ chan'.lastRead + o < tCL + HalfBL
      BY <1>8, <2>1, <2>2
    <2> QED BY <2>2, <2>3 DEF beforeReadEnds
  <1> QED BY <1>10 DEF BusInv, OneBurst

(* So does a write, by the channel's times.                                *)
LEMMA WriteBurst ==
  ASSUME IInv, BusInv, NEW i \in Slots, write(i)
  PROVE  BusInv'
  <1>1. TypeOK
    BY DEF IInv
  <1>2. PICK k \in Ranks, b \in Banks, row \in Rows :
          k = dramQ[i].req.rank /\ b = dramQ[i].req.bank /\ row = dramQ[i].req.row
    BY <1>1, RefType
  <1>3. canIssueWrite(k, b, row)
    BY <1>1, <1>2, ScheduledReady DEF write
  <1>4. /\ rank' = [rankNow EXCEPT ![k].lastWrite = 0]
        /\ chan' = [chanNow EXCEPT !.lastWrite = 0]
        /\ \A o \in Offsets :
             bus'[o] = busNow[o] + (IF o \in tWL .. tWL + HalfBL - 1 THEN 1 ELSE 0)
    BY <1>2 DEF write, complete
  <1>5. /\ rankNow \in [Ranks -> Rank] /\ busNow \in [Offsets -> Nat]
        /\ chanNow \in [lastRead: -Skew .. Cap, lastWrite: -Skew .. Cap]
        /\ \A j \in Ranks : rankNow[j].lastRead \in Nat /\ rankNow[j].lastWrite \in Nat
    BY <1>1, NowType DEF Rank, Time
  <1>6. /\ rankNow[k].lastWrite >= HalfBL
        /\ chanNow.lastRead >= 0 => chanNow.lastRead + tWL >= tCL + HalfBL
        /\ numRanks > 1 /\ chanNow.lastWrite >= 0 => chanNow.lastWrite >= HalfBL
    <2>1. rankNow[k].lastWrite >= tCCD
      BY <1>3, <1>5, TimingFacts DEF canIssueWrite, rankCanIssueColumn, tooSoon
    <2>2. chanNow.lastRead >= 0 => chanNow.lastRead + tWL >= tRTRS + tCL + HalfBL
      BY <1>3, <1>5, TimingFacts DEF canIssueWrite, tooSoon
    <2>3. numRanks > 1 /\ chanNow.lastWrite >= 0 => chanNow.lastWrite >= tOST + HalfBL
      BY <1>3, <1>5, TimingFacts DEF canIssueWrite, tooSoon
    <2> QED BY <1>5, <2>1, <2>2, <2>3, TimingFacts
  <1>7. OneBurst(busNow, rankNow, chanNow)
    BY <1>1, BurstsAdvance
  <1>8. /\ rank'[k].lastWrite = 0 /\ chan'.lastWrite = 0 /\ chan'.lastRead = chanNow.lastRead
        /\ \A j \in Ranks : rank'[j].lastRead = rankNow[j].lastRead
    BY <1>4, <1>5 DEF Rank
  <1>9. ASSUME NEW o \in Offsets, busNow[o] # 0 PROVE busNow[o] = 1 /\ o < tWL
    <2>1. o \in Nat
      BY OffsetsNat
    <2>2. busNow[o] = 1 /\ (beforeReadEnds(o, rankNow, chanNow) \/ beforeWriteEnds(o, rankNow, chanNow))
      BY <1>7, <1>9 DEF OneBurst
    <2>3. beforeReadEnds(o, rankNow, chanNow) => o < tWL
      BY <1>5, <1>6, <2>1, TimingFacts DEF beforeReadEnds
    <2>4. ASSUME beforeWriteEnds(o, rankNow, chanNow) PROVE o < tWL
      <3>1. PICK j \in Ranks : rankNow[j].lastWrite = chanNow.lastWrite
        BY <2>4 DEF beforeWriteEnds
      <3>2. chanNow.lastWrite \in Nat /\ chanNow.lastWrite + o < tWL + HalfBL
        BY <1>5, <2>4, <3>1 DEF beforeWriteEnds
      <3>3. numRanks > 1 \/ j = k
        BY SizeAssumption DEF Ranks
      <3>4. chanNow.lastWrite >= HalfBL
        BY <1>6, <3>1, <3>2, <3>3
      <3> QED BY <2>1, <3>2, <3>4, TimingFacts
    <2> QED BY <2>2, <2>3, <2>4
  <1>10. ASSUME NEW o \in Offsets, bus'[o] # 0
         PROVE  bus'[o] = 1 /\ beforeWriteEnds(o, rank', chan')
    <2>1. o \in Nat /\ busNow[o] \in Nat
      BY <1>5, OffsetsNat
    <2>2. bus'[o] = 1 /\ o < tWL + HalfBL
      BY <1>4, <1>9, <1>10, <2>1, TimingFacts
    <2>3. rank'[k].lastWrite = chan'.lastWrite /\ chan'.lastWrite + o < tWL + HalfBL
      BY <1>8, <2>1, <2>2
    <2> QED BY <2>2, <2>3 DEF beforeWriteEnds
  <1> QED BY <1>10 DEF BusInv, OneBurst

(* No other command puts anything on the bus.                              *)
LEMMA QuietBus ==
  ASSUME TypeOK, BusInv, bus' = busNow, chan' = chanNow,
         \A k \in Ranks : /\ rank'[k].lastRead = rankNow[k].lastRead
                          /\ rank'[k].lastWrite = rankNow[k].lastWrite
  PROVE  BusInv'
  BY BurstsAdvance DEF BusInv, OneBurst, beforeReadEnds, beforeWriteEnds

LEMMA NextBus ==
  ASSUME IInv, BusInv, [Next]_vars
  PROVE  BusInv'
  <1>1. TypeOK /\ rankNow \in [Ranks -> Rank]
    BY NowType DEF IInv
  <1>2. CASE UNCHANGED vars
    BY <1>2 DEF vars, BusInv, OneBurst, beforeReadEnds, beforeWriteEnds
  <1>3. ASSUME NEW r \in Request, arrive(r) PROVE BusInv'
    BY <1>3 DEF arrive, BusInv, OneBurst, beforeReadEnds, beforeWriteEnds
  <1>4. CASE nop
    BY <1>1, <1>4, QuietBus DEF nop
  <1>5. ASSUME NEW i \in Slots, precharge(i) \/ activate(i) PROVE BusInv'
    <2>1. /\ bus' = busNow /\ chan' = chanNow
          /\ \E n : rank' = [rankNow EXCEPT ![dramQ[i].req.rank].numActive = n]
      BY <1>5 DEF precharge, activate
    <2>2. \A k \in Ranks : /\ rank'[k].lastRead = rankNow[k].lastRead
                           /\ rank'[k].lastWrite = rankNow[k].lastWrite
      BY <1>1, <2>1 DEF Rank
    <2> QED BY <1>1, <2>1, <2>2, QuietBus
  <1> QED BY <1>2, <1>3, <1>4, <1>5, ReadBurst, WriteBurst DEF Next, clock

(* The data bus is never driven by two bursts at once, for any number of   *)
(* ranks and any timing with bursts no longer than tCCD: also not right    *)
(* after start-up, when the channel's times are whatever they were.        *)
THEOREM BusNeverShared == Spec => []BusNoOverlap
  <1>1. Init => BusInv
    BY DEF Init, BusInv, OneBurst
  <1>2. IInv /\ BusInv /\ [Next]_vars => BusInv'
    BY NextBus
  <1>3. IInv /\ BusInv => BusNoOverlap
    BY DEF BusInv, OneBurst, BusNoOverlap, IInv, TypeOK
  <1> QED BY <1>1, <1>2, <1>3, InitIInv, NextIInv, PTL DEF Spec
=============================================================================
