-------------------------------- MODULE DDR2 --------------------------------
(***************************************************************************)
(* One channel of the DRAM controller of libmem: the arrival queue, the    *)
(* scheduling queue with its free list, the ranks and banks with their     *)
(* timing, and the schedulers: first-come first-served, which clock calls, *)
(* and first-ready first-come first-served, the alternative beside it.     *)
(*                                                                         *)
(* The code keeps the DRAM clock and, per bank, rank and channel, the time *)
(* of the last command of each kind, and compares their difference with a  *)
(* timing parameter.  The model keeps the difference: the clocks since the *)
(* command, counted up to Cap, which no parameter exceeds.                 *)
(***************************************************************************)
EXTENDS Integers, Sequences, FiniteSets, FiniteSetsExt

CONSTANTS
  numRanks, numBanks, numRows, queueSize,
  tRCD, tCL, tWL, tCCD, tWTR, tWR, tRTP, tRP, tRRD, tRAS, tRC, tRTRS, tOST,
  tRFC,
  HalfBL,        (* BL/2: clocks a burst occupies the data bus             *)
  Policies,      (* the schedulers a build may call: FCFS, FRFCFS          *)
  Cap,           (* bound: clocks since a command are counted up to here   *)
  Skew,          (* bound: how far ahead an uninitialised time may lie     *)
  ArrivalBound   (* bound: requests in the arrival queue                   *)

Ranks == 0 .. numRanks - 1
Banks == 0 .. numBanks - 1
Rows  == 0 .. numRows - 1
Slots == 0 .. queueSize - 1

Timings == {tRCD, tCL, tWL, tCCD, tWTR, tWR, tRTP, tRP, tRRD, tRAS, tRC, tRTRS,
            tOST, tRFC, HalfBL}

ASSUME SizeAssumption ==
  /\ {numRanks, numBanks, numRows, queueSize} \subseteq Nat \ {0}
  /\ ArrivalBound \in Nat /\ Policies \subseteq {"FCFS", "FRFCFS"}
ASSUME TimingAssumption ==
  /\ Timings \subseteq Nat \ {0} /\ Cap \in Nat /\ Skew \in Nat
  /\ \A t \in {tWR + tWL + HalfBL, tWTR + tWL + HalfBL, tRTRS + tWL + HalfBL,
               tRTRS + tCL + HalfBL, tOST + HalfBL, tRCD, tCCD, tRTP, tRP,
               tRRD, tRAS, tRC, tRFC} : t <= Cap
  /\ tCCD >= HalfBL

VARIABLES
  arrivalQ,   (* the linked list of arrived requests, head first           *)
  dramQ,      (* dramQ[i]: the reference in slot i                         *)
  freeList,   (* free slots, a FIFO                                        *)
  bank,       (* bank[k][b]: state and timing of a bank                    *)
  rank,       (* rank[k]: timing and numActive of a rank                   *)
  chan,       (* timing of the channel                                     *)
  policy,     (* the scheduler clock calls, fixed when the program is built*)
  bus         (* history: bus[o]: bursts on the data bus o clocks from now *)

vars == <<arrivalQ, dramQ, freeList, bank, rank, chan, policy, bus>>

Time == 0 .. Cap
Request == [rank: Ranks, bank: Banks, row: Rows, read: BOOLEAN]
MemRef == [valid: BOOLEAN, req: Request,
           prechargePending: BOOLEAN, activatePending: BOOLEAN,
           timeStamp: Nat]  (* clock of its enqueue, as a rank             *)
Bank == [state: {"IDLE", "ACTIVE"}, openRowID: Rows \cup {-1},
         lastPrecharge: Time, lastActivate: Time, lastRead: Time,
         lastWrite: Time]
Rank == [lastRead: Time, lastWrite: Time, lastRefresh: Time, numActive: 0 .. numBanks]
Offsets == 0 .. Cap + HalfBL

(* The types; no rank ever counts fewer than 0 or more than numBanks open  *)
(* banks, and every countdown stays within its bound.                      *)
TypeOK ==
  /\ arrivalQ \in Seq(Request) /\ Len(arrivalQ) <= ArrivalBound
  /\ dramQ \in [Slots -> MemRef]
  /\ freeList \in Seq(Slots)
  /\ bank \in [Ranks -> [Banks -> Bank]]
  /\ rank \in [Ranks -> Rank]
  /\ chan \in [lastRead: -Skew .. Cap, lastWrite: -Skew .. Cap]
  /\ policy \in Policies
  /\ bus \in [Offsets -> Nat]

NoRef == [valid |-> FALSE,
          req |-> [rank |-> 0, bank |-> 0, row |-> 0, read |-> TRUE],
          prechargePending |-> TRUE, activatePending |-> TRUE,
          timeStamp |-> 0]

(* The channel's lastRead and lastWrite are never initialised: any value,  *)
(* a little before, at, or a little after the first clock.                 *)
Init ==
  /\ arrivalQ = <<>>
  /\ dramQ = [i \in Slots |-> NoRef]
  /\ freeList = [n \in 1 .. queueSize |-> n - 1]
  /\ bank = [k \in Ranks |-> [b \in Banks |->
               [state |-> "IDLE", openRowID |-> -1, lastPrecharge |-> 0,
                lastActivate |-> 0, lastRead |-> 0, lastWrite |-> 0]]]
  /\ rank = [k \in Ranks |-> [lastRead |-> 0, lastWrite |-> 0, lastRefresh |-> 0,
                              numActive |-> 0]]
  /\ chan \in [lastRead: -Skew .. Cap, lastWrite: -Skew .. Cap]
  /\ policy \in Policies
  /\ bus = [o \in Offsets |-> 0]
-----------------------------------------------------------------------------
(* Bus::access on the memory bus, DDR2::arrive.                            *)
arrive(r) ==
  /\ Len(arrivalQ) < ArrivalBound
  /\ arrivalQ' = Append(arrivalQ, r)
  /\ UNCHANGED <<dramQ, freeList, bank, rank, chan, policy, bus>>

(***************************************************************************)
(* The clock advances: one more clock since every command.                 *)
(***************************************************************************)
later(t) == IF t < Cap THEN t + 1 ELSE Cap

(* Differences are unsigned: a command in the future is long ago.          *)
tooSoon(since, t) == since >= 0 /\ since < t

bankNow == [k \in Ranks |-> [b \in Banks |->
  [bank[k][b] EXCEPT !.lastPrecharge = later(@), !.lastActivate = later(@),
                     !.lastRead = later(@), !.lastWrite = later(@)]]]
rankNow == [k \in Ranks |->
  [rank[k] EXCEPT !.lastRead = later(@), !.lastWrite = later(@),
                  !.lastRefresh = later(@)]]
chanNow == [lastRead |-> later(chan.lastRead), lastWrite |-> later(chan.lastWrite)]
busNow == [o \in Offsets |-> IF o + 1 \in Offsets THEN bus[o + 1] ELSE 0]

(***************************************************************************)
(* DDR2Rank and DDR2: may a command be issued now?                         *)
(***************************************************************************)
canIssuePrecharge(k, b) ==
  LET n == bankNow[k][b] IN
  /\ ~tooSoon(n.lastWrite, tWR + tWL + HalfBL)
  /\ ~tooSoon(n.lastRead, tRTP)
  /\ ~tooSoon(n.lastActivate, tRAS)

canIssueActivate(k, b) ==
  LET n == bankNow[k][b] IN
  /\ ~tooSoon(rankNow[k].lastRefresh, tRFC)
  /\ ~tooSoon(n.lastPrecharge, tRP)
  /\ \A c \in Banks \ {b} : ~tooSoon(bankNow[k][c].lastActivate, tRRD)
  /\ ~tooSoon(n.lastActivate, tRC)

rankCanIssueColumn(k, b, row) ==
  /\ bank[k][b].openRowID = row
  /\ ~tooSoon(bankNow[k][b].lastActivate, tRCD)
  /\ ~tooSoon(rankNow[k].lastRead, tCCD) /\ ~tooSoon(rankNow[k].lastWrite, tCCD)

(* Mutant: no turn-around time between the ranks' bursts.                  *)
mutNoRankSwitch(k, b, row) ==
  /\ rankCanIssueColumn(k, b, row)
  /\ ~tooSoon(rankNow[k].lastWrite, tWTR + tWL + HalfBL)

canIssueRead(k, b, row) ==
  /\ rankCanIssueColumn(k, b, row)
  /\ ~tooSoon(rankNow[k].lastWrite, tWTR + tWL + HalfBL)
  /\ \A j \in Ranks \ {k} :
       /\ ~tooSoon(rankNow[j].lastRead, tRTRS + HalfBL)
       /\ ~tooSoon(rankNow[j].lastWrite + tCL, tRTRS + tWL + HalfBL)

canIssueWrite(k, b, row) ==
  /\ rankCanIssueColumn(k, b, row)
  /\ ~tooSoon(chanNow.lastRead + tWL, tRTRS + tCL + HalfBL)
  /\ numRanks > 1 => ~tooSoon(chanNow.lastWrite, tOST + HalfBL)

(***************************************************************************)
(* DDR2::enqueue, for as many arrivals as there are free slots             *)
(***************************************************************************)
(* Mutant: the state of the bank is not looked at, only its row.           *)
mutStaleRow(r, bks) == r.row # bks[r.rank][r.bank].openRowID

needsPrecharge(r, bks) ==
  LET n == bks[r.rank][r.bank] IN n.state = "ACTIVE" /\ r.row # n.openRowID
needsActivate(r, bks) ==
  LET n == bks[r.rank][r.bank] IN n.state = "IDLE" \/ r.row # n.openRowID

nEnqueued == Min({Len(freeList), Len(arrivalQ)})

enqueued ==
  [i \in Slots |->
     IF \E n \in 1 .. nEnqueued : freeList[n] = i
     THEN LET n == CHOOSE n \in 1 .. nEnqueued : freeList[n] = i
              r == arrivalQ[n] IN
          [valid |-> TRUE, req |-> r,
           prechargePending |-> needsPrecharge(r, bank),
           activatePending |-> needsActivate(r, bank),
           timeStamp |-> queueSize]
     ELSE dramQ[i]]

(* Time stamps are only compared with one another: they are renumbered     *)
(* from 0 on, equal ones staying equal.                                    *)
renumber(q) ==
  LET valid == {i \in Slots : q[i].valid} IN
  [i \in Slots |->
     IF i \notin valid THEN q[i]
     ELSE [q[i] EXCEPT
             !.timeStamp = Cardinality({q[j].timeStamp : j \in valid}
                                         \cap 0 .. q[i].timeStamp - 1)]]

(* Mutant: the pending flags are not refreshed.                            *)
mutNoUpdate(q, bks) == q

(* DDR2::updateQueueState, after a precharge or an activate.               *)
updateQueueState(q, bks) ==
  [i \in Slots |->
     IF q[i].valid
     THEN [q[i] EXCEPT !.prechargePending = needsPrecharge(q[i].req, bks),
                       !.activatePending = needsActivate(q[i].req, bks)]
     ELSE q[i]]

(***************************************************************************)
(* The reference whose next command is issued: the one with the oldest time*)
(* stamp, the first slot among several; one enqueued in this very clock is *)
(* not considered.  scheduleFCFS takes the oldest and waits until it is    *)
(* ready; scheduleFRFCFS takes the oldest ready for its column access, or  *)
(* else the oldest ready for a precharge or an activate.                   *)
(***************************************************************************)
candidates == {i \in Slots : dramQ[i].valid}
needsColumn(i) == ~dramQ[i].prechargePending /\ ~dramQ[i].activatePending

ready(i) ==
  LET r == dramQ[i].req IN
  CASE dramQ[i].prechargePending -> canIssuePrecharge(r.rank, r.bank)
    [] ~dramQ[i].prechargePending /\ dramQ[i].activatePending ->
         canIssueActivate(r.rank, r.bank)
    [] needsColumn(i) /\ r.read  -> canIssueRead(r.rank, r.bank, r.row)
    [] needsColumn(i) /\ ~r.read -> canIssueWrite(r.rank, r.bank, r.row)

(* Mutant: the first slot in use, whatever its age.                        *)
mutFirstSlot(i, refs) == i \in refs /\ \A j \in refs : i <= j

oldest(i, refs) ==
  /\ i \in refs
  /\ \A j \in refs :
       /\ dramQ[i].timeStamp <= dramQ[j].timeStamp
       /\ j < i => dramQ[i].timeStamp < dramQ[j].timeStamp

scheduleFCFS(i) == oldest(i, candidates) /\ ready(i)

scheduleFRFCFS(i) ==
  LET readyRefs == {j \in candidates : ready(j)}
      columns   == {j \in readyRefs : needsColumn(j)} IN
  oldest(i, IF columns # {} THEN columns ELSE readyRefs)

scheduled(i) == IF policy = "FCFS" THEN scheduleFCFS(i) ELSE scheduleFRFCFS(i)

advance ==
  /\ freeList' = SubSeq(freeList, nEnqueued + 1, Len(freeList))
  /\ arrivalQ' = SubSeq(arrivalQ, nEnqueued + 1, Len(arrivalQ))
  /\ UNCHANGED policy

precharge(i) ==
  LET r == dramQ[i].req
      k == r.rank
      b == r.bank IN
  /\ scheduled(i) /\ dramQ[i].prechargePending
  /\ bank' = [bankNow EXCEPT ![k][b].state = "IDLE", ![k][b].lastPrecharge = 0]
  /\ rank' = [rankNow EXCEPT ![k].numActive = @ - 1]
  /\ dramQ' = renumber(updateQueueState(enqueued, bank'))
  /\ chan' = chanNow /\ bus' = busNow
  /\ advance

activate(i) ==
  LET r == dramQ[i].req
      k == r.rank
      b == r.bank IN
  /\ scheduled(i) /\ ~dramQ[i].prechargePending /\ dramQ[i].activatePending
  /\ bank' = [bankNow EXCEPT ![k][b].state = "ACTIVE", ![k][b].openRowID = r.row,
                             ![k][b].lastActivate = 0]
  /\ rank' = [rankNow EXCEPT ![k].numActive = @ + 1]
  /\ dramQ' = renumber(updateQueueState(enqueued, bank'))
  /\ chan' = chanNow /\ bus' = busNow
  /\ advance

(* MemRef::complete and the slot's return to the free list; the burst      *)
(* occupies the data bus from `start' on.                                  *)
complete(i, start) ==
  /\ dramQ' = renumber([enqueued EXCEPT ![i] = NoRef])
  /\ freeList' = Append(SubSeq(freeList, nEnqueued + 1, Len(freeList)), i)
  /\ arrivalQ' = SubSeq(arrivalQ, nEnqueued + 1, Len(arrivalQ))
  /\ UNCHANGED policy
  /\ bus' = [o \in Offsets |->
               busNow[o] + (IF o \in start .. start + HalfBL - 1 THEN 1 ELSE 0)]

read(i) ==
  LET r == dramQ[i].req
      k == r.rank
      b == r.bank IN
  /\ scheduled(i) /\ needsColumn(i) /\ r.read
  /\ bank' = [bankNow EXCEPT ![k][b].lastRead = 0]
  /\ rank' = [rankNow EXCEPT ![k].lastRead = 0]
  /\ chan' = [chanNow EXCEPT !.lastRead = 0]
  /\ complete(i, tCL)

write(i) ==
  LET r == dramQ[i].req
      k == r.rank
      b == r.bank IN
  /\ scheduled(i) /\ needsColumn(i) /\ ~r.read
  /\ bank' = [bankNow EXCEPT ![k][b].lastWrite = 0]
  /\ rank' = [rankNow EXCEPT ![k].lastWrite = 0]
  /\ chan' = [chanNow EXCEPT !.lastWrite = 0]
  /\ complete(i, tWL)

nop ==
  /\ ~\E i \in Slots : scheduled(i)
  /\ dramQ' = renumber(enqueued)
  /\ bank' = bankNow /\ rank' = rankNow /\ chan' = chanNow /\ bus' = busNow
  /\ advance

clock ==
  \/ nop
  \/ \E i \in Slots : precharge(i) \/ activate(i) \/ read(i) \/ write(i)

Next == clock \/ \E r \in Request : arrive(r)

Spec == Init /\ [][Next]_vars
FairSpec == Spec /\ WF_vars(clock)
-----------------------------------------------------------------------------
(* The data bus is never driven by two bursts at once, whatever mix of     *)
(* reads and writes, ranks and banks the references bring: tCCD, tWTR,     *)
(* tRTRS and tOST together keep the bursts apart.                          *)
BusNoOverlap == \A o \in Offsets : bus[o] <= 1

(* The cached needs of a waiting reference are those of its bank, although *)
(* other references open and close rows under it.                          *)
PendingFlagsFresh ==
  \A i \in candidates :
    /\ dramQ[i].prechargePending = needsPrecharge(dramQ[i].req, bank)
    /\ dramQ[i].activatePending = needsActivate(dramQ[i].req, bank)

(* numActive, on which the power state and its energy depend, counts the   *)
(* banks with an open row: rows are closed only when open, and opened only *)
(* when closed.                                                            *)
NumActiveExact ==
  \A k \in Ranks :
    rank[k].numActive = Cardinality({b \in Banks : bank[k][b].state = "ACTIVE"})

(* A reference is completed by a column access to its own row, open in its *)
(* bank.                                                                   *)
ColumnHitsOpenRow ==
  [][\A i \in Slots :
       dramQ[i].valid /\ ~dramQ'[i].valid =>
         LET r == dramQ[i].req IN
         /\ bank[r.rank][r.bank].state = "ACTIVE"
         /\ bank[r.rank][r.bank].openRowID = r.row]_vars

(* Every reference in the scheduling queue completes.                      *)
EveryReferenceCompletes == \A i \in Slots : dramQ[i].valid ~> ~dramQ[i].valid
=============================================================================
