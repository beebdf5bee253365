----------------------------- MODULE SingleMSHR -----------------------------
(***************************************************************************)
(* SingleMSHR of libsuc: the buffer of outstanding requests of a cache,    *)
(* one entry per line with a limited number of read and write subentries,  *)
(* and an overflow queue for what does not fit.                            *)
(*                                                                         *)
(* retire calls the callback of the next request of the line before it     *)
(* returns, and checkOverflow calls the overflow callback of a request it  *)
(* moves into an entry.  Such a callback may retire its own request at     *)
(* once (a hit), which re-enters retire and checkOverflow, and may bring   *)
(* new requests.  `stack' holds the active calls, innermost first.         *)
(***************************************************************************)
EXTENDS Integers, Sequences, FiniteSets

CONSTANTS
  Requests,   (* requests of the cache, each used again once retired       *)
  Lines,      (* line addresses                                            *)
  nEntries,   (* entries of the buffer                                     *)
  nReads,     (* read subentries of an entry                               *)
  WriteSizes, (* values a configuration gives nWrites                      *)
  None        (* no request                                                *)

ASSUME SizeAssumption ==
  nEntries \in Nat \ {0} /\ nReads \in Nat \ {0} /\ WriteSizes \subseteq Nat
ASSUME RequestAssumption == None \notin Requests /\ IsFiniteSet(Lines)

Op == {"MemRead", "MemWrite"}

VARIABLES
  nWrites,            (* write subentries of an entry, set by the          *)
                      (* constructor; 0: writes share the read subentries  *)
  ms,                 (* lines with an entry                               *)
  entry,              (* entry[a]: the MSHRentry of line a                 *)
  nFreeEntries,
  nFullReadEntries,
  nFullWriteEntries,
  overflow,           (* the overflow queue                                *)
  checkingOverflow,
  pc,                 (* pc[r]: where request r is                         *)
  rline, rop,         (* rline[r], rop[r]: its line and its operation;     *)
                      (* a request that is idle has none                   *)
  stack

vars == <<ms, entry, nFreeEntries, nFullReadEntries, nFullWriteEntries,
          overflow, checkingOverflow, pc, rline, rop, stack, nWrites>>

Entry == [nFreeReads: Nat, nFreeWrites: Nat, nFreeSEntries: Nat,
          cc: Seq(Requests)]
NoEntry == [nFreeReads |-> 0, nFreeWrites |-> 0, nFreeSEntries |-> 0,
            cc |-> <<>>]

(* Active calls: the callback of a request; checkOverflow just called; its *)
(* loop; its loop with the overflow callback of the front active above it. *)
Frame == [call: {"callback"}, r: Requests]
         \cup [call: {"check", "loop", "pop"}, r: {None}]
callback(r) == [call |-> "callback", r |-> r]
frame(call) == [call |-> call, r |-> None]

(* The types, and no MSHR entry holds more requests than it has room for.  *)
TypeOK ==
  /\ ms \in SUBSET Lines
  /\ entry \in [Lines -> Entry]
  /\ nFreeEntries \in Nat /\ nFullReadEntries \in Int /\ nFullWriteEntries \in Int
  /\ overflow \in Seq(Requests)
  /\ checkingOverflow \in BOOLEAN
  /\ pc \in [Requests -> {"idle", "overflow", "queued", "owner"}]
  /\ rline \in [Requests -> Lines \cup {None}]
  /\ rop \in [Requests -> Op]
  /\ stack \in Seq(Frame)
  /\ nWrites \in WriteSizes

Init ==
  /\ nWrites \in WriteSizes
  /\ ms = {}
  /\ entry = [a \in Lines |-> NoEntry]
  /\ nFreeEntries = nEntries
  /\ nFullReadEntries = 0
  /\ nFullWriteEntries = 0
  /\ overflow = <<>>
  /\ checkingOverflow = FALSE
  /\ pc = [r \in Requests |-> "idle"]
  /\ rline = [r \in Requests |-> None]
  /\ rop = [r \in Requests |-> "MemRead"]
  /\ stack = <<>>
-----------------------------------------------------------------------------
(***************************************************************************)
(* MSHRentry                                                               *)
(***************************************************************************)
rdWrSharing == nWrites = 0

firstRequest(op) ==
  [nFreeReads    |-> nReads - (IF op = "MemRead" THEN 1 ELSE 0),
   nFreeWrites   |-> (IF rdWrSharing THEN nReads ELSE nWrites)
                       - (IF op = "MemWrite" THEN 1 ELSE 0),
   nFreeSEntries |-> nReads + nWrites - 1,
   cc            |-> <<>>]

hasFreeReads(e)  == e.nFreeSEntries > 0 /\ e.nFreeReads > 0
hasFreeWrites(e) == e.nFreeSEntries > 0 /\ e.nFreeWrites > 0

canAcceptRequest(e, op) ==
  IF op = "MemWrite" THEN hasFreeWrites(e) ELSE hasFreeReads(e)

(* MSHRentry::addRequest, when it accepts the request.                     *)
addRequest(e, r, op) ==
  [e EXCEPT !.nFreeReads    = IF op = "MemRead" THEN @ - 1 ELSE @,
            !.nFreeWrites   = IF op = "MemWrite" THEN @ - 1 ELSE @,
            !.nFreeSEntries = @ - 1,
            !.cc            = Append(@, r)]

(* Mutant: sharing is forgotten.                                           *)
mutForgetSharing(e, op) == ~hasFreeReads(e) /\ op = "MemRead"

(* SingleMSHR::checkSubEntries: has the request of kind op just filled e?  *)
fillsReads(e, op) ==
  IF rdWrSharing THEN ~hasFreeReads(e) \/ ~hasFreeWrites(e)
                 ELSE ~hasFreeReads(e) /\ op = "MemRead"
fillsWrites(e, op) ==
  IF rdWrSharing THEN ~hasFreeReads(e) \/ ~hasFreeWrites(e)
                 ELSE ~hasFreeWrites(e) /\ op = "MemWrite"

checkSubEntries(e, op) ==
  /\ nFullReadEntries' = nFullReadEntries + (IF fillsReads(e, op) THEN 1 ELSE 0)
  /\ nFullWriteEntries' = nFullWriteEntries + (IF fillsWrites(e, op) THEN 1 ELSE 0)

(* A new entry for line a, owned by request r.                             *)
newEntry(r, a, op) ==
  LET e == firstRequest(op) IN
  /\ ms' = ms \cup {a}
  /\ entry' = [entry EXCEPT ![a] = e]
  /\ nFreeEntries' = nFreeEntries - 1
  /\ checkSubEntries(e, op)
  /\ pc' = [pc EXCEPT ![r] = "owner"]

(* One more request of a line that has an entry.                           *)
addToEntry(r, a, op) ==
  LET e == addRequest(entry[a], r, op) IN
  /\ entry' = [entry EXCEPT ![a] = e]
  /\ checkSubEntries(e, op)
  /\ pc' = [pc EXCEPT ![r] = "queued"]
  /\ UNCHANGED <<ms, nFreeEntries>>

Top(call) == stack # <<>> /\ Head(stack).call = call

(* The cache runs: from an event, or in a callback of the buffer.          *)
CacheRuns == stack = <<>> \/ Top("callback")

(***************************************************************************)
(* SingleMSHR::issue, and addEntry when issue fails: how a cache asks      *)
(***************************************************************************)
arrives(r, a, op) ==
  /\ CacheRuns /\ pc[r] = "idle"
  /\ rline' = [rline EXCEPT ![r] = a]
  /\ rop' = [rop EXCEPT ![r] = op]
  /\ UNCHANGED <<checkingOverflow, stack, nWrites>>

(* Mutant: a line that has an entry is given another one.                  *)
mutAlias(r, a, op) ==
  /\ arrives(r, a, op)
  /\ overflow = <<>> /\ nFreeEntries > 0
  /\ newEntry(r, a, op)
  /\ UNCHANGED overflow

issue(r, a, op) ==
  /\ arrives(r, a, op)
  /\ overflow = <<>> /\ a \notin ms /\ nFreeEntries > 0
  /\ newEntry(r, a, op)
  /\ UNCHANGED overflow

addEntry(r, a, op) ==
  /\ arrives(r, a, op)
  /\ overflow = <<>> /\ a \in ms /\ canAcceptRequest(entry[a], op)
  /\ addToEntry(r, a, op)
  /\ UNCHANGED overflow

toOverflow(r, a, op) ==
  /\ arrives(r, a, op)
  /\ \/ overflow # <<>>
     \/ a \notin ms /\ nFreeEntries <= 0
     \/ a \in ms /\ ~canAcceptRequest(entry[a], op)
  /\ overflow' = Append(overflow, r)
  /\ pc' = [pc EXCEPT ![r] = "overflow"]
  /\ UNCHANGED <<ms, entry, nFreeEntries, nFullReadEntries, nFullWriteEntries>>

(***************************************************************************)
(* SingleMSHR::retire, called by the owner r of a line from an event or    *)
(* from its own callback; checkOverflow runs when the next request of the  *)
(* line has been called back, or the entry is gone.                        *)
(***************************************************************************)
(* Mutant: a request that went below the cache is forgotten.               *)
mutOnlyHits(r) == pc[r] = "owner" /\ Top("callback") /\ Head(stack).r = r

mayRetire(r) ==
  /\ pc[r] = "owner"
  /\ stack = <<>> \/ (Top("callback") /\ Head(stack).r = r)

(* The request is destroyed.                                               *)
destroy(r) ==
  /\ rline' = [rline EXCEPT ![r] = None]
  /\ rop' = [rop EXCEPT ![r] = "MemRead"]

(* Mutant: the youngest waiter is called.                                  *)
mutYoungest(r) ==
  LET a    == rline[r]
      cc   == entry[a].cc
      next == cc[Len(cc)] IN
  /\ mayRetire(r) /\ cc # <<>>
  /\ entry' = [entry EXCEPT ![a].cc = SubSeq(cc, 1, Len(cc) - 1)]
  /\ pc' = [pc EXCEPT ![r] = "idle", ![next] = "owner"]
  /\ stack' = <<callback(next), frame("check")>> \o stack
  /\ destroy(r)
  /\ UNCHANGED <<ms, nFreeEntries, nFullReadEntries, nFullWriteEntries, overflow,
                 checkingOverflow, nWrites>>

retireNext(r) ==
  LET a    == rline[r]
      next == Head(entry[a].cc) IN
  /\ mayRetire(r) /\ entry[a].cc # <<>>
  /\ entry' = [entry EXCEPT ![a].cc = Tail(@)]
  /\ pc' = [pc EXCEPT ![r] = "idle", ![next] = "owner"]
  /\ stack' = <<callback(next), frame("check")>> \o stack
  /\ destroy(r)
  /\ UNCHANGED <<ms, nFreeEntries, nFullReadEntries, nFullWriteEntries, overflow,
                 checkingOverflow, nWrites>>

retireLast(r) ==
  LET a == rline[r]
      e == entry[a] IN
  /\ mayRetire(r) /\ e.cc = <<>>
  /\ ms' = ms \ {a}
  /\ entry' = [entry EXCEPT ![a] = NoEntry]
  /\ nFreeEntries' = nFreeEntries + 1
  /\ nFullReadEntries' = nFullReadEntries - (IF hasFreeReads(e) THEN 0 ELSE 1)
  /\ nFullWriteEntries' = nFullWriteEntries - (IF hasFreeWrites(e) THEN 0 ELSE 1)
  /\ pc' = [pc EXCEPT ![r] = "idle"]
  /\ stack' = <<frame("check")>> \o stack
  /\ destroy(r)
  /\ UNCHANGED <<overflow, checkingOverflow, nWrites>>

(* A callback returns; its request was retired in it, or will be later.    *)
callbackReturns ==
  /\ Top("callback")
  /\ stack' = Tail(stack)
  /\ UNCHANGED <<ms, entry, nFreeEntries, nFullReadEntries, nFullWriteEntries,
                 overflow, checkingOverflow, pc, rline, rop, nWrites>>

(***************************************************************************)
(* SingleMSHR::checkOverflow                                               *)
(***************************************************************************)
checkSkips ==
  /\ Top("check")
  /\ overflow = <<>> \/ checkingOverflow
  /\ stack' = Tail(stack)
  /\ UNCHANGED <<ms, entry, nFreeEntries, nFullReadEntries, nFullWriteEntries,
                 overflow, checkingOverflow, pc, rline, rop, nWrites>>

checkStarts ==
  /\ Top("check")
  /\ overflow # <<>> /\ ~checkingOverflow
  /\ checkingOverflow' = TRUE
  /\ stack' = <<frame("loop")>> \o Tail(stack)
  /\ UNCHANGED <<ms, entry, nFreeEntries, nFullReadEntries, nFullWriteEntries,
                 overflow, pc, rline, rop, nWrites>>

(* The front has no entry and there is room: its overflow callback runs    *)
(* before it is removed from the queue.                                    *)
overflowIssue ==
  LET f == Head(overflow) IN
  /\ Top("loop") /\ overflow # <<>>
  /\ rline[f] \notin ms /\ nFreeEntries > 0
  /\ newEntry(f, rline[f], rop[f])
  /\ stack' = <<callback(f), frame("pop")>> \o Tail(stack)
  /\ UNCHANGED <<overflow, checkingOverflow, rline, rop, nWrites>>

overflowPop ==
  /\ Top("pop")
  /\ overflow' = Tail(overflow)
  /\ stack' = <<frame("loop")>> \o Tail(stack)
  /\ UNCHANGED <<ms, entry, nFreeEntries, nFullReadEntries, nFullWriteEntries,
                 checkingOverflow, pc, rline, rop, nWrites>>

overflowAdd ==
  LET f == Head(overflow) IN
  /\ Top("loop") /\ overflow # <<>>
  /\ rline[f] \in ms /\ canAcceptRequest(entry[rline[f]], rop[f])
  /\ addToEntry(f, rline[f], rop[f])
  /\ overflow' = Tail(overflow)
  /\ UNCHANGED <<checkingOverflow, stack, rline, rop, nWrites>>

(* The front r can neither be given an entry nor added to one.             *)
blocked(r) ==
  IF rline[r] \in ms THEN ~canAcceptRequest(entry[rline[r]], rop[r])
                     ELSE nFreeEntries <= 0

checkEnds ==
  /\ Top("loop")
  /\ overflow # <<>> => blocked(Head(overflow))
  /\ checkingOverflow' = FALSE
  /\ stack' = Tail(stack)
  /\ UNCHANGED <<ms, entry, nFreeEntries, nFullReadEntries, nFullWriteEntries,
                 overflow, pc, rline, rop, nWrites>>

(* Mutant: the requests already overflowing are not looked at.             *)
mutIgnoreQueue(a, op) ==
  IF a \in ms THEN canAcceptRequest(entry[a], op) ELSE nFreeEntries > 0

(* SingleMSHR::canAcceptRequestSpecial: asked before a request is sent.    *)
canAcceptRequestSpecial(a, op) ==
  /\ overflow = <<>>
  /\ IF a \in ms THEN canAcceptRequest(entry[a], op) ELSE nFreeEntries > 0
-----------------------------------------------------------------------------
Arrival ==
  \E r \in Requests, a \in Lines, op \in Op :
    issue(r, a, op) \/ addEntry(r, a, op) \/ toOverflow(r, a, op)

Retire == \E r \in Requests : retireNext(r) \/ retireLast(r)

Returns ==
  \/ callbackReturns \/ checkSkips \/ checkStarts \/ overflowIssue
  \/ overflowPop \/ overflowAdd \/ checkEnds

Next == Arrival \/ Retire \/ Returns

Spec == Init /\ [][Next]_vars
-----------------------------------------------------------------------------
owners(a) == {r \in Requests : pc[r] = "owner" /\ rline[r] = a}

(* No aliasing (readme of libsmp: "MSHR has to be non-aliasing"): a line   *)
(* with an entry has exactly one owner, a line without one has none, also  *)
(* while callbacks of retire and checkOverflow are nested.                 *)
OneOwner ==
  \A a \in Lines :
    /\ a \in ms <=> owners(a) # {}
    /\ \A r, s \in owners(a) : r = s

(* The counters canAllocateEntry and canAcceptRequest rely on are exact:   *)
(* free entries, entries without a free read and without a free write.     *)
CountersExact ==
  /\ nFreeEntries = nEntries - Cardinality(ms)
  /\ nFreeEntries >= 0
  /\ nFullReadEntries = Cardinality({a \in ms : ~hasFreeReads(entry[a])})
  /\ nFullWriteEntries = Cardinality({a \in ms : ~hasFreeWrites(entry[a])})

(* canAcceptRequest is a promise: asked right before, it tells whether the *)
(* request will be kept out of the overflow queue.                         *)
AcceptedNeverOverflows ==
  [][\A r \in Requests :
       pc[r] = "idle" /\ pc'[r] # "idle" =>
         (pc'[r] = "overflow" <=> ~canAcceptRequestSpecial(rline'[r], rop'[r]))]_vars

(* The buffer is a lock per line with first-come first-served waiters: the *)
(* holder is the owner; behind it wait the requests in the line's entry,   *)
(* then those in the overflow queue, less a front already called back.     *)
popping == \E i \in DOMAIN stack : stack[i].call = "pop"
holderOf(a) == IF owners(a) = {} THEN None ELSE CHOOSE r \in owners(a) : TRUE
waitingFor(a) ==
  LET Mine(r) == rline[r] = a
      rest == IF popping THEN Tail(overflow) ELSE overflow IN
  entry[a].cc \o SelectSeq(rest, Mine)

Lock == INSTANCE LineLock WITH holder  <- [a \in Lines |-> holderOf(a)],
                               waiting <- [a \in Lines |-> waitingFor(a)]
ImplementsLineLock == Lock!Spec
=============================================================================
