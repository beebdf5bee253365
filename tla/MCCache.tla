------------------------------ MODULE MCCache ------------------------------
(***************************************************************************)
(* The request buffer and its clients for TLC: a cache of libmem, or any   *)
(* client at all, whose callbacks may bring requests and retire at will.   *)
(* At most MaxArrivals requests enter the buffer in a behaviour.  Requests *)
(* come from a pool: which free one is taken makes no difference.          *)
(***************************************************************************)
EXTENDS Cache

CONSTANT MaxArrivals

VARIABLES
  client,     (* who uses the buffer: a cache, or any client               *)
  arrivals

all == <<vars, cacheVars, client, arrivals>>

(* The highest level, write-back with and without forwarding from wbuff,   *)
(* or write-through; a lower level, inclusive or not.  Two ways for three  *)
(* lines, or one where replacements wait for each other.                   *)
L1 == [writeBack |-> TRUE, highest |-> TRUE, inclusive |-> FALSE,
       doWBFwd |-> TRUE, assoc |-> 2]
L2 == [L1 EXCEPT !.highest = FALSE]
MCConfs ==
  {L1, [L1 EXCEPT !.doWBFwd = FALSE], [L1 EXCEPT !.writeBack = FALSE],
   L2, [L2 EXCEPT !.inclusive = TRUE], [L2 EXCEPT !.inclusive = TRUE, !.assoc = 1]}

MCInit ==
  /\ Init /\ CacheInit
  /\ arrivals = 0
  /\ client \in {"cache", "any"}
  /\ client = "any" => conf = L1

idle(r) == pc[r] = "idle" /\ stage[r] = "none"

Arrives ==
  /\ arrivals < MaxArrivals
  /\ \/ client = "cache" /\ Accesses
     \/ client = "any" /\ Arrival /\ UNCHANGED cacheVars
  /\ \A r, s \in Requests : r < s /\ idle(r) /\ idle(s) => idle(s)'
  /\ arrivals' = arrivals + 1

(* What the event loop runs when it is due: active calls return, the level *)
(* below and the caches above answer, replacements are retried; any client *)
(* retires some time what it owns.                                         *)
Runs ==
  /\ \/ client = "cache" /\ Events
     \/ client = "any" /\ (Retire \/ Returns) /\ UNCHANGED cacheVars
  /\ UNCHANGED <<client, arrivals>>

MCNext ==
  \/ Arrives /\ UNCHANGED client
  \/ client = "cache" /\ Hits /\ UNCHANGED <<client, arrivals>>
  \/ Runs

(* Fairness: the event loop runs while something is due.                   *)
MCSpec == MCInit /\ [][MCNext]_all /\ WF_all(Runs)

(* No aliasing: an entry of the buffer has one owner, also while callbacks *)
(* are nested, and the owner is the one request the cache has below or     *)
(* allocates for: it will retire the entry.                                *)
OneMissPerLine == OneOwner /\ (client = "cache" => MissesOwnLines)

(* Every request is served and retired: none is left in the overflow queue *)
(* or in an entry when its callbacks have run, none waits forever for a    *)
(* line of its set although its replacement has to be retried.  As finitely*)
(* many arrive, that is to say that time and again none is left.           *)
EveryRequestServed == []<>(\A r \in Requests : idle(r))
=============================================================================
