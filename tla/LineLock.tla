------------------------------ MODULE LineLock ------------------------------
(***************************************************************************)
(* What a cache expects of its request buffer: a lock per line, handed out *)
(* in the order of the requests for that line.  Nothing is promised about  *)
(* the order between lines, or about how soon a free line is granted.      *)
(***************************************************************************)
EXTENDS Sequences

CONSTANTS Requests, Lines, None

VARIABLES
  holder,   (* holder[a]: the request being served for line a, or None     *)
  waiting   (* waiting[a]: the requests for line a not yet served          *)

Init ==
  /\ holder = [a \in Lines |-> None]
  /\ waiting = [a \in Lines |-> <<>>]

Waits(r) == \E a \in Lines : \E i \in DOMAIN waiting[a] : waiting[a][i] = r
Holds(r) == \E a \in Lines : holder[a] = r

(* A request arrives and is granted the idle line at once ...              *)
RequestGranted(r, a) ==
  /\ ~Waits(r) /\ ~Holds(r)
  /\ holder[a] = None /\ waiting[a] = <<>>
  /\ holder' = [holder EXCEPT ![a] = r]
  /\ UNCHANGED waiting

(* ... or has to wait.                                                     *)
Request(r, a) ==
  /\ ~Waits(r) /\ ~Holds(r)
  /\ waiting' = [waiting EXCEPT ![a] = Append(@, r)]
  /\ UNCHANGED holder

Grant(a) ==
  /\ holder[a] = None /\ waiting[a] # <<>>
  /\ holder' = [holder EXCEPT ![a] = Head(waiting[a])]
  /\ waiting' = [waiting EXCEPT ![a] = Tail(@)]

Release(a) ==
  /\ holder[a] # None
  /\ holder' = [holder EXCEPT ![a] = None]
  /\ UNCHANGED waiting

(* The holder hands the line over to the first waiter.                     *)
PassOn(a) ==
  /\ holder[a] # None /\ waiting[a] # <<>>
  /\ holder' = [holder EXCEPT ![a] = Head(waiting[a])]
  /\ waiting' = [waiting EXCEPT ![a] = Tail(@)]

Next ==
  \/ \E r \in Requests, a \in Lines : RequestGranted(r, a) \/ Request(r, a)
  \/ \E a \in Lines : Grant(a) \/ Release(a) \/ PassOn(a)

Spec == Init /\ [][Next]_<<holder, waiting>>
=============================================================================
