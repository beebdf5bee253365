------------------------------ MODULE Network ------------------------------
(***************************************************************************)
(* The network (libnet): routers that pass messages on along their routing *)
(* tables, with contention for ports, driven by the event queue.  A        *)
(* message has four callbacks of its own, one for each of launchMsg,       *)
(* forwardMsg, receiveMsg and notifyMsg, which are the nodes of the queue. *)
(* A callback scheduled for the current clock is called at once, inside    *)
(* its caller.  RCV and RCV_AND_PASS have no sender in the simulator but a *)
(* test that is compiled out; here devices send them too.                  *)
(***************************************************************************)
EXTENDS TQueue, RoutingPolicy

CONSTANTS
  Msgs,       (* messages                                                  *)
  Nets,       (* networks: what RoutingPolicy asks for, the local ports    *)
              (* (localPort, localOcc), congestionFree, fixDelay, flits,   *)
              (* and `sends', what its devices send                        *)
  LastSend,   (* bound: the clock of the last message sent                 *)
  MaxDelay    (* bound: delay of a message sent                            *)

VARIABLES
  net,        (* the network, of Nets                                      *)
  nextHop,    (* nextHop[r][d]: the wires from r towards d                 *)
  globalClock,
  cbQ,        (* the event queue                                           *)
  ports,      (* ports[k][r][x]: port x of router r from a device to the   *)
              (* router (k = "l2r"), back ("r2l") or to a router ("r2r")   *)
  prevTurn,   (* prevTurn[r][d]: the wire r took last towards d            *)
  msg,        (* the messages                                              *)
  distance    (* history: the least number of wires between two routers    *)

vars == <<net, nextHop, globalClock, cbQ, ports, prevTurn, msg, distance>>
fixed == <<net, nextHop, distance>>

P == INSTANCE Port

Kinds == {"launch", "forward", "receive", "notify"}
Nodes == Msgs \X Kinds

(* A message before it is sent.  at: the parameter of its callbacks.  hops *)
(* and got are history: the wires it has passed, the routers whose devices *)
(* were notified, in order.                                                *)
Unsent == [state |-> "unsent", src |-> 0, sport |-> 0, dst |-> 0, dport |-> 0,
           delivery |-> "PT_TO_PT", finished |-> FALSE, refCount |-> 0,
           at |-> [k \in Kinds |-> 0], hops |-> 0, got |-> <<>>]

Init ==
  /\ net \in Nets /\ nextHop = Tables(net) /\ distance = Distance(net)
  /\ globalClock = 0
  /\ cbQ = EmptyQueue(Nodes)
  /\ ports = [k \in {"l2r", "r2l", "r2r"} |-> [r \in Routers(net) |->
       IF k = "r2r" THEN [x \in 1 .. net.nPorts |-> P!create(1, 1, 0)]
       ELSE [x \in net.locals |-> P!create(net.localPort, net.localOcc, 0)]]]
  /\ prevTurn = [r \in Routers(net) |-> [d \in Routers(net) |-> 0]]
  /\ msg = [m \in Msgs |-> Unsent]
-----------------------------------------------------------------------------
(* What a callback changes, as a record s: the queue, the ports, the turns *)
(* and the messages.                                                       *)
Now == [cbQ |-> cbQ, ports |-> ports, prevTurn |-> prevTurn, msg |-> msg]

Becomes(s) ==
  /\ cbQ' = s.cbQ /\ ports' = s.ports /\ prevTurn' = s.prevTurn /\ msg' = s.msg
  /\ UNCHANGED fixed

(* StaticCallbackMember1::scheduleAbs for a later clock.                   *)
scheduleAbs(s, m, k, r, when) ==
  [s EXCEPT !.cbQ = insert(@, <<m, k>>, when), !.msg[m].at[k] = r]

(* occupySlots of a port: s after it, and when the slots begin.            *)
occupy(s, k, r, x) ==
  LET o == P!occupySlots(s.ports[k][r][x], net.flits, globalClock)
  IN  [when |-> o.t, s |-> [s EXCEPT !.ports[k][r][x] = o.p]]

(* notifyMsg: the device, or the router for a message of the other kinds,  *)
(* releases the message, garbageCollect.                                   *)
notifyMsg(s, m, r) ==
  [s EXCEPT !.msg[m].got = Append(@, r), !.msg[m].refCount = @ - 1,
            !.msg[m].state = IF s.msg[m].refCount = 1 THEN "done" ELSE @]

receiveMsg(s, m, r) ==
  LET o == occupy(s, "r2l", r, s.msg[m].dport)
  IN  IF o.when = globalClock THEN notifyMsg(o.s, m, r)
      ELSE scheduleAbs(o.s, m, "notify", r, o.when)

(* A wire from r towards d is taken in turn: the one towards the next      *)
(* router of the wire towards d, of which the distance is that of a wire.  *)
takeWire(s, r, d) ==
  LET hop(turns, x) ==
        LET pos == getWire(net, nextHop[r][x], turns[r][x])
        IN  [wire |-> nextHop[r][x][pos + 1], turns |-> [turns EXCEPT ![r][x] = pos]]
      towards == hop(s.prevTurn, d)
      over == hop(towards.turns, towards.wire.rID)
  IN  [wire |-> over.wire, s |-> [s EXCEPT !.prevTurn = over.turns]]

passOn(s, m, r, wire) ==
  LET o == occupy(s, "r2r", r, wire.port)
  IN  [scheduleAbs(o.s, m, "forward", wire.rID, o.when + net.crossLat + wire.dist)
        EXCEPT !.msg[m].hops = @ + 1]

(* Mutant: the message is not counted again for the router it stays at.    *)
mutNoDuplicate(s, m, r) ==
  LET wire == nextHop[r][next(net, r)][1]
      kept == IF s.msg[m].dst # r THEN receiveMsg(s, m, r) ELSE s
      last == IF s.msg[m].dst = wire.rID THEN [kept EXCEPT !.msg[m].finished = TRUE]
              ELSE kept
  IN  passOn(last, m, r, wire)

(* RCV_AND_PASS: received here, but for the first time at its source, and  *)
(* passed on around the ring.                                              *)
passAround(s, m, r) ==
  LET wire == nextHop[r][next(net, r)][1]
      kept == IF s.msg[m].dst # r
              THEN receiveMsg([s EXCEPT !.msg[m].refCount = @ + 1], m, r) ELSE s
      last == IF s.msg[m].dst = wire.rID THEN [kept EXCEPT !.msg[m].finished = TRUE]
              ELSE kept
  IN  passOn(last, m, r, wire)

forwardMsg(s, m, r) ==
  LET w == s.msg[m]
      t == takeWire(s, r, w.dst)
  IN  IF w.dst = r /\ (w.delivery # "RCV_AND_PASS" \/ w.finished)
      THEN receiveMsg(s, m, r)
      ELSE IF w.delivery = "RCV_AND_PASS" THEN passAround(s, m, r)
      ELSE passOn(t.s, m, r, t.wire)

(* setDstRouterID: the destination launchMsg gives a message.              *)
destination(w, r) == CASE w.delivery = "RCV" -> next(net, r)
                       [] w.delivery = "RCV_AND_PASS" -> r
                       [] OTHER -> w.dst

launchMsg(s0, m, r) ==
  LET s == [s0 EXCEPT !.msg[m].dst = destination(s0.msg[m], r)]
      w == s.msg[m]
      o == occupy(s, "l2r", r, w.sport)
      when == o.when + net.fixDelay
  IN  IF w.dst = r /\ w.dport = w.sport /\ w.delivery = "PT_TO_PT"
      THEN receiveMsg(s, m, r)
      ELSE IF net.congestionFree
      THEN IF when = globalClock THEN receiveMsg(o.s, m, w.dst)
           ELSE scheduleAbs(o.s, m, "receive", w.dst, when)
      ELSE IF when = globalClock THEN forwardMsg(o.s, m, r)
           ELSE scheduleAbs(o.s, m, "forward", r, when)
-----------------------------------------------------------------------------
(* setupMessage and InterConnection::sendMsg, now or after a delay.        *)
sendMsg(m, w, delay) ==
  LET ready == [Now EXCEPT !.msg[m] = w]
  IN  /\ msg[m].state = "unsent" /\ globalClock <= LastSend
      /\ Becomes(IF delay = 0 THEN launchMsg(ready, m, w.src)
                 ELSE scheduleAbs(ready, m, "launch", w.src, globalClock + delay))
      /\ UNCHANGED globalClock

(* EventScheduler::advanceClock, one iteration: the next callback is       *)
(* called, or there is none and the clock goes on.                         *)
call(m, k, r, s) ==
  CASE k = "launch" -> launchMsg(s, m, r)
    [] k = "forward" -> forwardMsg(s, m, r)
    [] k = "receive" -> receiveMsg(s, m, r)
    [] k = "notify" -> notifyMsg(s, m, r)

callNext ==
  \E j \in nextJobs(cbQ, globalClock) :
    /\ j.job # NoJob
    /\ Becomes(call(j.job[1], j.job[2], msg[j.job[1]].at[j.job[2]],
                    [Now EXCEPT !.cbQ = j.q]))
    /\ UNCHANGED globalClock

advanceClock ==
  /\ ~empty(cbQ) \/ globalClock < LastSend
  /\ \E j \in nextJobs(cbQ, globalClock) :
       /\ j.job = NoJob
       /\ cbQ' = j.q
  /\ globalClock' = globalClock + 1
  /\ UNCHANGED <<fixed, ports, prevTurn, msg>>

(* The messages of the network's devices: `sends' has records of src, dst, *)
(* sport, dport and delivery.                                              *)
Next ==
  \/ \E m \in Msgs, x \in net.sends, delay \in 0 .. MaxDelay :
       sendMsg(m, [Unsent EXCEPT !.state = "sent", !.src = x.src, !.dst = x.dst,
                     !.sport = x.sport, !.dport = x.dport,
                     !.delivery = x.delivery, !.refCount = 1], delay)
  \/ callNext
  \/ advanceClock

Spec == Init /\ [][Next]_vars
-----------------------------------------------------------------------------
(* When the callbacks in the queue are due.                                *)
Due ==
  LET queued == InFastQueue(cbQ) \cup cbQ.tooFar
  IN  Computed([n \in Nodes |-> IF n \in queued THEN cbQ.time[n] ELSE 0])

A == INSTANCE Agenda WITH now <- globalClock, due <- Due

(* The event queue is an agenda: although callbacks wait in an array that  *)
(* is used in circles or in a heap, and move from the one to the other,    *)
(* each is called exactly once, in the clock it was scheduled for, and no  *)
(* callback is scheduled while it is waiting (TQueue, EventScheduler).     *)
ImplementsAgenda == A!Spec

(* Where a message is: at the router of the callback it waits for.         *)
Waiting(m) == {k \in Kinds : isInQueue(cbQ, <<m, k>>)}

(* Routers(net) in the order of the ring after r, and r.                   *)
Around(r) == [i \in 1 .. net.n |-> (r + i) % net.n]

(* What a message has met when it is released: its destination, after as   *)
(* many wires as the shortest path has; or, passed around, every router    *)
(* once and its source last.                                               *)
Arrived(w) ==
  LET far == IF net.congestionFree THEN 0 ELSE distance[w.src][w.dst]
  IN  IF w.delivery = "RCV_AND_PASS" /\ ~net.congestionFree
      THEN w.got = Around(w.src) /\ w.hops = net.n
      ELSE w.got = <<w.dst>> /\ w.hops = far

(* A table has the wires on which shortest paths begin: all of them, or    *)
(* one with fixMessagePath.                                                *)
ShortestFirst(r, d) ==
  LET hops == {w.rID : w \in Range(nextHop[r][d])}
      onShortest == {x \in Routers(net) : distance[r][x] = 1
                                          /\ 1 + distance[x][d] = distance[r][d]}
  IN  IF net.fixMessagePath THEN hops # {} /\ hops \subseteq onShortest
      ELSE hops = onShortest

(* Messages travel by shortest paths only, whichever wires their turn      *)
(* gives them, although a router looks up its table twice, first for the   *)
(* destination and then for the neighbour; all of those are in the tables; *)
(* messages arrive, are released once and not before they have arrived     *)
(* everywhere (Router::forwardMsg, shortestPaths, garbageCollect).         *)
MinimalRoutes ==
  /\ \A r \in Routers(net) : \A d \in Routers(net) \ {r} : ShortestFirst(r, d)
  /\ \A m \in Msgs :
       LET w == msg[m]
       IN  /\ w.state = "done" => Arrived(w) /\ Waiting(m) = {}
           /\ w.state = "sent" => Waiting(m) # {}
           /\ w.state = "sent" /\ "forward" \in Waiting(m) /\ w.delivery # "RCV_AND_PASS" =>
                w.hops + distance[w.at["forward"]][w.dst]
                  = distance[w.src][w.dst]
=============================================================================
