----------------------------- MODULE MCClocked -----------------------------
(***************************************************************************)
(* The parts that keep time, for TLC: the network on the event queue, a    *)
(* port, and the DRAM channel under fairness.  They share no state: `part' *)
(* tells which one runs, and the others stay as they are.                  *)
(***************************************************************************)
EXTENDS Network

CONSTANTS
  Sizes, MaxSlots, MaxBusy, LastClock,                    (* of PortUse    *)
  numRanks, numBanks, numRows, queueSize, tRCD, tCL, tWL, tCCD, tWTR, tWR,
  tRTP, tRP, tRRD, tRAS, tRC, tRTRS, tOST, tRFC, HalfBL, Policies, Cap, Skew,
  ArrivalBound                                            (* of DDR2       *)

VARIABLES
  part,
  clock, port, ref, start,
  arrivalQ, dramQ, freeList, bank, rank, chan, policy, bus

portVars == <<clock, port, ref, start>>
dramVars == <<arrivalQ, dramQ, freeList, bank, rank, chan, policy, bus>>

U == INSTANCE PortUse
D == INSTANCE DDR2

-----------------------------------------------------------------------------
(* The networks.  Their devices are at two ports of each router.           *)
Locals == {LOCAL_PORT1, LOCAL_PORT1 + 1}

Topology(type, n, nPorts) ==
  [type |-> type, n |-> n, width |-> IF n = 9 THEN 3 ELSE 2, nPorts |-> nPorts,
   wireLat |-> 1, crossLat |-> 1, fixMessagePath |-> FALSE, locals |-> Locals,
   localPort |-> 1, localOcc |-> 1, congestionFree |-> FALSE, fixDelay |-> 0,
   flits |-> 1, sends |-> {}]

Between(srcs, dsts, dports, deliveries) ==
  {[src |-> s, dst |-> d, sport |-> LOCAL_PORT1, dport |-> x, delivery |-> y] :
     s \in srcs, d \in dsts, x \in dports, y \in deliveries}

MCNets ==
  { (* a slow ring with local ports that are occupied for long             *)
    [Topology("uniring", 3, 1) EXCEPT
       !.wireLat = 9, !.localOcc = 8, !.flits = 2, !.fixDelay = 1,
       !.sends = Between({0, 1}, {2}, Locals, {"PT_TO_PT", "RCV"})],
    (* two paths to the router opposite; broadcasts and unlimited ports    *)
    [Topology("biring", 4, 2) EXCEPT
       !.localPort = 0, !.wireLat = 4,
       !.sends = Between({0, 1}, {2}, {LOCAL_PORT1}, {"PT_TO_PT", "RCV_AND_PASS"})],
    (* two paths, two slow units at each local port                        *)
    [Topology("mesh", 4, 4) EXCEPT
       !.localPort = 2, !.localOcc = 4,
       !.sends = Between({0}, {0, 3}, Locals, {"PT_TO_PT"})],
    [Topology("mesh", 9, 4) EXCEPT
       !.sends = Between({0, 1}, {4, 8}, {LOCAL_PORT1}, {"PT_TO_PT"})],
    [Topology("mesh", 9, 4) EXCEPT
       !.fixMessagePath = TRUE,
       !.sends = Between({0, 5}, {4, 7}, {LOCAL_PORT1}, {"PT_TO_PT"})],
    [Topology("hypercube", 8, 3) EXCEPT
       !.wireLat = 6, !.crossLat = 3,
       !.sends = Between({0, 3}, {7, 4}, {LOCAL_PORT1}, {"PT_TO_PT"})],
    (* routers that are not modelled                                       *)
    [Topology("biring", 2, 2) EXCEPT
       !.congestionFree = TRUE, !.fixDelay = 1, !.localOcc = 3,
       !.sends = Between({0}, {0, 1}, Locals, {"PT_TO_PT", "RCV"})] }

MCSizes == {<<0, 1>>, <<1, 1>>, <<2, 1>>, <<3, 1>>, <<1, 2>>, <<1, 3>>, <<2, 2>>,
            <<3, 2>>, <<2, 3>>}
-----------------------------------------------------------------------------
MCInit ==
  /\ part \in {"network", "port", "dram"}
  /\ Init /\ (part # "network" => net = CHOOSE t \in Nets : t.n = 2)
  /\ U!Init /\ (part # "port" => port = U!create(1, 1, 0))
  /\ D!Init /\ (part # "dram" => chan = [lastRead |-> 0, lastWrite |-> 0])

MCNext ==
  /\ UNCHANGED part
  /\ \/ part = "network" /\ Next /\ UNCHANGED <<portVars, dramVars>>
     \/ part = "port" /\ U!Next /\ UNCHANGED <<vars, dramVars>>
     \/ part = "dram" /\ D!Next /\ UNCHANGED <<vars, portVars>>

(* DDR2::clock is called in every cycle of the main loop.                  *)
MCSpec ==
  /\ MCInit /\ [][MCNext]_<<part, vars, portVars, dramVars>>
  /\ WF_dramVars(part = "dram" /\ D!clock)
-----------------------------------------------------------------------------
(* Port.cpp: whatever representation create has chosen, every use begins   *)
(* when it would with the general one.                                     *)
PortsAgree == U!PortsAgree

(* DDR2: every reference in the scheduling queue completes, in whatever    *)
(* order others arrive, under scheduleFCFS.                                *)
EveryReferenceCompletes == D!EveryReferenceCompletes
=============================================================================
