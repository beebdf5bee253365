------------------------------- MODULE PortUse -------------------------------
(***************************************************************************)
(* The clients of one port: caches and units take one slot at a time,      *)
(* routers several.  Beside the port a PortNPipe of as many units and the  *)
(* same occupancy gets the same calls, slot by slot.                       *)
(***************************************************************************)
EXTENDS Port

CONSTANTS
  Sizes,     (* pairs of a number of units and an occupancy                *)
  MaxSlots,  (* bound: slots a client takes at once                        *)
  MaxBusy,   (* bound: how far ahead a port is occupied                    *)
  LastClock  (* bound: the last clock                                      *)

VARIABLES
  clock,     (* globalClock                                                *)
  port,
  ref,       (* history: the PortNPipe                                     *)
  start      (* history: when the last use of either began                 *)

portVars == <<clock, port, ref, start>>

Init ==
  /\ clock = 0
  /\ \E s \in Sizes : /\ port = create(s[1], s[2], 0)
                      /\ ref = PortNPipe(s[1], s[2], 0)
  /\ start = <<0, 0>>

mayTake == clock < LastClock /\ calcNextSlot(port, clock) <= clock + MaxBusy

Both(mine, other) ==
  /\ mayTake
  /\ port' = mine.p
  /\ IF port.kind = "Unlimited"
     THEN ref' = ref /\ start' = <<mine.t, clock>>
     ELSE ref' = other.p /\ start' = <<mine.t, other.t>>
  /\ UNCHANGED clock

takeOne == Both(nextSlot(port, clock), nextSlot(ref, clock))

(* Not on a PortFullyNPipe, see the README.                                *)
takeMany(n) ==
  /\ port.kind # "FullyNPipe"
  /\ Both(occupySlots(port, n, clock), slotBySlot(ref, n, clock))

advanceClock == clock < LastClock /\ clock' = clock + 1 /\ UNCHANGED <<port, ref, start>>

Next == takeOne \/ (\E n \in 1 .. MaxSlots : takeMany(n)) \/ advanceClock
-----------------------------------------------------------------------------
(* Port.h on occupySlots, Port.cpp on create: whatever representation      *)
(* create has chosen, every use begins when it would with a PortNPipe, the *)
(* general one, that gives out one slot after the other; and calcNextSlot  *)
(* tells beforehand when the next would.                                   *)
PortsAgree ==
  /\ start[1] = start[2]
  /\ port.kind # "Unlimited" => calcNextSlot(port, clock) = calcNextSlot(ref, clock)
=============================================================================
