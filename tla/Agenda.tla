------------------------------- MODULE Agenda -------------------------------
(***************************************************************************)
(* What the simulator promises of time: a callback scheduled for a clock   *)
(* is called in that clock, once, and the clock does not go on before.     *)
(* Callbacks schedule callbacks for later clocks.                          *)
(***************************************************************************)
EXTENDS Naturals

CONSTANT Nodes

VARIABLES
  now,      (* globalClock                                                 *)
  due       (* due[n]: when n is to be called, 0: it is not scheduled      *)

Init == now = 0 /\ due = [n \in Nodes |-> 0]

(* n, or no node, leaves the agenda; any that are not on it may be put     *)
(* there, n again too.                                                     *)
Schedule(n) ==
  /\ due' \in [Nodes -> Nat]
  /\ \A k \in Nodes :
       \/ due'[k] = (IF k = n THEN 0 ELSE due[k])
       \/ (k = n \/ due[k] = 0) /\ due'[k] > now

Call(n) == due[n] = now /\ due[n] # 0 /\ Schedule(n) /\ UNCHANGED now

Post == Schedule(<<>>) /\ UNCHANGED now

Tick ==
  /\ \A n \in Nodes : due[n] # 0 => due[n] > now
  /\ now' = now + 1
  /\ UNCHANGED due

Next == (\E n \in Nodes : Call(n)) \/ Post \/ Tick

Spec == Init /\ [][Next]_<<now, due>>
=============================================================================
