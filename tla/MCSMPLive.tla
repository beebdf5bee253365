------------------------------ MODULE MCSMPLive ------------------------------
(***************************************************************************)
(* SMPSystem with at most MaxAccess accesses in a behaviour, for liveness. *)
(* Fairness is the least the simulator gives: while a callback can run and *)
(* change something, one eventually does.  Which one is left open.  With   *)
(* finitely many accesses that is enough to ask whether each concludes; a  *)
(* wait that only further accesses could end would show as a violation.    *)
(***************************************************************************)
EXTENDS SMPSystem

CONSTANT MaxAccess

VARIABLE issued

LiveInit == Init /\ issued = 0

LiveNext ==
  \/ issued < MaxAccess /\ Access /\ issued' = issued + 1
  \/ Callback /\ UNCHANGED issued

LiveSpec ==
  /\ LiveInit
  /\ [][LiveNext]_<<vars, issued>>
  /\ WF_<<vars, issued>>(Callback /\ UNCHANGED issued)
=============================================================================
