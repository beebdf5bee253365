----------------------------- MODULE MCSMPSystem -----------------------------
(* Instances of SMPSystem for TLC.                                         *)
EXTENDS SMPSystem, TLC

CONSTANT MaxOutstanding  (* bound: accesses in progress in all the caches  *)

Symmetry == Permutations(Caches) \cup Permutations(Lines) \cup Permutations(Slots)

MayAccess == Cardinality({r \in Req : pc[r] # "idle"}) < MaxOutstanding

MCNext == (MayAccess /\ Access) \/ Callback

MCSpec == Init /\ [][MCNext]_vars
=============================================================================
