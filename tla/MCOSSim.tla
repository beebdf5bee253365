------------------------------- MODULE MCOSSim -------------------------------
(***************************************************************************)
(* An SMT processor of two flows beside a single-threaded one, for TLC.    *)
(* Processes are spawned, wait, yield and exit without limit; `settings'   *)
(* counts the calls that configure a process, which are bounded.           *)
(***************************************************************************)
EXTENDS OSSim, TLC

CONSTANT MaxSettings  (* bound: calls that configure a process             *)

VARIABLE settings

MCFlows == [c \in Cpus |-> IF c = 0 THEN 2 ELSE 1]

(* The default and a better one.                                           *)
MCPriorities == {-1, 0}

Symmetry == Permutations(Pids)

Default == [migrate |-> TRUE, map |-> AnyCpu]

Plain ==
  \/ \E p \in Pids :
       \/ makeRunnable(p) \/ eventExit(p) \/ eventWait(p)
       \/ \E q \in Pids : eventYield(p, q) \/ eventSpawn(p, q, Default)
  \/ \E c \in Cpus : idle(c)

Configure ==
  \/ \E p, q \in Pids :
       \/ eventSuspend(p, q) \/ eventResume(p, q)
       \/ \E f \in Flags : eventSysconf(p, q, f) \/ (f # Default /\ eventSpawn(p, q, f))
  \/ \E q \in Pids, n \in Priorities : setPriority(q, n)

MCInit == Init /\ settings = 0

MCNext ==
  \/ Plain /\ UNCHANGED settings
  \/ settings < MaxSettings /\ Configure /\ settings' = settings + 1

MCSpec == MCInit /\ [][MCNext]_<<vars, settings>>
=============================================================================
