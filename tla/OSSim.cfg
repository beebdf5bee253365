\* Three processes on an SMT processor and a single-threaded one.
CONSTANTS
  Pids = {p1, p2, p3}
  Cpus = {0, 1}
  maxFlows <- MCFlows
  Priorities <- MCPriorities
  SuspendBound = 1
  MaxSettings = 3
  None = None
SPECIFICATION MCSpec
SYMMETRY Symmetry
INVARIANTS RunningAgrees AvailableSound QueueExact WorkConserving NoInversion NChildsExact
CHECK_DEADLOCK FALSE
