\* Seven networks with two messages, nine sizes of a port, and one bank of
\* two rows under fairness.  The event queue has an array of 8 lists.
CONSTANTS
  AccessSize = 8
  MaxTime = 1000
  Msgs = {m1, m2}
  Nets <- MCNets
  LastSend = 2
  MaxDelay = 1
  Sizes <- MCSizes
  MaxSlots = 3
  MaxBusy = 3
  LastClock = 6
  numRanks = 1
  numBanks = 1
  numRows = 2
  queueSize = 2
  tRCD = 2
  tCL = 2
  tWL = 1
  tCCD = 2
  tWTR = 1
  tWR = 1
  tRTP = 1
  tRP = 2
  tRRD = 1
  tRAS = 3
  tRC = 5
  tRTRS = 1
  tOST = 1
  tRFC = 2
  HalfBL = 2
  Policies = {"FCFS"}
  Cap = 5
  Skew = 1
  ArrivalBound = 1
SPECIFICATION MCSpec
INVARIANTS MinimalRoutes PortsAgree
PROPERTIES ImplementsAgenda EveryReferenceCompletes
CHECK_DEADLOCK FALSE
