\* Two ranks of one bank with two rows, under either scheduler; small timings
\* in the proportions of the shipped configuration.
CONSTANTS
  numRanks = 2
  numBanks = 1
  numRows = 2
  queueSize = 2
  tRCD = 2
  tCL = 2
  tWL = 1
  tCCD = 2
  tWTR = 1
  tWR = 1
  tRTP = 1
  tRP = 2
  tRRD = 1
  tRAS = 3
  tRC = 5
  tRTRS = 1
  tOST = 1
  tRFC = 2
  HalfBL = 2
  Policies = {"FCFS", "FRFCFS"}
  Cap = 5
  Skew = 1
  ArrivalBound = 1
SPECIFICATION Spec
INVARIANTS BusNoOverlap PendingFlagsFresh NumActiveExact
PROPERTIES ColumnHitsOpenRow
