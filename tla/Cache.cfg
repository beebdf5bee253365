\* A buffer of two entries for three lines that compete for the ways of a
\* set (or any client), with split and with shared subentries.
CONSTANTS
  Requests = {1, 2, 3}
  Lines = {a, b, c}
  nEntries = 2
  nReads = 2
  WriteSizes = {0, 1}
  None = None
  NoTag = NoTag
  Confs <- MCConfs
  NumUpper = 2
  MaxArrivals = 4
SPECIFICATION MCSpec
INVARIANTS OneMissPerLine CountersExact ReplacementsApart WBuffExact
PROPERTIES AcceptedNeverOverflows ImplementsLineLock EveryRequestServed
CHECK_DEADLOCK FALSE
