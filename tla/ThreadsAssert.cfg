\* The main thread and two more.
CONSTANTS
  Pids <- Threads3
  Root = 7
  SESC_TABLESIZE = 7
  Offset = 12321022
  MaxSpawns = 2
SPECIFICATION Spec
INVARIANTS AwakeAssertion
CHECK_DEADLOCK FALSE
