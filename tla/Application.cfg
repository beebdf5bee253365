\* Four threads and three barriers in a row; three threads that lock;
\* three native threads.
CONSTANTS
  Threads = {t1, t2, t3, t4}
  MaxBarriers = 3
  LockThreads = {u1, u2, u3}
  Calls = {"wait", "set", "clear", "use"}
  PoolSize = 1
  Pids = {7, 8, 14}
  Root = 7
  SESC_TABLESIZE = 7
  Offset = 12321022
  MaxSpawns = 2
SPECIFICATION MCSpec
INVARIANTS SignalsBalance OneEntry WaitJoins
PROPERTIES ImplementsBarrier EveryoneGetsOn
CHECK_DEADLOCK FALSE
