CONSTANTS
  Sched = {s1, s2}
  Thread = {t1, t2, t3, t4}
  HWThreads = 3
  Counts = {0, 1, 2, 4}
SPECIFICATION PoolSpec
INVARIANTS PoolFits
