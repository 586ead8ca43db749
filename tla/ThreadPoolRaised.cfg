CONSTANTS
  Sched = {s1, s2}
  Thread = {t1, t2, t3, t4}
  HWThreads = 2
  Counts = {2}
SPECIFICATION PoolSpec
INVARIANTS WithinMaxCount
