CONSTANTS
  Sched = {"bg"}
  Thread = {t1, t2, t3}
  HWThreads = 2
  Counts = {1}
SPECIFICATION PoolSpec
PROPERTIES LendsWithinMaxCount
