CONSTANTS
  Sched = {"cpu", "bg"}
  Thread = {t1}
  Client = {c1}
  None = None
  HWThreads = 1
  Counts = {}
  threadCount <- BorrowersOnly
  sharedThreads <- BorrowOne
  aggressiveThreading <- IsRelaxed
  MaxJobs = 2
  MaxStops = 0
  Trims = FALSE
  Exits = FALSE
  Destroys = FALSE
SPECIFICATION Spec
INVARIANTS NotifiedWhenIdle
CHECK_DEADLOCK FALSE
