CONSTANTS
  Sched = {"cpu", "bg"}
  Thread = {t1, t2}
  Client = {c1}
  None = None
  HWThreads = 2
  Counts = {}
  threadCount <- BorrowersOnly
  sharedThreads <- BorrowTwo
  aggressiveThreading <- IsAggressive
  MaxJobs = 4
  MaxStops = 0
  Trims = FALSE
  Exits = FALSE
  Destroys = FALSE
SPECIFICATION Spec
PROPERTIES StarvationStops
CHECK_DEADLOCK FALSE
