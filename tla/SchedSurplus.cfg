CONSTANTS
  Sched = {"cpu", "bg"}
  Thread = {t1}
  Client = {c1}
  None = None
  HWThreads = 1
  Counts = {}
  threadCount <- BorrowersOnly
  sharedThreads <- BorrowOne
  aggressiveThreading <- IsRelaxed
  MaxJobs = 1
  MaxStops = 0
  Trims = FALSE
  Exits = TRUE
  Destroys = FALSE
SPECIFICATION Spec
PROPERTIES SurplusRemoved
CHECK_DEADLOCK FALSE
