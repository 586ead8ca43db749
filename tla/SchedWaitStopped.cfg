CONSTANTS
  Sched = {"cpu"}
  Thread = {t1, t2}
  Client = {c1, c2}
  None = None
  HWThreads = 1
  Counts = {}
  threadCount <- PrivateOnly
  sharedThreads <- NoShared
  aggressiveThreading <- IsRelaxed
  MaxJobs = 3
  MaxStops = 1
  Trims = FALSE
  Exits = FALSE
  Destroys = FALSE
SPECIFICATION Spec
PROPERTIES WokenWhenEmpty
CHECK_DEADLOCK FALSE
