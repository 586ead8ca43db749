CONSTANTS
  Sched = {"cpu"}
  Thread = {t1, t2}
  Client = {c1, c2}
  None = None
  HWThreads = 1
  Counts = {}
  threadCount <- PrivateOnly
  sharedThreads <- NoShared
  aggressiveThreading <- IsRelaxed
  MaxJobs = 5
  MaxStops = 2
  Trims = TRUE
  Exits = FALSE
  Destroys = TRUE
SPECIFICATION Spec
INVARIANTS WorkInHand
PROPERTIES JobsGetDone WaitEnds
CHECK_DEADLOCK FALSE
