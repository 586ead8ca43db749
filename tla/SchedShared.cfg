CONSTANTS
  Sched = {"cpu", "bg"}
  Thread = {t1, t2, t3}
  Client = {c1}
  None = None
  HWThreads = 2
  Counts = {}
  threadCount <- OneAndNone
  sharedThreads <- BorrowTwo
  aggressiveThreading <- CpuEager
  MaxJobs = 4
  MaxStops = 1
  Trims = FALSE
  Exits = TRUE
  Destroys = TRUE
SPECIFICATION Spec
INVARIANTS CountsConsistent PoolBooksAgree ResumedHasOwner
           StarvedIsListed NobodyAtEnd ThreadBound
SYMMETRY ThreadSymmetry
CHECK_DEADLOCK FALSE
