CONSTANTS
  Thread = {t1, t2, t3}
  Timed = {FALSE, TRUE}
  MaxDepth = 2
SPECIFICATION Spec
INVARIANTS CountsExact EventsManaged NoLostWakeup Exclusive
PROPERTIES LockSpec WriterGetsIn
