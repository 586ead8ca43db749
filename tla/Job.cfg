CONSTANTS
  Scenarios = {{"own", "lend", "inline", "timed", "terminate", "delete", "trim"},
               {"lend", "inline", "terminate", "delete", "drain"},
               {"lend", "wait", "inline", "terminate", "trim", "reschedule"},
               {"lend", "wait", "delete"}}
SPECIFICATION Spec
INVARIANTS ExecutedOnce NotDeletedWhileScheduled
           ScheduledConsistently
PROPERTIES WaitMeansDone OwnedIsFreed WaitCompletes DeleteCompletes
CHECK_DEADLOCK FALSE
