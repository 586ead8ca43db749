CONSTANTS
  Scenarios = {{"lend", "inline", "delete", "trim", "reschedule"}}
SPECIFICATION Spec
INVARIANTS NotDeletedWhileScheduled
CHECK_DEADLOCK FALSE
