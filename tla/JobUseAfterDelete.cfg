CONSTANTS
  Scenarios = {{"lend", "delete"}}
SPECIFICATION Spec
INVARIANTS NoUseAfterDelete
CHECK_DEADLOCK FALSE
