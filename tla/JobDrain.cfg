CONSTANTS
  Scenarios = {{"own", "drain"}}
SPECIFICATION Spec
INVARIANTS DeletableWhenDestroyed
CHECK_DEADLOCK FALSE
