CONSTANTS
  Scenarios = {{"lend", "timed"}}
SPECIFICATION Spec
PROPERTIES FalseMeansTimeout
CHECK_DEADLOCK FALSE
