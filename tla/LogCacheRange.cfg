CONSTANTS
  root = root
  dir = dir
  file = file
  Path <- MCPath
  Root = root
  Parent <- MCParent
  MaxRev = 7
  Histories <- MCHistories
  Asked <- MCShort
  Tradeoff = 2
  MaxQueries = 4
SPECIFICATION Spec
INVARIANT WithinRange
CHECK_DEADLOCK FALSE
