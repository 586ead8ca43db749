CONSTANTS
  root = root
  dir = dir
  file = file
  Path <- MCPath
  Root = root
  Parent <- MCParent
  MaxRev = 7
  Histories <- MCHistories
  Asked <- MCAsked
  Tradeoff = 2
  MaxQueries = 4
SPECIFICATION Spec
INVARIANTS SkipSound Faithful Descending RefusedByOverlap
PROPERTY QueryEnds
CHECK_DEADLOCK FALSE
