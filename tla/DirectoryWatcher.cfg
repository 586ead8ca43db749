CONSTANTS
  C = C
  wc = wc
  bak = bak
  sub = sub
  Dir = {C, wc, bak, sub}
  NoPath = NoPath
  Drive = C
  Above <- MCAbove
  Order <- MCOrder
  Extends <- MCExtends
  Versioned = {wc, bak, sub}
  Info = {i1, i2, i3, i4}
  Null = Null
  MaxEvents = 1
SPECIFICATION Spec
CHECK_DEADLOCK FALSE
INVARIANTS InfosAccounted NoDangling WatchedOrGap
PROPERTIES StopReaches CallsReturn
