CONSTANTS
  Top = Top
  Sub = Sub
  Leaf = Leaf
  Dir = {Top, Sub}
  Parent <- MCParent
  Crawler = crawler
  Client = {client}
  MaxEdits = 1
  MaxCommits = 1
  MaxAsks = 1
  MaxBlocks = 0
  MaxTotal = 3
SPECIFICATION Spec
INVARIANT NoneIsTold
