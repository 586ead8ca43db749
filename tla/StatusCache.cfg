CONSTANTS
  Top = Top
  Sub = Sub
  Leaf = Leaf
  Dir = {Top, Sub}
  Parent <- MCParent
  Crawler = crawler
  Client = {client}
  MaxEdits = 2
  MaxCommits = 1
  MaxAsks = 1
  MaxBlocks = 1
  MaxTotal = 3
SPECIFICATION Spec
INVARIANTS OneFetcher Settled NothingForgotten
PROPERTY Rests
