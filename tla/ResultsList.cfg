\* One rank and one step, and no bound on what a reader does with the list.
CONSTANTS
  NP = 1
  InitBodies = 2
  MaxId = 2
  MaxTime = 1
  MaxLost = 1
  Intervals = {1}
  Losses = {}
  Skips = {1}
  Movers = {}
  Parts = {1}
  StaleLinks = TRUE
SPECIFICATION Spec
INVARIANT ListIsFrame
