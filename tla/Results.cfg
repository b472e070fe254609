\* Two ranks, two bodies of the input file and two more ids, two time steps, and a crash or an abort
\* of some of the ranks at any moment.
\* Readers whose list would break are the subject of ResultsList.cfg.
CONSTANTS
  NP = 2
  InitBodies = 2
  MaxId = 4
  MaxTime = 2
  MaxLost = 2
  Intervals = {1, 2}
  Losses <- SomeLosses
  Skips = {1, 2}
  Movers = {3}
  Parts = {1}
  StaleLinks = FALSE
SPECIFICATION Spec
INVARIANTS TypeOK IdsAgree RanksInStep RecordedOnce OnlyClosedOpens ReadsSucceed ShownIsFrame HistoryFits QueriesKeepPlace
