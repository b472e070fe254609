CONSTANTS
  Rank <- FourRanks
  Block <- FourBlocks
  Owner <- FourOwner
  Adj <- FourAdj
  Color <- FourColor
  Variants <- AllVariants
  Reverse = TRUE
  InnerLoops = 1
  MaxIter = 3
  DiagMaxIter = 9
  DiagOutcomes <- Outcomes
  Eager = FALSE
SPECIFICATION FairSpec
INVARIANTS
  TypeOK ExternalsCurrent AllDone NoReadWhileWritten WaitOnPosted
  DoneIsUpdated ReceivesOwnPattern ReadySendMatched
PROPERTIES SequentialSpec Termination
