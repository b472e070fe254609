CONSTANTS
  Rank <- ThreeRanks
  Block <- ThreeBlocks
  Owner <- ThreeOwner
  Adj <- ThreeAdj
  Color <- ThreeColor
  Variants <- AllVariants
  Reverse = TRUE
  InnerLoops = 2
  MaxIter = 2
  DiagMaxIter = 9
  DiagOutcomes <- Outcomes
  Eager = TRUE
SPECIFICATION FairSpec

PROPERTIES SequentialSpec Termination
