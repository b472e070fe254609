CONSTANTS
  Rank <- ThreeRanks
  Block <- ThreeBlocks
  Owner <- ThreeOwner
  Adj <- ThreeAdj
  Color <- ThreeColor
  Variants = {"FULL"}
  Reverse = FALSE
  InnerLoops = 1
  MaxIter = 2
  DiagMaxIter = 9
  DiagOutcomes <- AnyOutcome
  Eager = FALSE
SPECIFICATION Spec
INVARIANTS FailureReported
