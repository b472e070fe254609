SPECIFICATION Spec
CONSTANTS
  ncpu = 2
  nbody = 1
  MaxCid = 2
  MaxCon = 1
  Strengths = {"DBL_MAX"}
  Breaking = TRUE
  Loose = FALSE
  LateCalls = {}
INVARIANT StrengthKept
