SPECIFICATION Spec
CONSTANTS
  ncpu = 2
  nbody = 1
  MaxCid = 2
  MaxCon = 1
  Strengths = {"FINITE"}
  Breaking = FALSE
  Loose = FALSE
  LateCalls = {"DELETE body"}
INVARIANT LookupsSucceed
