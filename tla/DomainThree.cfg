SPECIFICATION Spec
CONSTANTS
  ncpu = 3
  nbody = 2
  MaxCid = 2
  MaxCon = 1
  Strengths = {"FINITE"}
  Breaking = FALSE
  Loose = FALSE
  LateCalls = {"PUT_RIGID_LINK"}
INVARIANTS OldConstraintsListed CopiesMatch
