SPECIFICATION Spec
CONSTANTS
  ncpu = 1
  nbody = 3
  MaxCid = 4
  MaxCon = 3
  Strengths = {"FINITE"}
  Breaking = TRUE
  Loose = TRUE
  LateCalls = {"FIX_POINT", "PUT_RIGID_LINK", "DELETE body", "DELETE constraint"}
PROPERTY SerialSpec
