SPECIFICATION Spec
CONSTANTS
  ncpu = 2
  nbody = 2
  MaxCid = 3
  MaxCon = 2
  Strengths = {"FINITE"}
  Breaking = TRUE
  Loose = TRUE
  LateCalls = {}
INVARIANTS TypeOK IdsUnique LookupsSucceed BodiesAgree NoDummy OldConstraintsListed OneContactPerPair CopiesMatch RowsComplete
PROPERTY SerialSpec
