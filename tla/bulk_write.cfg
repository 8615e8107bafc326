SPECIFICATION Spec
CONSTANTS
  N = 5
  k1 = k1
  k2 = k2
  Ids <- TwoKeys
  Dialects <- AllDialects
  Faults <- BothFaults
INVARIANTS
  MeetsContract IsolatesExactly NothingDropped
  FirstVersionRemains LastVersionRemains FewStatements
CHECK_DEADLOCK FALSE
