CONSTANTS
  c1 = c1
  c2 = c2
  c3 = c3
  d1 = d1
  d2 = d2
  e1 = e1
  Unknown = Unknown
  Call <- ThreeCalls
  Domain <- TwoDomains
  Endpoint <- OneEndpoint
  StartAllow <- FirstDomain
  Asked <- Ask
  Faults <- AllFaults
SPECIFICATION Spec
SYMMETRY CallSymmetry
INVARIANTS ChangesAreTraced InForceIsALatestRow RowsShowTheChange ResetRestores
CHECK_DEADLOCK FALSE
