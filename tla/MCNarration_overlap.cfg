SPECIFICATION Spec
CONSTANTS
  N = 2
  w1 = w1
  w2 = w2
  d1 = d1
  Workers <- TwoWorkers
  Dispatchers <- OneDispatcher
  Reserved = FALSE
  Faults <- Overlap
  MaxFaults = 0
  MaxGeneration = 1
  MaxClaims = 2
  MaxToken = 2
INVARIANTS TypeOK InOrder CompletedByLastClaim
PROPERTIES PublishesInOrder
SYMMETRY SymmetricWorkers
CHECK_DEADLOCK FALSE
