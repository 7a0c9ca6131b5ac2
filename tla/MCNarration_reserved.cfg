SPECIFICATION FairSpec
CONSTANTS
  N = 2
  w1 = w1
  w2 = w2
  d1 = d1
  Workers <- TwoWorkers
  Dispatchers <- OneDispatcher
  Reserved = TRUE
  Faults <- Deletion
  MaxFaults = 1
  MaxGeneration = 1
  MaxClaims = 3
  MaxToken = 3
INVARIANTS OneNarrator OneTerminalEvent PresentationMatchesResult
 
