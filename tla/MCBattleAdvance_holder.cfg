SPECIFICATION Spec
CONSTANTS
    r1 = r1
    r2 = r2
    Requests <- TwoRequests
    Nobody = Nobody
    Keys = 2
    Worlds <- ReservedWorld
    Checkpoints = 0
    TurnLimit = 2
    MaxToken = 3
    Faults <- Crashes
    MaxFaults = 1
SYMMETRY SymmetricRequests
INVARIANTS HolderIsNewest
