SPECIFICATION FairSpec
CONSTANTS
    r1 = r1
    r2 = r2
    Requests <- TwoRequests
    Nobody = Nobody
    Keys = 2
    Worlds <- AllWorlds
    Checkpoints = 1
    TurnLimit = 2
    MaxToken = 3
    Faults <- Crashes
    MaxFaults = 2
PROPERTIES AdvanceEnds
