SPECIFICATION Spec
CONSTANTS
    r1 = r1
    r2 = r2
    Requests <- TwoRequests
    Nobody = Nobody
    Keys = 3
    Worlds <- AllWorlds
    Checkpoints = 2
    TurnLimit = 2
    MaxToken = 4
    Faults <- Everything
    MaxFaults = 2
SYMMETRY SymmetricRequests
INVARIANTS TypeOK OperationOnce CompletedKeyCommitted RatedOnce SidecarFollowsBattle
PROPERTIES DecisionsStand EndedStaysEnded
