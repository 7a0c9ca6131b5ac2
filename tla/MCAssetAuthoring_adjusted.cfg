SPECIFICATION Spec
CONSTANTS
    field = field
    style = style
    w1 = w1
    w2 = w2
    NoAsset = NoAsset
    Attempts <- OneAttempt
    Assets <- OneAsset
    FamilyOf <- FieldFamily
    Workers <- TwoWorkers
    Cap = 2
    QueueConfigured = FALSE
    DeliveryLimit = 1
    MaxFaults = 0
    Origins <- OldAssets
    Acts <- Adjust
    MaxActs = 1
INVARIANTS AcceptedWorkIsQueued
CHECK_DEADLOCK FALSE
