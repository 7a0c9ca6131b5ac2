SPECIFICATION Spec
CONSTANTS
    field = field
    style = style
    w1 = w1
    w2 = w2
    NoAsset = NoAsset
    Attempts <- TwoAttempts
    Assets <- OneAsset
    FamilyOf <- FieldFamily
    Workers <- TwoWorkers
    Cap = 2
    QueueConfigured = FALSE
    DeliveryLimit = 1
    MaxFaults = 1
    Origins <- OldAssets
    Acts <- AllActs
    MaxActs = 2
SYMMETRY SymmetricWorkers
INVARIANTS TypeOK  NoLostRevision EndedAttemptReleasesAsset
PROPERTIES CandidateOfNewestClaim
CHECK_DEADLOCK FALSE
