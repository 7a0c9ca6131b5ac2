CONSTANTS
    Attempts = {a1, a2, a3}
    Candidates = {c1}
    TaskRequests = {r1}
    ProviderRequests = {}
    Deliveries = {d1}
    Jobs = {j1}
    MaximumReservations = 1
    LastRevision = 6
SPECIFICATION Spec
INVARIANTS TypeOK BarrierHolds TrialRunsAlone OneActivePerBinding
INVARIANTS TrialQuotaKept SettledIsKnown UnaccountedBlocks
PROPERTIES ClosedStartsOnlyConfirms
SYMMETRY Symmetry
CHECK_DEADLOCK FALSE
