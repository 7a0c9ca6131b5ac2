SPECIFICATION FairSpec
CONSTANTS
    MaxCores = 2
    MaxAttempts = 2
    MaxRequests = 4
    MaxFaults = 2
INVARIANTS TypeOK NeverAskedAgain AccountsStayTrue
PROPERTIES CommitRestsOnRecord TurnEnds
CHECK_DEADLOCK FALSE
