SPECIFICATION FairSpec
CONSTANTS
    N = 2
    Workers = {w1, w2}
    Scene <- AllCombat
    Combat = {"combat"}
    Urgent = {1}
    QueueBeats = 2
    Faults = {"redelivery", "overrun", "crash", "loss"}
    MaxFaults = 1
    MaxDeferrals = 1
    MaxGeneration = 4
    MaxToken = 3
INVARIANTS
    TypeOK
    NoGapInStory
    BudgetTrueToProvider

    
