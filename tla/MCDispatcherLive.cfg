CONSTANTS
    NSubs = 2
    MaxSeq = 1
    MaxAttempts = 2
    MaxBackoff = 2
    RequeueLimit = 2
    MaxInterventions = 1
    MaxFaults = 0
    MaxCrashes = 1
    w1 = w1
    w2 = w2
    Slots = {w1}
    BatchSize = 1
SPECIFICATION FairSpec
PROPERTIES
    QueueDrains
    PassEnds
CHECK_DEADLOCK FALSE
