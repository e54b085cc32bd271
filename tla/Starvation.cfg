CONSTANTS
    NSubs = 5
    MaxSeq = 1
    MaxAttempts = 1
    MaxBackoff = 1
    RequeueLimit = 1
    MaxInterventions = 0
    MaxFaults = 0
    MaxCrashes = 0
    w1 = w1
    w2 = w2
    Slots = {w1}
    BatchSize = 1
SPECIFICATION FairSpec
PROPERTIES
    QueueDrains
CHECK_DEADLOCK FALSE
