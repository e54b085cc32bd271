CONSTANTS
    NSubs = 1
    MaxSeq = 2
    MaxAttempts = 2
    MaxBackoff = 2
    RequeueLimit = 1
    MaxInterventions = 2
    MaxFaults = 1
    MaxCrashes = 1
    w1 = w1
    w2 = w2
    Slots = {w1, w2}
    BatchSize = 2
SPECIFICATION Spec
SYMMETRY MCSymmetry
CONSTRAINT FewDisturbances
INVARIANTS
    TypeOK
    ExclusiveBatch
    InflightIsHeld
    CursorIsNewestDelivered
    AcceptedIsQueued
    OldestSpentItsBudget
PROPERTIES
    ImplementsAtLeastOnce
    NoEarlyRetry
CHECK_DEADLOCK FALSE
