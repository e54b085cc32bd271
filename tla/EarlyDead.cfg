CONSTANTS
    NSubs = 1
    MaxSeq = 2
    MaxAttempts = 2
    MaxBackoff = 2
    RequeueLimit = 1
    MaxInterventions = 0
    MaxFaults = 0
    MaxCrashes = 0
    w1 = w1
    w2 = w2
    Slots = {w1, w2}
    BatchSize = 2
SPECIFICATION Spec
SYMMETRY MCSymmetry
INVARIANTS
    DeadSpentItsBudget
CHECK_DEADLOCK FALSE
