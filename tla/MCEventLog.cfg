CONSTANTS
    h1 = h1
    h2 = h2
    rAll = rAll
    rOne = rOne
    s1 = s1
    s2 = s2
    Handlers = {h1, h2}
    Readers = {rAll, rOne}
    Streams = {s1, s2}
    All = All
    Subscribed <- MCSubscribed
    Keys = {k1}
    NoKey = NoKey
    None = None
    PageLimit = 2
    Retention = 1
    MaxClock = 2
    MaxSeq = 3
SPECIFICATION Spec
SYMMETRY MCSymmetry
INVARIANTS
    TypeOK
    CommitOrderIsSeqOrder
    StreamSeqGapless
    NoHole
    NothingTwice
    DedupeUnique
    AnsweredIsStored
PROPERTIES
    ImplementsOrderedLog
