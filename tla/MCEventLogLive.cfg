CONSTANTS
    h1 = h1
    h2 = h2
    rAll = rAll
    rOne = rOne
    s1 = s1
    s2 = s2
    Handlers = {h1, h2}
    Readers = {rOne}
    Streams = {s1, s2}
    All = All
    Subscribed <- MCSubscribedOne
    Keys = {k1}
    NoKey = NoKey
    None = None
    PageLimit = 1
    Retention = 1
    MaxClock = 2
    MaxSeq = 2
SPECIFICATION FairSpec
PROPERTIES
    AppendEnds
    EventArrives
