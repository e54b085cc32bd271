CONSTANTS
    All = "all"
    Wild <- MCWild
    Malformed <- MCMalformed
    Globs <- MCGlobs
    Prefixed <- MCPrefixed
    Filters <- MCFilters
    Events <- MCEvents
    Limits <- MCLimits
    PullDefaultSize = 1
    PullMaxSize = 2
    MaxSeq = 2
    MaxLives = 2
    MaxAcks = 2
SPECIFICATION FairSpec
INVARIANTS
    TypeOK
    NothingSkipped
    AckedIsKept
    FanOutAsDocumented
PROPERTIES
    PullIsAnswered
    RetainedIsProcessed
CHECK_DEADLOCK FALSE
