CONSTANTS
    PagedGroups = {"all"}
    FixedGroups = {}
    Retain <- MCRetain
    BlockTokens = 2
    MaxBlocks = 2
    NumBlocks = 2
    MaxSeqs = 2
    MaxSeqId = 1
    MaxReserve = 4
    MaxCompactTokens = 0
    Tokens = {}
    Requests <- FittingRequests
    MaxOutstanding = 2
    BucketSizes = {1, 2}
    MinChunk = 1
    MaxChunk = 2
    BudgetMs = 1
    MaxWaitMs = 2
    MaxFaults = 1
    Outsiders = 1
SPECIFICATION FairSchedSpec
PROPERTIES
    EveryRequestFinishes
    PauseReachesRecord
CHECK_DEADLOCK FALSE
