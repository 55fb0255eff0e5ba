CONSTANTS
    PagedGroups = {"all"}
    FixedGroups = {}
    Retain <- MCRetain
    BlockTokens = 2
    MaxBlocks = 1
    NumBlocks = 2
    MaxSeqs = 1
    MaxSeqId = 0
    MaxReserve = 4
    MaxCompactTokens = 0
    Tokens = {}
    Requests <- LongRequest
    MaxOutstanding = 1
    BucketSizes = {2}
    MinChunk = 2
    MaxChunk = 2
    BudgetMs = 1
    MaxWaitMs = 2
    MaxFaults = 0
    Outsiders = 0
SPECIFICATION SchedSpec
INVARIANTS
    DecodeFailsOnlyWhenFull
CHECK_DEADLOCK FALSE
