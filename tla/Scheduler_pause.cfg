CONSTANTS
    PagedGroups = {"all"}
    FixedGroups = {}
    Retain <- MCRetain
    BlockTokens = 2
    MaxBlocks = 2
    NumBlocks = 2
    MaxSeqs = 2
    MaxSeqId = 2
    MaxReserve = 4
    MaxCompactTokens = 0
    Tokens = {}
    Requests <- SafetyRequests
    MaxOutstanding = 2
    BucketSizes = {2}
    MinChunk = 2
    MaxChunk = 2
    BudgetMs = 1
    MaxWaitMs = 2
    MaxFaults = 1
    Outsiders = 1
SPECIFICATION SchedSpec
PROPERTIES
    CancelledPauseIsSilent
CHECK_DEADLOCK FALSE
