CONSTANTS
    PagedGroups = {"window"}
    FixedGroups = {"rec"}
    Retain <- MCRetain
    BlockTokens = 2
    MaxBlocks = 2
    NumBlocks = 2
    MaxSeqs = 2
    MaxSeqId = 1
    MaxReserve = 3
    MaxCompactTokens = 2
    Tokens <- MCTokens
    Versions = {0}
SPECIFICATION CacheSpec
INVARIANTS
    HistoryIntact MirrorExact RecurrentVerified
CHECK_DEADLOCK FALSE
