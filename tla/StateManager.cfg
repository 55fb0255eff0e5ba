CONSTANTS
    PagedGroups = {"all", "window", "sink"}
    FixedGroups = {"rec"}
    Retain <- MCRetain
    BlockTokens = 2
    MaxBlocks = 3
    NumBlocks = 3
    MaxSeqs = 2
    MaxSeqId = 2
    MaxReserve = 5
    MaxCompactTokens = 0
    Tokens = {}
SPECIFICATION Spec
INVARIANTS
    TypeOK BlockOwnership RetentionExact SlotsExact SoleHolderNeverExhausts
CHECK_DEADLOCK FALSE
