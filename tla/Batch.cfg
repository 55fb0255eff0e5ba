SPECIFICATION PartSpec
CONSTANTS
    PagedGroups = {"all", "sink", "window"}
    FixedGroups = {"rec"}
    Retain <- MCRetain
    BlockTokens = 2
    MaxBlocks = 2
    NumBlocks = 2
    MaxSeqs = 2
    MaxSeqId = 1
    MaxReserve = 2
    MaxCompactTokens = 0
    Tokens = {}
    GroupOrder <- MCGroupOrder
    MaxBatchTokens = 3
    Caps <- MCCaps
    Batches <- MCBatches
    PositionArgs <- MCPositions
    TreeArgs <- MCTrees
    KvKind <- MCKvKind
    KvHeads = 2
    KvDims <- MCKvDims
    WriteCalls <- MCWriteCalls
    AttentionCalls <- MCAttentionCalls
    MaxT = 4
INVARIANTS
    TreeChecksExact BatchWellFormed AttentionExact
PROPERTIES
    FillsExact
CHECK_DEADLOCK FALSE
