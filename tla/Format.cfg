SPECIFICATION PartSpec
CONSTANTS
    KvArgs <- MCKvArgs
    TensorArgs <- MCTensorArgs
    Alignments = {3, 64, 4096}
    MaxKvs = 2
    MaxTensors = 2
    ShardFiles <- MCShardFiles
    MaxShards = 2
    KernelCalls <- MCKernelCalls
    MoeTokens = 2
    MoeExpertCount = 3
    MoeTopK = 2
    MoeDff = 2
    MoeDm = 64
    Logits <- MCLogits
    Saturation = 1
    RouteCalls <- MCRouteCalls
    FfnCalls <- MCFfnCalls
INVARIANTS
    RepackExact EntriesExact EmittedReadsBack AcceptedIsSound WeightsDecodeExact ExpertsExact
CHECK_DEADLOCK FALSE
