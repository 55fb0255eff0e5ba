SPECIFICATION PartSpec
CONSTANTS
    MaxU32 = 100
    Ranks = 2
    BucketSizes <- Buckets
    Actual <- Extents
    MaxEdges = 4
    MaxNodes = 2
    MaxViews = 2
    MaxCount = 5
INVARIANTS
    AcceptedIsExecutable StaticsFaithful ShardingSound ViewsSound CopiesSound GraphSound
PROPERTY MaterializeKeepsValid
CHECK_DEADLOCK FALSE
