SPECIFICATION PartSpec
CONSTANTS
    a1 = a1
    a2 = a2
    Owners <- MCOwners
    Limit = 3
    Sizes = {0, 1, 2, 3, 4}
    MaxWord = 4
    MaxLeaked = 2
    MaxEvents = 7
    EventLimit = 20
    ChainSteps = {1, 2}
    ChainEvents = 5
    Steps = {1, 2, 3}
    Keys = {"k1", "k2", "k3"}
    WarmKeys = {"k1"}
    Programs <- MCPrograms
    Capacities = {5}
    Align = 2
    WordMax = 9
    SliceSizes = {1, 4}
    LogCapacity = 2
    NoGraph = NoGraph
    NoRecord = NoRecord
    Clones = {"r1", "r2"}
    Founder = "r1"
    StaticOp <- MCStaticOp
    Generations = {1, 2}
    Requests <- MCRequests
    ManifestDocs <- MCManifestDocs
    TuneDocs <- MCTuneDocs
    JitAnswers <- MCJitAnswers
    BaseDirs = {"d1"}
    MaxCalls = 4
    LaunchEntries = {"e1", "e2"}
    MaxLaunches = 2
INVARIANTS
    LedgerExact ResidentWithinBudget DeviceSound
PROPERTIES ImplementsAtomic ChainExact RegistrySound
CHECK_DEADLOCK FALSE
