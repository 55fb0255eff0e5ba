SPECIFICATION PartSpec
CONSTANTS
    TokenIds = {97, 195, 160}
    EosIds = {}
    StopSets <- OneByteStops
    MaxTokens = 8
    MinKeep = 4
    TailSeqs = {1}
    Pieces <- MCPieces
    EosId = 8
    BosId = 9
    StreamStops <- MCStreamStops
    StopOnEos = {TRUE, FALSE}
    AddSpacePrefix = TRUE
    MaxPushes = 0
INVARIANT NeverPanics
CHECK_DEADLOCK FALSE
