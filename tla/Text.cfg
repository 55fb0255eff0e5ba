SPECIFICATION PartSpec
CONSTANTS
    TokenIds = {97, 98, 99, 195, 224, 160, 128, 256}
    EosIds = {195, 99}
    StopSets <- TailStops
    MaxTokens = 7
    MinKeep = 4
    TailSeqs = {1, 2}
    Pieces <- MCPieces
    EosId = 8
    BosId = 9
    StreamStops <- MCStreamStops
    StopOnEos = {TRUE, FALSE}
    AddSpacePrefix = TRUE
    MaxPushes = 5
INVARIANTS
    StopsExact StreamExact
CHECK_DEADLOCK FALSE
