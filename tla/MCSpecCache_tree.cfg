SPECIFICATION CacheSpec
CONSTANTS
    Backend = "flashinfer"
    MaxBucket = 1
    NumBlocks = 10
    BlockSize = 2
    Requests = 2
    MaxRequests = 2
    Id <- MCId
    MaxAdmit = 2
    MaxRunning <- NoLimit
    Spare <- MCSpare
    Depth = 2
    TopK = 2
    RowBudget = 0
    Graphs = TRUE
    PromptLens = {1}
    MaxTokens = {2, 5}
    MaxUpdates = 1
INVARIANTS
    RowsFit
    DraftRowsFit
    WithinMaxTokens
    CachesExact
    RowsStandForPaths
    MovesAreOrderly
