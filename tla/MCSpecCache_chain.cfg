SPECIFICATION CacheSpec
CONSTANTS
    Backend = "sdpa"
    MaxBucket = 3
    NumBlocks = 7
    BlockSize = 2
    Requests = 3
    MaxRequests = 3
    Id <- MCId
    MaxAdmit = 2
    MaxRunning <- NoLimit
    Spare <- MCSpare
    Depth = 2
    TopK = 1
    RowBudget = 2
    Graphs = FALSE
    PromptLens = {1, 2}
    MaxTokens = {0, 3}
    MaxUpdates = 1
INVARIANTS
    OnlyZeroTokensExhaust
    BlocksAccounted
    CachesExact
PROPERTIES
    CommittedStays
