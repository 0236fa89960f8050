SPECIFICATION FairCacheSpec
CONSTANTS
    Backend = "flashinfer"
    MaxBucket = 3
    NumBlocks = 5
    BlockSize = 2
    Requests = 3
    MaxRequests = 3
    Id <- MCId
    MaxAdmit = 2
    MaxRunning = 2
    Spare <- MCSpare
    Depth = 0
    TopK = 1
    RowBudget = 0
    Graphs = TRUE
    PromptLens = {1, 3}
    MaxTokens = {1, 3}
    MaxUpdates = 1
INVARIANTS
    TypeOK
    QueuesConsistent
    AppendNeverFails
    RowsStandForPaths
PROPERTIES
    AdmitsOldest
    BudgetsSpec
    Answered
