SPECIFICATION Spec
CONSTANTS
    NumBlocks = 6
    BlockSize = 2
    Requests = 1
    MaxRequests = 1
    Id <- MCId
    MaxAdmit = 1
    MaxRunning <- NoLimit
    Spare <- MCSpare
    Depth = 0
    TopK = 1
    RowBudget = 0
    Graphs = FALSE
    PromptLens = {1}
    MaxTokens = {4}
    MaxUpdates = 2
INVARIANTS
    ContextExact
