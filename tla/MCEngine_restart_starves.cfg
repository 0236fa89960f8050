SPECIFICATION FairSpec
CONSTANTS
    NumBlocks = 3
    BlockSize = 2
    Requests = 1
    MaxRequests = 1
    Id <- MCId
    MaxAdmit = 1
    MaxRunning <- NoLimit
    Spare <- MCSpare
    Depth = 0
    TopK = 1
    RowBudget = 0
    Graphs = FALSE
    PromptLens = {3}
    MaxTokens = {3}
    MaxUpdates = 1
PROPERTIES
    Answered
