SPECIFICATION FairTrainerSpec
CONSTANTS
    NumBlocks <- MCBlocks
    BlockSize = 2
    Requests = 7
    MaxRequests = 7
    Id <- MCId
    MaxAdmit <- MCAdmit
    MaxRunning = 2
    RunLimit = 2
    Spare <- MCSpare
    Depth = 1
    TopK = 1
    RowBudget = 0
    Graphs = TRUE
    PromptLens = {4}
    MaxTokens = {2}
    MaxUpdates = 1
    Steps = 2
    Prompts = 1
    Group = 3
    MaxPrompt = 4
    EvalEvery = 2
    EvalPrompts = 1
    DraftRefresh = 2
INVARIANTS
    OnPolicy
    NothingRestarts
    ServesPolicy
    DraftIsACheckpoint
    PoolNeverWaits
    RowsTileOutput
PROPERTIES
    TrainingEnds
