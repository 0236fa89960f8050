SPECIFICATION Spec
CONSTANTS
    K = 3
    D = 3
    Batches <- MCBatches
INVARIANTS
    MasksAreAncestry
    FlatMasksExact
    PathsRunForward
CHECK_DEADLOCK FALSE
