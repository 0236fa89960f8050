SPECIFICATION Spec
CONSTANTS
    Buckets = {1, 2}
    MaxBatch = 2
    Configs <- OneTokenPrompts
INVARIANTS
    AcceptsItsRows
