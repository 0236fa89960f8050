SPECIFICATION Spec
CONSTANTS
    Buckets = {1, 3}
    MaxBatch = 4
    Configs <- MCConfigs
INVARIANTS
    AcceptsItsRows
    ReplaysItsBatch
