SPECIFICATION ClientsSpec
CONSTANTS
    NumBlocks = 4
    BlockSize = 2
    Id = {r1, r2, r3}
    MaxSeqLen = 7
SYMMETRY IdSymmetry
INVARIANTS
    PoolAccounted
    TablesFit
PROPERTIES
    OwnershipSpec
