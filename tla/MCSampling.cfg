SPECIFICATION Spec
CONSTANTS
    Vocab = 3
    W = 3
    G = 6
    Rows <- MCRows
    Powers = {2, 5}
    Params <- MCParams
CHECK_DEADLOCK FALSE
INVARIANTS
    
    DrawsHaveMass
    
    
