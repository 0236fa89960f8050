SPECIFICATION Spec
CONSTANTS
    Rollouts <- MCRollouts
    Unit = 4
    Weight <- MCWeight
    IsClip = 8
    IcepopDelta = 1
    M2poDelta = 4
    Sizes = 5
    Lengths <- MCLengths
    OptSteps = {1, 2, 3, 4}
    Micros = {1, 2}
    Exponents <- MCExponents
CHECK_DEADLOCK FALSE
INVARIANTS
    EveryTokenOnce
    MicroInvariant
    StepsAsAsked
    CorrectionsAsDocumented
