CONSTANTS
    Heights <- MC_Heights
    Roots <- MC_ForgedRoots
    TrueRoot <- MC_TrueRoot
    HeaderTime <- MC_HeaderTime
    TRUSTING_PERIOD = 1
    InitHeight = 2
    MaxNow = 3

SPECIFICATION Spec
CHECK_DEADLOCK FALSE

INVARIANT
    ConsensusStatesMatchChain
