CONSTANTS
    NANOS = 10
    W = 5
    Timestamps <- MC_AroundEpoch
    MockHeights <- MC_MockHeights
    MockNanos <- MC_MockNanos
    Panic = Panic
    None = None

SPECIFICATION Spec
CHECK_DEADLOCK FALSE

INVARIANT
    ConversionsPreserveState
