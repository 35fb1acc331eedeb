CONSTANTS
    NoBlock = NoBlock
    NoChange = NoChange
    NoHeight = NoHeight
    Blocks <- MC_CanonBlocks
    Canon <- MC_Canon
    ParentOf <- MC_ParentOf
    NumberOf <- MC_NumberOf
    ScheduledDelay <- MC_DelayedChange
    ForcedChange <- MC_ForcedChange
    ParaHeadOf <- MC_ParaHeadOf
    ParaHeads <- MC_ParaHeads
    FaultySets = {}
    ParaId = 1
    RevisionNumbers = {1, 2}
    AUTHORITIES_CHANGE_ITEM_MIN_COUNT = 2
    AUTHORITIES_CHANGE_ITEM_LIFETIME = 1
    TimestampMax = 100
    MaxNow = 3
    MaxParaProofs = 2
    InitTimestamp = 1
    UpgradePlans = {}

SPECIFICATION Spec
CHECK_DEADLOCK FALSE

INVARIANT
    LedgerMatchesChain
