CONSTANTS
    NoBlock = NoBlock
    NoChange = NoChange
    NoHeight = NoHeight
    Blocks <- MC_Blocks
    Canon <- MC_Canon
    ParentOf <- MC_ParentOf
    NumberOf <- MC_NumberOf
    ScheduledDelay <- MC_ScheduledDelay
    ForcedChange <- MC_ForcedChange
    ParaHeadOf <- MC_ParaHeadOf
    ParaHeads <- MC_ParaHeads
    FaultySets = {}
    ParaId = 1
    RevisionNumbers = {1, 2}
    AUTHORITIES_CHANGE_ITEM_MIN_COUNT = 2
    AUTHORITIES_CHANGE_ITEM_LIFETIME = 1
    TimestampMax = 100
    MaxNow = 3
    MaxParaProofs = 2
    InitTimestamp = 1
    UpgradePlans <- MC_UpgradePlans

SPECIFICATION FairSpec
CHECK_DEADLOCK FALSE

INVARIANTS
    TypeOK
    ConsensusStatesFinalized
    LatestParaHeightStored
    KnownHashesFinalized
    LedgerWellFormed
    LedgerMatchesChain
    EquivocationSymmetry
PROPERTY
    NoRewind
    RefinesAbstractClient
    FollowsTip
