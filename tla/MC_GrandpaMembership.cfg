CONSTANTS
    Absent = Absent
    NoProof = NoProof
    NotFrozen = NotFrozen
    Values = {"v1", "v2"}
    FinalizedHead <- MC_FinalizedHead
    UpgradeHeads <- MC_UpgradeHeads
    StateOf <- MC_StateOf
    DELAY_PERIOD_TIME = 2
    DELAY_PERIOD_BLOCKS = 1
    MaxBlockTime = 2

SPECIFICATION HostFairSpec
CHECK_DEADLOCK FALSE

INVARIANT
    TypeOK
PROPERTY
    ProvenFactsHold
    PacketsEventuallyProvable
