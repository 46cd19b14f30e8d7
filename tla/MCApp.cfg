CONSTANTS
    Staker = {1, 2}
    Genesis = {1}
    Delegator = {"d"}
    Amounts = {1, 2}
    MaxEpochBlocks = 2
    MaxEpochDuration = 3
    BlockMissedLatency = 1
    OfflineBlocks = 2
    OfflinePeriod = 2
    MaxBlocks = 3
SPECIFICATION Spec
INVARIANT EpochValidatorsStored
CHECK_DEADLOCK FALSE
