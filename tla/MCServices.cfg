CONSTANTS
    Peer = {"p", "q"}
    Batches <- MCBatches
    EpochOf <- MCEpochOf
    CreatorOf <- MCCreatorOf
    SignerOf <- MCSignerOf
    Keys <- MCKeys
    Thread = {1, 2}
    MaxQueuedTasks = 1
    MaxBatch = 2
    MaxQueuedInjects = 1
SPECIFICATION MCSpec
INVARIANTS
    DeliveredInOrder
    IndexedIsScan
    VerdictsRight
    RoundTrip
PROPERTY UnsubscribeReturns
CHECK_DEADLOCK FALSE
