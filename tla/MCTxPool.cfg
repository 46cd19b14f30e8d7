CONSTANTS
    Account = {1, 2}
    Tx <- MCTx
    Batch <- MCBatch
    Balance <- MCBalance
    PriceBump = 10
    PriceLimit = 1
    MinGasPrice = 1
    AccountSlots = 1
    GlobalSlots = 2
    AccountQueue = 1
    GlobalQueue = 2
    Caller = {1, 2, 3}
    Request <- MCRequest
    NewPrice = 3
    MaxAdds = 4
    MaxBlocks = 1
    MaxRestarts = 1
SPECIFICATION MCSpec
INVARIANTS PoolConsistent PendingAnnounced WaitersServed
PROPERTY NonceOnce
CHECK_DEADLOCK FALSE
