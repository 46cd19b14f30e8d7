CONSTANTS
    Db = {"main", "epoch"}
    Temporary = {"epoch"}
    Key = {1, 2}
    Value = {1}
    NoValue = 0
    MaxFlushes = 3
    MaxCrashes = 2
SPECIFICATION MCSpec
ACTION_CONSTRAINT WriteOnce
INVARIANTS
    CrashSafe
    IterationExact
    HeadsExact
    IndexInSync
    CreditedOnce
    NotOverdrawn
    ContextReproducible
    FeesCredited
    Migrated
PROPERTIES
    StoreSpec
    TxCosts
CHECK_DEADLOCK FALSE
