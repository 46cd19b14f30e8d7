CONSTANTS
    Db = {"main", "epoch"}
    Temporary = {"epoch"}
    Key = {1, 2}
    Value = {1}
    NoValue = 0
    MaxFlushes = 3
    MaxCrashes = 2
SPECIFICATION Spec
INVARIANT NothingLost
CHECK_DEADLOCK FALSE
