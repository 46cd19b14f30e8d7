CONSTANTS
    Validators = {1, 2, 3}
    Stake <- MCStake
    Cheater = {3}
    MaxEvents = 5
    DropEvents = 4
    MaxCached = 1
SPECIFICATION MCSpec
ACTION_CONSTRAINTS BoundedEvents
INVARIANTS IndexIsGraph ForksExclude
CHECK_DEADLOCK FALSE
