CONSTANTS
    n1 = n1
    n2 = n2
    Validators = {1, 2, 3, 4}
    Stake <- MCStake
    Node = {n1, n2}
    Cheater = {4}
    ForkId = {0, 1}
    MaxFrame = 4
    MaxRestarts = 1
SPECIFICATION MCSpec
ACTION_CONSTRAINTS BoundedRoots OrderedArrival
INVARIANTS NoCrit Agreement DecidedInTime
CHECK_DEADLOCK FALSE
