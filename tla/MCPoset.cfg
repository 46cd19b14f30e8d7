CONSTANTS
    n1 = n1
    n2 = n2
    Validators = {1, 2}
    Stake <- WeightedStake
    Node = {n1, n2}
    Home <- EachHome
    Cheater = {}
    NoTransactions = {}
    AdvanceEpoch = {}
    MaxEpochBlocks = 2
    MaxEpochDuration = 100
    GenesisTime = 1
    Clock = {0}
    MaxValidatorEventsInBlock = 0
    MaxEvents = 5
    MaxEpoch = 2
    MaxRestarts = 1
SPECIFICATION MCSpec
INVARIANTS BlocksAgree ConfirmedInOrder HonestEventsAccepted
CHECK_DEADLOCK FALSE
