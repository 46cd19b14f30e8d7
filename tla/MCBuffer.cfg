SPECIFICATION MCSpec
CONSTANTS
    Event <- MCEvent
    Parents <- MCParents
    EpochOf <- MCEpochOf
    Own = {"o", "p"}
    Wrong = {"w"}
    Sealing = {"s", "p"}
    BuffSize = 2
INVARIANTS ParentsFirst NoneForgotten
PROPERTIES PushReturns FetcherLetsGo
