SPECIFICATION MCSpec
CONSTANTS
    Event = {"a", "b"}
    Parents <- MCParents
    Peer = {p, q}
    Batches <- MCSingles
    HashLimit = 2
    MaxQueuedAnns = 1
    MaxQueuedInjects = 1
    MaxQueuedTasks = 1
    ArriveTimeout = 1
    FetchTimeout = 1
    ForgetTimeout = 2
SYMMETRY Symmetry
CONSTRAINT OneMessage
INVARIANTS AnnouncesSynced SearchAdvances
