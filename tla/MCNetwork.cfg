SPECIFICATION MCSpec
INVARIANTS
    SessionsEnd
    NodesNotForgotten
    NoSelfFork
    MarkedIsTold
    TimesIncrease
    DraftIsValid
CHECK_DEADLOCK FALSE
