SPECIFICATION FairSpec
CONSTANTS
    MaxRequests = 2
    MaxOthers = 1
CHECK_DEADLOCK FALSE
INVARIANTS
    TypeOK
    InterpreterFollowsHub
PROPERTIES
    KeepsDeskPromise
    CancelledLeaves
    NextIsShown
