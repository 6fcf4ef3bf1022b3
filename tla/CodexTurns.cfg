SPECIFICATION FairSpec
CONSTANTS
    MaxTurns = 2
    MaxItems = 2
    StopBy = 1
    MaxStdout = 1
    MaxBuffer = 3
CHECK_DEADLOCK FALSE
INVARIANTS
    OneTurnAtATime
    EndsInKind
    NoticesStayQuiet
PROPERTIES
    TurnsAreTold
    StopCompletes
