SPECIFICATION FairSpec
CONSTANTS
    ada = ada
    bob = bob
    NoAlias = NoAlias
    Sorted <- Pair
    Scenarios <- Everything
    MaxLoopTurns = 2
CHECK_DEADLOCK FALSE
INVARIANTS
    AnsweredOnce
    ReportsDeliveries
    ShownIsCurrent
    NoStrandedEvent
PROPERTIES
    StageSettles
