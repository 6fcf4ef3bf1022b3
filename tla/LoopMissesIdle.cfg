SPECIFICATION FairSpec
CONSTANTS
    ada = ada
    bob = bob
    NoAlias = NoAlias
    Sorted <- Pair
    Scenarios <- OneLoop
    MaxLoopTurns = 2
CHECK_DEADLOCK FALSE
PROPERTIES
    LoopEvaluates
