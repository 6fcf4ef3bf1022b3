SPECIFICATION Spec
CONSTANTS
    ada = ada
    bob = bob
    NoAlias = NoAlias
    Alias <- Pair
    DeltaHistoryLimit = 2
    MaxInvites = 2
    MaxWords = 2
    MaxExtras = 0
    Outputs = {"first"}
    Items = {}
    SharedIds = TRUE
CHECK_DEADLOCK FALSE
INVARIANTS
    OwnWords
