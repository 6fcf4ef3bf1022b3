SPECIFICATION Spec
CONSTANTS
    ada = ada
    bob = bob
    NoAlias = NoAlias
    Alias <- One
    DeltaHistoryLimit = 2
    MaxInvites = 2
    MaxWords = 2
    MaxExtras = 1
    Outputs = {"first"}
    Items = {"step"}
    SharedIds = FALSE
CHECK_DEADLOCK FALSE
INVARIANTS
    ProjectionFollows
    
    MarkIsLatest
