SPECIFICATION Spec
CONSTANTS
    ada = ada
    bob = bob
    NoAlias = NoAlias
    Alias <- Pair
    Commands <- TalkCommands
    MaxInvites = 2
    MaxTurns = 2
    MaxPipe = 1
    SendNotices = TRUE
    Keepalives = FALSE
    SlowStartup = FALSE
CHECK_DEADLOCK FALSE
SYMMETRY AliasSymmetry
INVARIANTS
    TurnAccounted
    InactiveIsClean
