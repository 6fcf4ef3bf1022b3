SPECIFICATION Spec
CONSTANTS
    ada = ada
    bob = bob
    NoAlias = NoAlias
    Alias <- Solo
    Commands <- AllCommands
    MaxInvites = 2
    MaxTurns = 1
    MaxPipe = 1
    SendNotices = FALSE
    Keepalives = TRUE
    SlowStartup = FALSE
CHECK_DEADLOCK FALSE

    
PROPERTIES
    FollowsLifecycle
