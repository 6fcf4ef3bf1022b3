SPECIFICATION FairSpec
CONSTANTS
    ada = ada
    bob = bob
    NoAlias = NoAlias
    Alias <- Solo
    Commands <- EveryCommand
    MaxInvites = 1
    MaxTurns = 2
    MaxPipe = 2
    SendNotices = FALSE
    Keepalives = TRUE
    SlowStartup = TRUE
CHECK_DEADLOCK FALSE
INVARIANTS
    TypeOK
    PreparingOwned
    IdleMeansFree
    NoProcessLeak
PROPERTIES
    TurnEnds
    KeepaliveEnds
    StartupSettles
    ShutdownEnds
