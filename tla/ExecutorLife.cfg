SPECIFICATION FairSpec
CONSTANTS
    u1 = u1
    u2 = u2
    cb = cb
    Users <- MCUsers
    Observing = cb
    Keepalive = n1
    Notifiers = {n1}
    Shells = {s1}
    Scenarios <- MCScenarios
    MaxEvents = 2
CHECK_DEADLOCK FALSE
INVARIANTS
    OutcomesFlushed
    ReadsAreCurrent
    AcceptedIsResolved
    DoneIsQuiet
PROPERTIES
    RecordedIsApplied
    CallsReturn
