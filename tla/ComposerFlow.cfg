SPECIFICATION FairSpec
CONSTANTS
    Messages = {"ask"}
    Commands = {"run"}
    UIOnly = {"debug"}
    EditorTexts = {"ask"}
    MaxKeys = 4
    MaxPrompts = 2
CHECK_DEADLOCK FALSE
INVARIANTS
    GateTracksSubmission
    ComposerEditable
PROPERTIES
    DeliveredStaysSent
    GateOpens
