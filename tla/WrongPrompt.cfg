SPECIFICATION Spec
CONSTANTS
    MaxRequests = 2
    MaxOthers = 0
CHECK_DEADLOCK FALSE
INVARIANTS
    AnswersItsPrompt
