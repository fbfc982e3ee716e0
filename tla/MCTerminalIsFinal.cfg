SPECIFICATION Spec
CONSTANTS
    QueueTime = 1
    HumanTime = 1
    Window = 1
    Settings <- OneAttempt
PROPERTY TerminalIsFinal
CHECK_DEADLOCK FALSE
