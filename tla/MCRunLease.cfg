SPECIFICATION FairSpec
CONSTANTS
    QueueTime = 1
    HumanTime = 1
    Window = 1
    Settings <- AllSettings
INVARIANTS OneLiveExecutor NoSilentReplay RetryAfterClosure VerdictIsEarned PermitEndsWithBudget
PROPERTY RunEnds
CHECK_DEADLOCK FALSE
