SPECIFICATION FairSpec
CONSTANTS
    s1 = s1
    s2 = s2
    Sessions = {s1, s2}
    Settings <- AllSettings
INVARIANTS OneCloseAtATime ResourcesOutliveBrowser GuardAwaitsOutcome
PROPERTIES OperatorDecides RecoveryConcludes
CHECK_DEADLOCK FALSE
