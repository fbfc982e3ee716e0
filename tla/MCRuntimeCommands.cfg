SPECIFICATION FairSpec
CONSTANTS
    c1 = c1
    w1 = w1
    w2 = w2
    Commands = {c1}
    Workers = {w1, w2}
    Deadline = 1
    UploadTime = 1
    IntentTime = 2
    PurgeLease = 1
    Backoff = 1
    Settings <- AllSettings
INVARIANTS PublishedOnce PublishedIsStored LaunchIsRegistered
PROPERTIES VerdictStands CommandSettles
CHECK_DEADLOCK FALSE
