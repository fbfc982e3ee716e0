CONSTANTS
    w1 = w1
    w2 = w2
    h1 = h1
    p1 = p1
    Workers = {w1, w2}
    NoWorker = none
    Humans = {h1}
    Projectors = {p1}
    Plans <- MCPlans
    Kinds = {"SPEC", "INPUT", "RETRYABLE"}
    MaxNumber = 2
    MaxFaults = 1
    MayBeLate = TRUE
SPECIFICATION FairSpec
INVARIANTS StageFollowsAttempt EndIsAnnounced
PROPERTIES LateResultRejected CancelIsFinal ImplementsAttempts AnalysisConcludes
CHECK_DEADLOCK FALSE
