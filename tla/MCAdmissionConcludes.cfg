SPECIFICATION FairSpec
CONSTANTS
    u = u
    w1 = w1
    w2 = w2
    r1 = r1
    r2 = r2
    NoIdentity = none
    Executions = {1, 2}
    Workers = {w1, w2}
    Releasers = {r1}
    MaxSessions = 4
    Settings <- Live
PROPERTIES AdmissionConcludes
CHECK_DEADLOCK FALSE
