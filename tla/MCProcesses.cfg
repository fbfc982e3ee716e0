SPECIFICATION SpecEither
CONSTANTS
    Lease = 6
    Safety = 2
    Interval = 2
    Backoffs <- OneOrTwo
    Lateness = 1
    CancelBy = 6
    MaxTime = 14
    MaxDaemon = 3
    MaxHost = 2
INVARIANTS TypeSupervisor LeaseOutlivesWork LaunchesAreKnown EvidenceIsTrue
PROPERTIES CancelStopsWork CloseConcludes
CHECK_DEADLOCK FALSE
