SPECIFICATION Spec
CONSTANTS
    r1 = r1
    r2 = r2
    None = None
    Replicas = {r1, r2}
    NumJobs = 2
    Interval <- Intervals
    Backoff = 1
    BackoffCap = 2
    Timeout = 1
    Grace = 1
    Slack = 1
    Late = 0
    Concurrency = 1
    SlowTicks = TRUE
    MaxAge = 2
    MaxFailures = 1
    MaxFaults = 1
SYMMETRY Symmetry
INVARIANTS  SlotsSuffice
PROPERTIES ImplementsSchedule
