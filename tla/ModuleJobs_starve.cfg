SPECIFICATION LiveSpec
CONSTANTS
    r1 = r1
    r2 = r2
    None = None
    Replicas = {r1}
    NumJobs = 3
    Interval <- Intervals
    Backoff = 2
    BackoffCap = 3
    Timeout = 3
    Grace = 1
    Slack = 1
    Late = 0
    Concurrency = 1
    SlowTicks = FALSE
    MaxAge = 3
    MaxFailures = 1
    MaxFaults = 0
PROPERTIES DueRunsStart
