CONSTANTS
    JobIds = {j1, j2}
    Requests = {r1}
    Concurrency = 1
    Capacity = 1
    AttemptInputs = {2}
    SchedulerStarted = TRUE
    NoEntry = NoEntry
SPECIFICATION EngineSpec
INVARIANT FailedJobsRequeued
