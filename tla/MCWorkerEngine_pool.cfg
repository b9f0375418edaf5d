CONSTANTS
    JobIds = {j1, j2, j3}
    Requests = {r1}
    Concurrency = 2
    Capacity = 1
    AttemptInputs = {0, 2}
    SchedulerStarted = TRUE
    NoEntry = NoEntry
SPECIFICATION EngineSpec
SYMMETRY MCSymmetry
INVARIANTS JobInOnePlace RestoredJobsRun RunsWithinAttempts
