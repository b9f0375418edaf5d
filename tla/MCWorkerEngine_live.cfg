CONSTANTS
    JobIds = {j1, j2}
    Requests = {r1}
    Concurrency = 1
    Capacity = 2
    AttemptInputs = {2}
    SchedulerStarted = TRUE
    NoEntry = NoEntry
SPECIFICATION EngineReadSpec
INVARIANTS AcceptedIsSaved NoJobLost
PROPERTIES  CancelStopsScheduler
