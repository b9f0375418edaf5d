CONSTANTS
    Jobs = {j1}
    Attempts = {a1}
    NoJob = NoJob
    ConfiguredMaxConcurrentJobs = 1
    DrainEnabled = TRUE
    BackpressureEnabled = TRUE
    DiskGuardEnabled = TRUE
    DeadLetterEnabled = TRUE
    CfgMaxSessions = 1
    CfgMaxEgressMbps = 1
    ManagerOperations = FALSE
    LeaseRenewalEnabled = TRUE
    ControlEnabled = TRUE
    LeaseOutlivesAttempt = TRUE
    LocalWritesSucceed = TRUE
SPECIFICATION FairSpec
PROPERTIES AttemptsEnd DrainQuiesces
