CONSTANTS
    Jobs = {j1, j2, j3}
    Attempts = {a1, a2, a3}
    NoJob = NoJob
    ConfiguredMaxConcurrentJobs = 2
    DrainEnabled = FALSE
    BackpressureEnabled = TRUE
    DiskGuardEnabled = FALSE
    DeadLetterEnabled = TRUE
    CfgMaxSessions = 1
    CfgMaxEgressMbps = 1
    ManagerOperations = FALSE
    LeaseRenewalEnabled = FALSE
    ControlEnabled = FALSE
    LeaseOutlivesAttempt = TRUE
    LocalWritesSucceed = TRUE
SPECIFICATION Spec
SYMMETRY MCSymmetry
INVARIANT TransfersWithinLimit
