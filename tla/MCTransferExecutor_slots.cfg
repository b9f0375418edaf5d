CONSTANTS
    Jobs = {j1, j2}
    Attempts = {a1, a2}
    NoJob = NoJob
    ConfiguredMaxConcurrentJobs = 0
    DrainEnabled = FALSE
    BackpressureEnabled = TRUE
    DiskGuardEnabled = FALSE
    DeadLetterEnabled = FALSE
    CfgMaxSessions = 1
    CfgMaxEgressMbps = 1
    ManagerOperations = FALSE
    LeaseRenewalEnabled = FALSE
    ControlEnabled = FALSE
    LeaseOutlivesAttempt = FALSE
    LocalWritesSucceed = FALSE
SPECIFICATION Spec
SYMMETRY MCSymmetry
INVARIANT SingleSlotIsExclusive
PROPERTY ImplementsContract
