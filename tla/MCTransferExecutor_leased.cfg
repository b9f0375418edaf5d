CONSTANTS
    Jobs = {j1}
    Attempts = {a1, a2}
    NoJob = NoJob
    ConfiguredMaxConcurrentJobs = 2
    DrainEnabled = FALSE
    BackpressureEnabled = TRUE
    DiskGuardEnabled = FALSE
    DeadLetterEnabled = TRUE
    CfgMaxSessions = 1
    CfgMaxEgressMbps = 1
    ManagerOperations = FALSE
    LeaseRenewalEnabled = TRUE
    ControlEnabled = TRUE
    LeaseOutlivesAttempt = TRUE
    LocalWritesSucceed = TRUE
SPECIFICATION Spec
SYMMETRY MCSymmetry
INVARIANTS OneAttemptPerJob CompletedMeansStored HubCompletionOnDisk OperatorReasonReported LetterBeforeFailed NoLeakedSlot
