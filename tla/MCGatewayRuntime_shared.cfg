CONSTANTS
    Streams = {a1, a2}
    Sessions = {s1, s2}
    NoSession = NoSession
    ManualDrainUsed = FALSE
    SharedSessions = TRUE
    NetworkReliable = FALSE
    MaxChunks = 1
    MaxWindow = 2
    MaxSeconds = 2
    DrainEnabled = FALSE
    BackpressureEnabled = TRUE
    DiskGuardEnabled = FALSE
    DeadLetterEnabled = FALSE
    CfgMaxSessions = 2
    CfgMaxEgressMbps = 1
SPECIFICATION GatewaySpec
SYMMETRY MCSymmetry
INVARIANT NoLeakedSession
