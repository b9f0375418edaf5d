CONSTANTS
    Streams = {a1, a2}
    Sessions = {s1, s2}
    NoSession = NoSession
    ManualDrainUsed = TRUE
    SharedSessions = FALSE
    NetworkReliable = TRUE
    MaxChunks = 2
    MaxWindow = 2
    MaxSeconds = 0
    DrainEnabled = TRUE
    BackpressureEnabled = TRUE
    DiskGuardEnabled = FALSE
    DeadLetterEnabled = FALSE
    CfgMaxSessions = 2
    CfgMaxEgressMbps = 0
SPECIFICATION GatewayFairSpec
INVARIANTS CloseReportsAllBytes SessionsEndAtHub
PROPERTIES HandlersReturn DrainEmptiesGateway
