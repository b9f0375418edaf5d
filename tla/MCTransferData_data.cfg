CONSTANTS
    Jobs = {j1, j2}
    Sources <- MCSources
    MaxRedirects = 2
    ReadLimit = 3
    MaxEvents = 16
    Attempts = {a1}
    Versions = {1, 2, 3}
    SizeOf <- MCSizeOf
    Drivers = {"local", "s3", "signed", "auren"}
    ResumeSettings = {TRUE, FALSE}
    ExpectedVersions = {0, 1, 3}
    MinBytes = 2
    MultipartEnabled = TRUE
    PartSize = 2
    RangesSupported = TRUE
    FramedBodies = TRUE
    LeasesLast = TRUE
SPECIFICATION FairSpec
INVARIANTS  DeliveredAsReported OneVersionDelivered AbortOnError
PROPERTIES ClaimedEnds RetriesComplete
CHECK_DEADLOCK FALSE
