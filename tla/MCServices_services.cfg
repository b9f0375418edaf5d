CONSTANTS
    Agents = {0, 1}
    Capacity <- MCCapacity
    Fingerprint <- MCCapacity
    MaxActive = 3
    MaxJobs = 4
    RingLimit = 2
    MaxPosts = 4
    Callers = {c1, c2}
    TraceJobs = {j1}
    NoJob = NoJob
    Retention = 3
    WindowLimit = 5
    MaxRequests = 2
    MaxLines = 4
    WordBits = 5
    Units = {1, 4, 16}
    MaxNumber = 9
    DefaultPart = 2
    MaxEdits = 2
    Lengths <- MCLengths
    PartSize = 2
    MaxRetries = 1
    BytesPerSecond = 1
    MaxDownloads = 2
SPECIFICATION Spec
INVARIANTS EventsKept   
PROPERTIES   RetainedArrive 
CHECK_DEADLOCK FALSE
