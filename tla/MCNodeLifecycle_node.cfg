SPECIFICATION FairSpec
CONSTANTS
    MaxTokens = 2
    MaxVersion = 2
    MaxClock = 2
    MaxRequests = 1
    Overlap = FALSE
INVARIANT NodeSound
PROPERTIES FilesKept ServiceComesUp SignalStops
