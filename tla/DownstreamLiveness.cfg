SPECIFICATION FairSpec
CONSTANTS
    u = u
    Modes = {"BestEffort"}
    Limit = 1
    MaxSeq = 1
    MaxArrivals = 2
    ExpiryZero = FALSE
    ChannelSize = 1
    MaxMeta = 1
    ConnCloses = TRUE
    MaxConns = 2
    MaxResumes = 1
PROPERTIES CancelledTaskEnds
