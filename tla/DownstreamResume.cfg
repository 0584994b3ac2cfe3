SPECIFICATION Spec
CONSTANTS
    u = u
    Modes = {"Strict"}
    Limit = 1
    MaxSeq = 3
    MaxArrivals = 6
    ExpiryZero = FALSE
    ChannelSize = 1
    MaxMeta = 0
    ConnCloses = FALSE
    MaxConns = 2
    MaxResumes = 1
INVARIANTS AckIsSound ResumeTokenPresented MissingIsAccounted DeliveredAsYielded
