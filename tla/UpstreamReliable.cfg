SPECIFICATION Spec
CONSTANTS
    QoS = "Reliable"
    FlushPolicy = "IntervalOnly"
    BufferSize = 2
    ExpiryZero = FALSE
    AliasPerResume = FALSE
    MaxSeq = 2
    ChannelSize = 2
    MaxWrites = 2
    MaxConns = 3
    MaxResumes = 2
INVARIANTS AcceptedIsIssued Retained AckedCloseIsComplete ResumedBeforeSending
PROPERTY ImplementsInOrderLog
