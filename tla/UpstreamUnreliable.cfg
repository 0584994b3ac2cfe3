SPECIFICATION FairSpec
CONSTANTS
    QoS = "Unreliable"
    FlushPolicy = "BufferSizeOnly"
    BufferSize = 1
    ExpiryZero = FALSE
    AliasPerResume = FALSE
    MaxSeq = 1
    ChannelSize = 1
    MaxWrites = 2
    MaxConns = 2
    MaxResumes = 1
INVARIANTS TypeOK IssuedOnce CloseRequestTotals
PROPERTIES CancelledTaskEnds AcceptedIsFlushed
