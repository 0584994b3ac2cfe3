SPECIFICATION FairSpec
CONSTANTS
    Streams = {s1, s2}
    Closers = {c1}
    ErrLimit = 2
    HasTokenSource = TRUE
    MaxWires = 3
INVARIANTS ClosedMeansClosed TokenIsOwn
PROPERTY CloseReturns
