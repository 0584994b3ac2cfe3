SPECIFICATION FairSpec
CONSTANTS
    Streams = {s1}
    Closers = {c1}
    ErrLimit = 2
    HasTokenSource = FALSE
    MaxWires = 2
PROPERTY CloseAlwaysReturns
