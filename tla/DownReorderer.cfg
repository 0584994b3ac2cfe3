SPECIFICATION Spec
CONSTANTS
    Streams = {s1, s2}
    Modes = {"BestEffort", "Strict"}
    Limit = 2
    MaxSeq = 3
    MaxArrivals = 5
INVARIANTS TypeOK StrictInOrder NothingLost NothingHeldBack StoreBounded
