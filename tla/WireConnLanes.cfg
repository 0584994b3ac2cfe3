SPECIFICATION Spec
CONSTANTS
    Callers = {}
    Lanes = {"reliable", "unreliable"}
    ChannelSize = 1
    MaxId = 2
    MaxDatagrams = 2
    MaxServer = 0
    MaxAdds = 0
    AliasReused = FALSE
INVARIANTS QueuedIsWritten CloseIsOrderly
