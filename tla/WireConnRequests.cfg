SPECIFICATION Spec
CONSTANTS
    Callers = {c1, c2}
    Lanes = {"reliable"}
    ChannelSize = 1
    MaxId = 4
    MaxDatagrams = 0
    MaxServer = 0
    MaxAdds = 0
    AliasReused = FALSE
INVARIANT OwnResponse
