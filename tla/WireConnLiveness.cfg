SPECIFICATION FairSpec
CONSTANTS
    Callers = {}
    Lanes = {"reliable"}
    ChannelSize = 1
    MaxId = 0
    MaxDatagrams = 0
    MaxServer = 2
    MaxAdds = 2
    AliasReused = FALSE
INVARIANT RoutedToCurrent
PROPERTIES SilenceIsNoticed CancelledEnds
