SPECIFICATION FairSpec
CONSTANTS
    WindowBits = 2
    SegmentSize = 2
    MaxSegments = 3
    Streams = {1, 2}
    StreamLengths = {2}
    SocketLengths = {1, 3, 4}
    DatagramLengths = {1, 4, 5, 6}
    RecvChannel = 1
    WriteChannel = 2
    MaxMessages = 3
    MaxDatagrams = 2
    MaxPongs = 1
INVARIANTS DeliveredIsSent InOrderWithoutGap LostOnlyWithSegment DictionaryIsWindow EndIsLast
PROPERTY ReceiversEnd
