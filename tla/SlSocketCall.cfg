\* Two DIAL lines and three samples, one of them with a byte that looks like a newline.
SPECIFICATION FairSpec
CONSTANTS
    Capacity = 5
    FeedCapacity = 1
    DialBuf = 3
    DrainBuf = 4
    RelayBuf = 4
    LineBufLimit = 3
    CallsLimit = 2
    FrameSamples = 1
    SeqModulus = 2
    TimestampModulus = 2
    DialBodies <- GoodAndBad
    NewlineBytes <- SecondIsLine
    DialLimit = 2
    SampleLimit = 3
INVARIANTS SocketTypeOK HeadersOrderPackets
PROPERTIES AudioArrivesInOrder PhasesOnly DialHeard SilenceFed AudioGetsOut
