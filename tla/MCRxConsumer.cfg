CONSTANTS
    FrameNr = 6
    UdpSlots = 3
    NumFrames = 3
    RxBatch = 2
    QueueCap = 2
    BatchMax = 2
    ForeignMax = 1
    MaxPackets = 6
SPECIFICATION FairSpec
INVARIANTS  ParsedInOrderOnce FramesConserved
PROPERTIES EveryStoredParsed RingsNeverStarve
