CONSTANTS
    FrameNr = 8
    UdpSlots = 4
    NumFrames = 3
    RxBatch = 2
    QueueCap = 3
    BatchMax = 2
    ForeignMax = 0
    MaxPackets = 5
SPECIFICATION Spec
INVARIANT RecycledFramesConsumed
