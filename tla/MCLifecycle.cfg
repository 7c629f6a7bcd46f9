CONSTANTS
    Setups <- AllSetups
    Messages = 4
    QueueCap = 2
    BatchMax = 2
    RxBatch = 2
    EmptyLimit = 2
    InitMayFail = TRUE
    SignalMayCome = TRUE
SPECIFICATION FairSpec
INVARIANTS DirectNeverLoses AtMostOneStranded FramesKeptWhileFeeding LastRowComplete
 
