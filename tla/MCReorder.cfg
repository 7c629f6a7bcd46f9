CONSTANTS
    Capacity = 4
    MaxPayloadLen = 2
    MaxSeq = 7
    Lengths = {0, 2}
    MaxCalls = 4
SPECIFICATION Spec
INVARIANTS StrictOrder NothingTakenIsLost NothingReadyWaits
