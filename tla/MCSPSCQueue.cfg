CONSTANTS
    Capacity = 4
    MaxBatch = 3
    MaxItems = 7
SPECIFICATION ObservedSpec
INVARIANTS TypeOK FifoDelivery NoSlotRace NoOverwrite CanPushIsStable SizeSound
PROPERTIES ImplementsFifo EveryItemDelivered
