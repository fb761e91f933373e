SPECIFICATION Spec
CONSTANTS
    MaxPackets = 2
    Slots = 3
    ControlSlots = 1
    MaxBatch = 2
    PageBatches = 1
INVARIANT GracefulStopDrains
CHECK_DEADLOCK FALSE
