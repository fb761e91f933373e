CONSTANTS
    Bundles = {1}
    Media = {1}
    MaxResult = 1
    MaxBatches = 2
    ImportBatches = 1
    MaxEdits = 2
    MaxFaults = 0
SPECIFICATION Spec
CHECK_DEADLOCK FALSE
INVARIANTS
    UnavailableWasTried
