SPECIFICATION AppSpec
CONSTANTS
    Bundles = {1, 2}
    Media = {1}
    MaxResult = 1
    MaxBatches = 2
    ImportBatches = 1
    MaxEdits = 3
    MaxFaults = 1
    Second = 12
    TickRatio = 3
    MaxTick = 18
    Fine = 4
    MaxMedia = 2
    Bases <- MCBases
    FrameRates <- MCFrameRates
    Pts <- MCPts
    Counts = {0, 2, 3}
    Lengths = {0, 3, 4}
    Intercepts <- MCIntercepts
INVARIANTS
    FilesAreSound
    MediaIsExact
    PreparationIsSound
PROPERTIES
    EverythingEnds
CHECK_DEADLOCK FALSE
