SPECIFICATION Spec
CONSTANTS
    GameStats = gs
    ActivePlayer = ap
    PlayerList = pl
    Samples = 2
    MaxTick = 1
    MaxPackets = 3
    Slots = 3
    ControlSlots = 1
    PageBatches = 1
    p1 = p1
    p2 = p2
    p3 = p3
    EventIds = {i1}
    Variants = {a, b}
    EventCapacity = 1
    MaxRows = 4
    MaxEpoch = 1
    MaxBatch = 2
    Media = {1, 2, 3}
    Capacity = 1
    MaxPending = 2
    MaxAsked = 2
    Expiry = 2
    Cadence = 1
    MaxTime = 3
    MaxCrashes = 2
    Recording = {1, 2, 3}
    GameOf <- MCGameOf
    MaxJobs = 2
    MaxTries = 1
    MaxCrash = 1
    RoundCadence = 1
    Freshness = 3
    Separation = {1, 2, 3}
    LiveAge = 1
    Horizon = 3
    MaxRestarts = 1
    MaxGame = 2
    Leaves = {"match", "journal", "checkpoint", "result", "history"}
    Games = {1, 2}
    MaxWrites = 1
    MaxMoves = 3
INVARIANTS
    TelemetryIsSound
    PostGameIsSound
    LeagueFactsAreSound
PROPERTIES
    ClosedStaysClosed
CHECK_DEADLOCK FALSE
