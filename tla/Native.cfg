SPECIFICATION Spec
CONSTANTS
    callbacks = {c1, c2}
    slotSet = {s1, s2, s3}
    Handlers = {"frame", "closed"}
    Surfaces = 2
    MaxRecreations = 1
    Sizes = {"a", "b"}
    Ring = 2
    Period = 2
    CatchUp = 2
    Retry = 1
    Batch = 2
    LastTick = 2
    MaxFrames = 3
    MaxLeaves = 1
    MaxLag = 1
    MaxSubmitted = 4
    Lead = 3
    Prefix = 2
    Second = 2
    StartupWait = 3
    StopWait = 1
    MuxWait = 2
    Horizon = 2
    Stages = 2
    MaxSessions = 2
    Windows = {"w1", "w2"}
    Cadence = 1
    MaxGap = 2
    MaxResolution = 0
    Stall = 2
    MaxTime = 5
INVARIANTS
    PipelineIsSound
PROPERTIES
    StepsAreJustified
    EverythingEnds
CHECK_DEADLOCK FALSE
