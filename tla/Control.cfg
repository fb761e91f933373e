SPECIFICATION ControlSpec
CONSTANTS
    Apps = {a, b}
    Session <- MCSession
    Recorders = {r, s}
    Captures = {"finalizing", "capture error"}
    MaxAsks = 1
    MaxLogins = 1
    MaxFaults = 1
    Writers = {v, w}
    Kinds = {"storage", "create", "on", "off"}
    MaxOps = 2
    MaxTroubles = 2
CHECK_DEADLOCK FALSE
INVARIANTS
    ControlIsSound
PROPERTIES
    EverythingIsAnswered
