CONSTANTS
    Roots = {a}
    Games = {g}
    Clips = {k}
    Unmatched = {g}
    Calls = {c1}
    NoCall = NoCall
    Kinds <- RefreshKinds
    MaxTokens = 2
    MaxRevision = 2
SPECIFICATION MCSpec
CHECK_DEADLOCK FALSE
PROPERTIES
    ArchivalMovesAreAdded
