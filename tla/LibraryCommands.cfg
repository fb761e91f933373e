CONSTANTS
    Roots = {a, b}
    Games = {g}
    Clips = {k}
    Unmatched = {g}
    Calls = {c1, c2}
    NoCall = NoCall
    Kinds <- AllKinds
    MaxTokens = 2
    MaxRevision = 3
SPECIFICATION MCSpec
SYMMETRY CallSymmetry
CHECK_DEADLOCK FALSE
INVARIANTS
    TypeOK
    SelectionIsPublished
    SelectionIsFresh
    ReadersAreCurrent
PROPERTIES
    AuthoritySpec
    ReadWithinOneRevision
