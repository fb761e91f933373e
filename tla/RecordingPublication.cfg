SPECIFICATION PublicationSpec
CONSTANTS
    recorded = recorded
    copied = copied
    other = other
    broken = broken
    first = first
    second = second
    Media <- MCMedia
    Timelines <- MCTimelines
    Timeline <- MCTimeline
    Invalid = Invalid
    Nothing = Nothing
    Torn = Torn
    MaxForeign = 2
    MaxFaults = 2
    Digits = 2
    TimestampLength = 2
    SuffixLength = 1
    Sound <- MCSound
    Damaged <- MCDamaged
    Kept <- MCKept
    Canonical = {}
    Noise <- MCNoise
    MaxEntries = 3
    MaxSearches = 3
    MaxProbes = 1
    MaxFailures = 1
INVARIANTS
    TypeOK
    CanonicalVideoHasProof
PROPERTIES
    PromotionIsProven
    BytesAreRetained
    InterruptedIsFinished
    NothingIsSkipped
    
