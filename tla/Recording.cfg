\* Two game processes that overlap or follow each other: the smallest instance with a
\* replacement, a stale enumeration and a blocked owner next to a new process.
CONSTANTS
    Processes = {p, q}
    NoProcess = NoProcess
SPECIFICATION FairSpec
CHECK_DEADLOCK FALSE
INVARIANTS
    TypeOK
    OneCaptureOwner
    StatusMatchesOwner
PROPERTIES
    OnlyEndedProcessesRetire
    RecordedOnce
    PublishedAfterItsProcess
    ShutdownCompletes
    EndedRecordingsAreStopped
