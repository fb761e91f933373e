\* Two app processes, two batch ids and a recovery budget of one, so that a retained
\* batch stands before another.
CONSTANTS
    Workers = {v, w}
    NoWorker = NoWorker
    Ids = {1, 2}
    Names = {x, y}
    MaxMembers = 2
    BatchLimit = 1
    MaxFaults = 1
SPECIFICATION FairSpec
CHECK_DEADLOCK FALSE
INVARIANTS
    TypeOK
    LiveBatchIntact
    StagedMediaIsOwned
PROPERTIES
    ForeignBatchesStay
    ClipStoreSpec
    AbandonedReclaimed
