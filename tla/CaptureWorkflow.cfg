SPECIFICATION FairSpec
CONSTANTS
    IdCount = 2
    Polls = 3
    ErrLimit = 1
    MaxRuns = 3
INVARIANTS
    CompletionIsOwn
    PictureIsOwn
    DatabaseLeftClean
PROPERTIES
    ClearsWhatItSaw
    RunEnds
CHECK_DEADLOCK FALSE
