SPECIFICATION FairSpec
CONSTANTS
    Handles <- TwoHandles
    Size <- Sizes
    WordSize = 16
    Chunks = {0, 1, 2}
    DefaultChunk = 8
    LatestArg = 9
    Tries = 2
    Excess = 2
    EventCap = 2
    MaxCalls = 3
INVARIANTS
    CountersAddUp
    PrefixOfPicture
    WholeUnlessShort
    AnnouncedInOrder
PROPERTIES
    CallTerminates
CHECK_DEADLOCK FALSE
