SPECIFICATION EitherSpec
CONSTANTS
    WordSize = 256
    FewItems = 1
    MaxCalls = 2
    Tables <- MCTables
    Entries <- MCEntries
    Exact <- ExactConverters
    Asked <- MCAsked
    Groups = {1, 2, 3, 4, 5}
INVARIANTS
    WildReadCause
PROPERTIES
    SetReaches
    GetReflectsCamera
    CutNeverMixes
    RoundTrip
    Monotone
\* An application may stop calling.
CHECK_DEADLOCK FALSE
