SPECIFICATION GroupsSpec
CONSTANTS
    WordSize = 256
    FewItems = 1
    MaxCalls = 2
    Tables <- MCTables
    Entries <- MCEntries
    Exact <- ExactConverters
    Asked <- MCAsked
    Groups = {1, 2, 3, 4, 5}
PROPERTIES
    SetDelivers
    SetSparesOthers
    GetReflectsSettings
    EchoIsHarmless
\* An application may stop calling.
CHECK_DEADLOCK FALSE
