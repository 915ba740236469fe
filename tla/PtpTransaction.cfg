CONSTANTS
    Ops <- OneOpPerShape
    StrayLimit = 2
    PipeCap = 3
    MaxNeed = 2
    MaxCalls = 3
SPECIFICATION FairSpec
INVARIANTS
    DesyncLastsUntilSwallowed
    AnswerIsWhole
PROPERTIES
    OnlyFaultsDesync
    OneTransactionAtATime
    ImplementsContract
    CallTerminates
\* The application may stop calling.
CHECK_DEADLOCK FALSE
