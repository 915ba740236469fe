CONSTANTS
    Ops <- OneOpPerShape
    StrayLimit = 2
    PipeCap = 3
    MaxNeed = 2
    MaxCalls = 3
SPECIFICATION Spec
INVARIANT DataCarriesCommandTid
CHECK_DEADLOCK FALSE
