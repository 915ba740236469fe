SPECIFICATION Spec
CONSTANTS
    Storages <- TwoStorages
    Handles <- FourHandles
    StorageOf <- Places
    WordSize = 64
    MaxCalls = 2
INVARIANTS
    PicksARealStorage
CHECK_DEADLOCK FALSE
