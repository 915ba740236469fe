SPECIFICATION Spec
CONSTANTS
    Devices <- TwoDevices
    Alts <- TwoAlts
    IdOf <- OneIdEach
    MaxOpens = 3
INVARIANTS
    ClaimsAreRecorded
    EndpointsOfClaimed
    HandlesAccounted
PROPERTIES
    OpenIsClaimed
