CONSTANTS
    INITIAL_MAP_SIZE = 256
    MaxMapSize = 2048
    next_power_of_two <- MCNextPowerOfTwo
    Receivers = {broker}
    KeepPagesForever = FALSE
    MaxPages = 5
    MaxCalls = 5
    Lens <- MCClientLens
SPECIFICATION FairSpec
INVARIANTS
    TypeOK
    EopAlwaysFits
    PlacementAgrees
    PagesOwnedOnce
    PendingPagesBounded
    RecvNeverFails
PROPERTIES
    RecvInOrder
    CommittedIsReceived
    CallsReturn
