CONSTANTS
    INITIAL_MAP_SIZE = 512
    MaxMapSize = 2048
    next_power_of_two <- MCNextPowerOfTwo
    Receivers = {r1, r2}
    KeepPagesForever = TRUE
    MaxPages = 4
    MaxCalls = 3
    Lens <- MCLens
SPECIFICATION FairSpec
PROPERTIES
    ImplementsLog
