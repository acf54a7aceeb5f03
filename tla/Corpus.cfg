SPECIFICATION Spec
CONSTANTS
    Clients = {c1, c2}
    Inputs = {x, y}
    NoInput = none
    cache_max_len = 1
    MaxSaves = 4
CHECK_DEADLOCK FALSE
INVARIANTS
    FilesAreOwn
    CacheKeepsTrack
