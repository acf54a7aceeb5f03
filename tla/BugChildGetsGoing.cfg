SPECIFICATION FairSpec
CONSTANTS
    Procs = {1, 2, 3}
    First = {1}
    ForkExecutors = {2}
    Fds = {1, 2, 3, 4}
    Ids = {1, 2}
    MaxMaps = 2
    MaxHeld = 1
    MaxKills = 1
    MaxCalls = 5
CHECK_DEADLOCK FALSE
PROPERTY ChildGetsGoing
