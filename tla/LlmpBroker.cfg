CONSTANTS
    Clients = {c1, c2}
    Listener = listener
    ExitCleanlyAfter = 2
    LoopForever = FALSE
    MaxMsgs = 2
    MaxBacklog = 2
SPECIFICATION FairSpec
INVARIANTS
    TypeOK
    ForwardedInOrder
PROPERTIES
    RemovedOnlyWhenDone
    QuitsAfterLastClient
    QuitReachesEveryClient
    ExitedClientsAreRemoved
