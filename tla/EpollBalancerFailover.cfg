CONSTANTS
    c1 = c1
    c2 = c2
    c3 = c3
    NoClient = NoClient
    Clients <- ThreeClients
    N = 3
    QueueCap = 1
    MaxCrashes = 3
    MaxLinks = 4
SPECIFICATION FairSpec
INVARIANTS TypeOK OneOwner NoLinkLeaked NoQueueAbandoned
PROPERTIES KeepsPromise EveryClientPlaced
CHECK_DEADLOCK FALSE
