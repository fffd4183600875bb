CONSTANTS
    c1 = c1
    c2 = c2
    c3 = c3
    c4 = c4
    Clients = {c1, c2, c3, c4}
    N = 2
    MaxFd = 1
    SqCap = 1
    QueueCap = 1
    Reliable = {0}
    None = None
SPECIFICATION FairSpec
INVARIANTS TypeOK SlabPinned InRotation
PROPERTIES ClosedWhenGiven OthersServed
CHECK_DEADLOCK FALSE
