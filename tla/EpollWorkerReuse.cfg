CONSTANTS
    c1 = c1
    c2 = c2
    Clients = {c1, c2}
    Links = {l1, l2}
    MaxFd = 2
    MaxEvents = 2
    BufCap = 2
    Stream <- ReuseStreams
    Impatient = {c1, c2}
    LbMayExit = TRUE
    Free = Free
    ListenFd = ListenFd
SPECIFICATION Spec
INVARIANTS TypeOK TablesAgree NoStaleEvent OwnBytesOnly
CHECK_DEADLOCK FALSE
