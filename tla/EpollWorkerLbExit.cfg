CONSTANTS
    c1 = c1
    c2 = c2
    Clients = {c1, c2}
    Links = {l1}
    MaxFd = 2
    MaxEvents = 3
    BufCap = 2
    Stream <- LiveStreams
    Impatient = {}
    LbMayExit = TRUE
    Free = Free
    ListenFd = ListenFd
SPECIFICATION Spec
PROPERTIES HandOverKept
CHECK_DEADLOCK FALSE
