CONSTANTS
    c1 = c1
    c2 = c2
    l1 = l1
    l2 = l2
    Clients = {c1, c2}
    Links = {l1}
    MaxFd = 2
    BufCap = 2
    BufLen = 2
    NBuf = 1
    SqCap = 2
    Stream <- MixedStreams
    Leaving = {}
    Exiting = {}
    None = None
    ListenFd = ListenFd
SPECIFICATION Spec
PROPERTIES RearmedWhenOutOfBuffers
CHECK_DEADLOCK FALSE
