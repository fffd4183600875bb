CONSTANTS
    c1 = c1
    c2 = c2
    Clients = {c1, c2}
    Links = {l1}
    MaxFd = 3
    MaxEvents = 4
    BufCap = 2
    Stream <- ServeStreams
    Impatient = {c2}
    LbMayExit = FALSE
    Free = Free
    ListenFd = ListenFd
SPECIFICATION FairSpec
INVARIANTS NoStrandedRequest InOrderAnswers
PROPERTIES CloseIsJustified HandOverKept RequestsAnswered
CHECK_DEADLOCK FALSE
