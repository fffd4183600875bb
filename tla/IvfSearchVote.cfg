CONSTANTS
    Indexes <- Grid
    Queries <- Some
    Engines = {"scalar", "avx2", "fast"}
    Settings <- Mixed
    PAIRS = 1
    BLOCK = 2
    HEADER = 64
    Quantize <- Rounded
    Junk = Junk
    Top = 2
    Block = 2
    MaxProbes = 2
    Checkpoints = {1}
    U32Max = 100
    U64Max = 200
    NoAnswer = NoAnswer
    Nowhere = Nowhere
    Dist <- PointDist
    Partial <- XDist
    CentDist <- CentroidDist
    BoxLB <- BoxDist
    Label <- FraudLabel
SPECIFICATION Spec
INVARIANTS EveryReference TypeOK SlotsHonest NothingNearerMissed
PROPERTIES WorstOnlyShrinks ExactVote
CHECK_DEADLOCK FALSE
