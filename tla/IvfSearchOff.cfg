CONSTANTS
    Indexes <- FewGrid
    Queries <- Some
    Engines = {"avx2"}
    Settings <- Typical
    PAIRS = 1
    BLOCK = 2
    HEADER = 64
    Quantize <- Rounded
    Junk = Junk
    Top = 3
    Block = 2
    MaxProbes = 2
    Checkpoints = {1}
    U32Max = 100
    U64Max = 200
    NoAnswer = NoAnswer
    Nowhere = Nowhere
    Dist <- PointDist
    Partial <- XDist
    CentDist <- CentroidDist
    BoxLB <- BoxDist
    Label <- FraudLabel
SPECIFICATION Spec
PROPERTIES MaxMeansOff
CHECK_DEADLOCK FALSE
