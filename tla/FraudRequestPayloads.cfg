CONSTANTS
    Requests <- Asked
    Times <- Spelled
    MccRisk <- Risks
    UsizeMod = 100000
SPECIFICATION Spec
INVARIANTS FramedWhole FeaturesOfPayload
CHECK_DEADLOCK FALSE
