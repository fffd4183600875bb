CONSTANTS
    Scale = 100
    Half16 = 201
    Half32 = 200002
    Payloads <- Asked
    References <- Held
    Boxes <- Drawn
    Limits <- Worst
SPECIFICATION Spec
INVARIANTS TypeOK QuantizeIsNear EnginesAgree GivenUpIsFar BoxIsBound
