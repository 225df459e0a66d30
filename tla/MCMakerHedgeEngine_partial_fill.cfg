SPECIFICATION Spec
CONSTANTS
    None = None
    SpreadBps = 2
    CloseSpreadBps = 0
    CancelBandBps = 1
    MinRearm = 1
    Sizes = {2}
    MaxSize = 2
    Oids = {o1, o2}
    Spreads <- OneSpread
    Interval = 1
    MaxPosition = 4
    StartPositions <- FlatStart
    SpecHedge = FALSE
    LighterCap = 0
    MaxSurprises = 0
PROPERTY EveryFillTakenUp
