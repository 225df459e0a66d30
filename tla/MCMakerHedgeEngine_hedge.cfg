SPECIFICATION Spec
CONSTANTS
    None = None
    SpreadBps = 2
    CloseSpreadBps = 0
    CancelBandBps = 1
    MinRearm = 2
    Sizes = {1, 2}
    MaxSize = 2
    Oids = {o1, o2}
    Spreads <- WideSpreads
    Interval = 1
    MaxPosition = 2
    StartPositions <- FlatStart
    SpecHedge = FALSE
    LighterCap = 0
    MaxSurprises = 1
SYMMETRY OidSymmetry
INVARIANTS
    TypeOK
    HedgedBook
    GateMatchesOrder
PROPERTY NoSecondMaker
