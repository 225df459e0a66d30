SPECIFICATION Spec
CONSTANTS
    None = None
    SpreadBps = 2
    CloseSpreadBps = 0
    CancelBandBps = 1
    MinRearm = 1
    Sizes = {1, 2}
    MaxSize = 2
    Oids = {o1, o2}
    Spreads <- WideSpreads
    Interval = 1
    MaxPosition = 2
    StartPositions <- FlatStart
    SpecHedge = TRUE
    LighterCap = 4
    MaxSurprises = 0
SYMMETRY OidSymmetry
INVARIANT SpecFollowsOrder
