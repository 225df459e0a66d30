SPECIFICATION LoopSpec
CONSTANTS
    None = None
    SpreadBps = 2
    CloseSpreadBps = 0
    CancelBandBps = 1
    MinRearm = 1
    Sizes = {1, 2}
    MaxSize = 2
    Indexes = {o1, o2}
    Spreads <- WideSpreads
    Interval = 2
    MaxSurprises = 1
INVARIANTS
    TypeOK
    FillFindsOrder
    HedgedBook
PROPERTIES
    NoMakerBesideActive
    DeferralEnds
