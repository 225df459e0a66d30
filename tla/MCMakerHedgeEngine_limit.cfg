SPECIFICATION LoopSpec
CONSTANTS
    None = None
    SpreadBps = 2
    CloseSpreadBps = 1
    CancelBandBps = 1
    MinRearm = 1
    Sizes = {1, 2}
    MaxSize = 2
    Oids = {o1, o2}
    Spreads <- CloseSpreads
    Interval = 2
    MaxPosition = 2
    StartPositions <- HedgedStart
    SpecHedge = FALSE
    LighterCap = 0
    MaxSurprises = 0
INVARIANTS
    
    
    RetryWhenAllowed
PROPERTY DeferralEnds
