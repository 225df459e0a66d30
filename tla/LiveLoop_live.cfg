SPECIFICATION FairSpec
CONSTANTS
    MaxOrders = 2
    MaxDrops = 2
    MaxStale = 2
    MaxRefused = 1
    MaxErrors = 1
INVARIANTS
    TypeOK
    OneBlindTick
PROPERTY NamedSwitchEnds
