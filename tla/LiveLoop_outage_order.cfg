SPECIFICATION Spec
CONSTANTS
    MaxOrders = 1
    MaxDrops = 1
    MaxStale = 0
    MaxRefused = 0
    MaxErrors = 0
INVARIANT
    BookEmptyInOutage
