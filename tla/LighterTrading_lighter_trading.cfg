SPECIFICATION Spec
CONSTANTS
    None = None
    MaxTx = 2
    Sizes = {1}
    MinBase = 2
    MaxRestarts = 1
    MaxNoise = 1
INVARIANTS
    TypeOK
    NonceInStep
    
    
    ConfirmedIsExecuted
    
    CancelledIsGone
CHECK_DEADLOCK FALSE
