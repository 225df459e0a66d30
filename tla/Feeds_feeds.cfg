SPECIFICATION FairSpec
CONSTANTS
    Msgs = {"bbo", "trades", "userFills", "ticker", "positions", "orders", "pong"}
    MaxInbox = 3
    MaxWrites = 3
INVARIANTS
    TypeOK
    FlagIsReal
    NothingDropped
    QueuedOnce
    HlWritesAlone
PROPERTY EventuallySubscribed
CHECK_DEADLOCK FALSE
