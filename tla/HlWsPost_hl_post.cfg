SPECIFICATION ThreadSpec
CONSTANTS
    MainThread = MainThread
    FillThread = FillThread
    None = None
    MaxPosts = 3
    Ops = {"place", "cancel"}
    Msgs = {1, 2, 3}
INVARIANTS
    TypeOK
    AnswerIsOwn
    UnknownOrdersFailed
    CancelledIsGone
    UnansweredIsQueued
CHECK_DEADLOCK FALSE
PROPERTIES
    ImplementsOrderCalls
    PostEnds
