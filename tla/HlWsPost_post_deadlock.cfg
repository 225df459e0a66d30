SPECIFICATION ThreadSpec
CONSTANTS
    MainThread = MainThread
    FillThread = FillThread
    None = None
    MaxPosts = 1
    Ops = {"place", "ioc"}
    Msgs = {1}
PROPERTY AutoReconnect
CHECK_DEADLOCK FALSE
