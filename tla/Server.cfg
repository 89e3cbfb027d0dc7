CONSTANTS
    h1 = h1
    c1 = c1
    NoHandler = NoHandler
    Handlers = {h1}
    Requests = {0}
    Second = 3
    Word = 32
    MaxHistory = 1
    BroadcastCap = 2
    MaxSessions = 1
    MaxTicks = 2
    Clients = {c1}
    SendCap = 1
    MaxMessages = 2
SPECIFICATION ServerSpec
CHECK_DEADLOCK FALSE
INVARIANTS
    LoopsAgree
    SamplesOnceInOrder
    FirstSessionInOrder
