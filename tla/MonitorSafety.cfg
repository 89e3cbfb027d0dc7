CONSTANTS
    h1 = h1
    h2 = h2
    NoHandler = NoHandler
    Handlers <- MCHandlers
    Requests = {0, 6}
    Second = 3
    Word = 32
    MaxHistory = 2
    BroadcastCap = 2
    MaxSessions = 2
    MaxTicks = 2
SYMMETRY MCSymmetry
SPECIFICATION Spec
INVARIANTS
    TypeOK
    RunningIffOpen
    SessionHasItsLoops
    HistoryMatchesCount
    OneStragglerPerLoop
    QueuedOnceInOrder
