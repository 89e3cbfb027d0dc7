CONSTANTS
    h1 = h1
    h2 = h2
    NoHandler = NoHandler
    Handlers <- MCHandlers
    Plans <- MCPlans
    Requests = {0, 6}
    Second = 3
    Word = 32
    MaxHistory = 1
    BroadcastCap = 1
    MaxSessions = 2
    MaxTicks = 1
SPECIFICATION FairSpec
PROPERTIES
    StopEndsAllLoops
    SamplesFlow
    RequestsAreAnswered
