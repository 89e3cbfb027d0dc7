CONSTANTS
    c1 = c1
    b1 = b1
    b2 = b2
    Clients <- MCClients
    Broadcasters <- MCBroadcasters
    SendCap = 1
    MaxMessages = 3
SPECIFICATION FairSpec
CHECK_DEADLOCK FALSE
INVARIANTS
    TypeOK
    NoSendOnClosedChannel
    EachOnceInOrder
PROPERTIES
    ClientsFollowTheFeed
    FanOutEnds
    GoneClientsAreReleased
