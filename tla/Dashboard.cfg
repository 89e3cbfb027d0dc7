CONSTANTS
    Calls = {k1, k2, k3, k4}
    Load = k1
    Sockets = {s1, s2, s3, s4}
    NoSocket = NoSocket
    MaxFaults = 1
SPECIFICATION FairSpec
INVARIANTS
    TypeOK
    ReconnectReplaces
PROPERTIES
    PageSettles
