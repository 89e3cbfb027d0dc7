CONSTANTS
    a = a
    b = b
    eth = eth
    NoCaller = NoCaller
    Callers <- MCCallers
    Requests = {"all", "network"}
    Interfaces <- MCInterfaces
    Loads <- MCLoads
    Second = 10
    Wrap = 3
    Word = 8
    Boot = 1
    MaxClock = 3
    MaxConns = 1
    MaxFailures = 1
SYMMETRY MCSymmetry
SPECIFICATION Spec
INVARIANTS
    TypeOK
    CpuTimeInOneReport
    EachOctetInOneRate
    IntervalIsOfTheTraffic
    SectionsStandAlone
    HolderIsInside
