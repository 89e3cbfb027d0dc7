CONSTANTS
    Latencies <- MCLatencies
    MaxHops = 3
    ProbesPerHop = 3
SPECIFICATION Spec
CHECK_DEADLOCK FALSE
INVARIANTS
    TypeOK
    ListIsTheProblems
    BottlenecksHaveNeighbours
