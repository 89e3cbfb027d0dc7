CONSTANTS
    t1 = t1
    t2 = t2
    NoTarget = NoTarget
    Targets <- MCTargets
    MaxProbes = 1
    HistorySize = 1
    MaxStarts = 2
    MaxRounds = 2
SPECIFICATION FairSpec
INVARIANTS
    TypeOK
    NoDoubleClose
    OpenProbesAreRegistered
    LateResultsBounded
PROPERTIES
    ProbesFormARegistry
    OlderOnlyFromInitial
    GoroutinesEnd
