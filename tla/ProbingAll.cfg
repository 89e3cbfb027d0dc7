CONSTANTS
    near = near
    far = far
    Probers = {p1}
    Tracers = {t1}
    NoTracer = NoTracer
    Targets = {near, far}
    Distance <- MCDistance
    Stranger = Stranger
    NoAddress = NoAddress
    MaxHops = 2
    ProbesPerHop = 1
    MaxStrangers = 1
SPECIFICATION Spec
CHECK_DEADLOCK FALSE
INVARIANTS
    TypeOK
    NeverNearerThanItIs
    PathEndsAtTarget
