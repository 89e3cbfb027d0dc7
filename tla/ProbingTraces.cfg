CONSTANTS
    near = near
    far = far
    Probers = {}
    Tracers = {t1, t2}
    NoTracer = NoTracer
    Targets = {near, far}
    Distance <- MCDistance
    Stranger = Stranger
    NoAddress = NoAddress
    MaxHops = 2
    ProbesPerHop = 1
    MaxStrangers = 0
SPECIFICATION FairSpec
CHECK_DEADLOCK FALSE
INVARIANTS
    OvertimeIsOneHop
PROPERTIES
    CallsReturn
