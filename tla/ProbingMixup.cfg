CONSTANTS
    near = near
    far = far
    Probers = {p1}
    Tracers = {}
    NoTracer = NoTracer
    Targets = {far}
    Distance <- MCDistance
    Stranger = Stranger
    NoAddress = NoAddress
    MaxHops = 2
    ProbesPerHop = 1
    MaxStrangers = 0
SPECIFICATION Spec
CHECK_DEADLOCK FALSE
INVARIANTS
    HopIsItsRouter
