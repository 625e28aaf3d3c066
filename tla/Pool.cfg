SPECIFICATION Spec
CONSTANTS
    Connections = {c1, c2, c3}
    Sessions = {a, b}
    PoolSizes = {0, 1, 2}
    life_time_ = 1
    MaxTime = 3
    None = None
SYMMETRY Interchangeable
INVARIANTS
    SizeExact
    Exclusive
    IdleAreClean
PROPERTIES
    FreshHandout
    ImplementsLease
