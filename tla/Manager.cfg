SPECIFICATION Spec
CONSTANTS
    Strings = {1, 2, 3}
    Pools = {p1, p2, p3, p4}
    Threads = {a, b}
    Null = Null
SYMMETRY Interchangeable
INVARIANTS
    OnePoolPerString
CHECK_DEADLOCK FALSE
