SPECIFICATION Spec
CONSTANTS
    o1 = o1
    o2 = o2
    c1 = c1
    c2 = c2
    Objects = {o1, o2}
    Clients = {c1, c2}
    Ids = {1, 2}
    Sharers <- TwoAndOne
    Factory <- DefaultFactory
    MayFail = {o2}
    None = None
    Callers = {a1, a2}
    MaxShutDowns = 1
    Users = {t1, t2}
    Slots = {1, 2}
    Things = {x, y}
    Recursive = {y}
    Nil = Nil
INVARIANTS
    HandlesExact
    ThreadsReaped
    MadeOnce
PROPERTIES
    CallsReturn
CHECK_DEADLOCK FALSE
