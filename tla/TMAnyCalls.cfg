SPECIFICATION Spec
CONSTANTS
    w1 = w1 w2 = w2
    t1 = t1 t2 = t2 t3 = t3
    boss = boss adder = adder adder2 = adder2
    Workers = {w1}
    Clients = {boss, adder, adder2}
    Tasks = {t1, t2}
    May <- AnyCalls
    Timeouts = {"nowait", "forever"}
    Expiring = {t1}
    Limits = {0, 1}
    Batch = {1}
    NestedAdd = FALSE
    SizeT = 16
    NoTask = NoTask
INVARIANTS
    TypeOK

    
CHECK_DEADLOCK FALSE
