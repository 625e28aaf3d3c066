SPECIFICATION Spec
CONSTANTS
    w1 = w1 w2 = w2
    t1 = t1 t2 = t2 t3 = t3
    boss = boss adder = adder adder2 = adder2
    Workers = {w1, w2}
    Clients = {boss, adder}
    Tasks = {t1, t2, t3}
    May <- OneManager
    Timeouts = {"nowait", "forever", "timed"}
    Expiring = {t1}
    Limits = {1}
    Batch = {1, 2}
    NestedAdd = FALSE
    SizeT = 16
    NoTask = NoTask
SYMMETRY Interchangeable
INVARIANTS
    TaskOwnership
    IdleCountExact
    NoLostWakeup
    WorkerCountExact
PROPERTIES
    StopsWhenGone
    ExpiryRespected
    ImplementsService
CHECK_DEADLOCK FALSE
