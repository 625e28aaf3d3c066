SPECIFICATION FairSpec
CONSTANTS
    w1 = w1 w2 = w2
    t1 = t1 t2 = t2 t3 = t3
    boss = boss adder = adder adder2 = adder2
    Workers = {w1, w2}
    Clients = {boss}
    Tasks = {t1}
    May <- Resizer
    Timeouts = {"forever"}
    Expiring = {}
    Limits = {}
    Batch = {1, 2}
    NestedAdd = FALSE
    SizeT = 16
    NoTask = NoTask
PROPERTIES
    LifecycleCallsReturn
CHECK_DEADLOCK FALSE
