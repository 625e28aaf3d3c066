SPECIFICATION FairSpec
CONSTANTS
    w1 = w1 w2 = w2
    t1 = t1 t2 = t2 t3 = t3
    boss = boss adder = adder adder2 = adder2
    Workers = {w1, w2}
    Clients = {boss, adder}
    Tasks = {t1, t2}
    May <- OneJoiner
    Timeouts = {"forever"}
    Expiring = {t1}
    Limits = {}
    Batch = {1, 2}
    NestedAdd = TRUE
    SizeT = 16
    NoTask = NoTask
PROPERTIES
    JoinDrains
    TasksServed
    LifecycleCallsReturn
CHECK_DEADLOCK FALSE
