SPECIFICATION EndingSpec
CONSTANTS
    main = main other = other s1 = s1 s2 = s2
    Services = {s1, s2}
    Callers = {main, other}
    May <- MainAndOther
    FailStart = TRUE
    MaxStarts = 2
    Free = Free
INVARIANTS
    TotalTasksExact
    NoUseAfterDestroy
PROPERTIES
    JoinMeansFinished
    NoStartAfterStop
    StartedJoinReturns
CHECK_DEADLOCK FALSE
