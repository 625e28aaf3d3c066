SPECIFICATION Spec
CONSTANTS
    m1 = m1
    m2 = m2
    m3 = m3
    t1 = t1
    t2 = t2
    parent = parent
    e1 = e1
    e2 = e2
    b = b
    r1 = r1
    r2 = r2
    Videos = {m1, m2, m3}
    Target <- TargetOf
    Dir <- OneDir
    Segments = {s1, s2}
    Epubs = {e1, e2}
    Book <- BookOf
    Rows = {r1, r2}
    Row <- RowOf
    Backlogs = {{m1, m2}, {m1, m3}, {m1, e1}, {e1, e2}}
    MaxCrashes = 1
    None = None
INVARIANTS
    OneKeyPerDirectory
    RecordedIsComplete

    
CHECK_DEADLOCK FALSE
