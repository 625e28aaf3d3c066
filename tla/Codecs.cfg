SPECIFICATION Spec
CONSTANTS
    Alphabet <- Letters
    MaxLen <- Lengths
    kNanosecondsPerMicrosecond = 10
    kMicrosecondsPerMillisecond = 4
    kMillisecondsPerSecond = 4
    SecondsPerMinute = 6
    MinutesPerHour = 6
    kHoursPerDay = 4
    kWindowsEpochDeltaSeconds = 20
    TimeMax = 12000
    TimeTMax = 50000
    IntMax = 15
    DstShift = 3
    DstBegins = 10
    DstEnds = 20
INVARIANTS
    TextsAgree
    PathsRecompose
    BytesReadBack
    
PROPERTIES
    NumbersExact
CHECK_DEADLOCK FALSE
