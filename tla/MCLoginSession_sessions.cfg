SPECIFICATION Spec
CONSTANTS
    t1 = t1
    t2 = t2
    Browser = {b1}
    Tab <- Tabs
    Player = {p1, p2}
    NoCookie = noCookie
    Keep = keep
    TicksPerSecond = 2
    IdleTimeout = 2
    Validity = 1
    MaxClock = 4
    MaxCodes = 1
    MaxStops = 1
SYMMETRY Symmetric
INVARIANTS
    IInv
    OneLoginPerCode
PROPERTIES
    IdleSessionsEnd
    ActiveSessionsKept
    SessionsComeFromLogins
    LoginsInTime
