SPECIFICATION Spec
CONSTANTS
    t1 = t1
    t2 = t2
    Browser = {b1}
    Tab <- Tabs
    Player = {p1}
    NoCookie = noCookie
    Keep = keep
    TicksPerSecond = 2
    IdleTimeout = 2
    Validity = 2
    MaxClock = 2
    MaxCodes = 1
    MaxStops = 0
INVARIANT LogoutEndsSession
