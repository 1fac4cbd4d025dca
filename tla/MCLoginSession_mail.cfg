SPECIFICATION FairSpec
CONSTANTS
    t1 = t1
    t2 = t2
    Browser = {b1}
    Tab <- Tabs
    Player = {p1}
    NoCookie = noCookie
    Keep = keep
    TicksPerSecond = 2
    IdleTimeout = 2
    Validity = 2
    MaxClock = 1
    MaxCodes = 1
    MaxStops = 1
PROPERTY EveryCodeSent
