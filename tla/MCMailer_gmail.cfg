SPECIFICATION FairSpec
CONSTANTS
    Send = {s1, s2}
    NoSend = nobody
    Timeout = 1
    Margin = 2
    Lifetimes = {3}
    MaxTokens = 3
    MaxClock = 4
INVARIANTS
    IInv
    TokenOutlivesSend
PROPERTIES
    TokensReplacedForCause
    ImplementsMailPromise
    EverySendEnds
CHECK_DEADLOCK FALSE
