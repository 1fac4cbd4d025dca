SPECIFICATION FairSpec
CONSTANTS
    c1 = c1
    c2 = c2
    divA = divA
    winA = winA
    pickX = pickX
    pickY = pickY
    Client <- Clients
    Op <- AllOps
    Key = {winA}
    TeamsKey = {}
    Pick = {pickX}
    Blank = blank
    Code = {code1}
    Section <- Sections
    NotAMapping = notAMapping
    BootstrapTree <- Bootstrapped
    RebuiltTree <- Rebuilt
    EditedTree <- NoEdits
    Malformed <- NotLoadable
    NoClient = noClient
    NoCode = noCode
    NoDoc = noDoc
    TicksPerSecond = 2
    Validity = 2
    MaxClock = 3
    MaxCodes = 1
INVARIANTS
    WInv
    OneTimeUse
PROPERTIES
    CodesDroppedForCause
    ImplementsDurableStore
    EveryCallReturns
