SPECIFICATION Spec
CONSTANTS
    c1 = c1
    c2 = c2
    divA = divA
    winA = winA
    pickX = pickX
    pickY = pickY
    Client <- Clients
    Op <- SavingOps
    Key = {divA, winA}
    TeamsKey = {divA}
    Pick = {pickX, pickY}
    Blank = blank
    Code = {code1}
    Section <- Sections
    NotAMapping = notAMapping
    BootstrapTree <- Bootstrapped
    RebuiltTree <- Rebuilt
    EditedTree <- Edits
    Malformed <- NotLoadable
    NoClient = noClient
    NoCode = noCode
    NoDoc = noDoc
    TicksPerSecond = 1
    Validity = 1
    MaxClock = 1
    MaxCodes = 0
SYMMETRY Symmetric
INVARIANTS
    MemoryMatchesDisk
    UniqueKeys
    NoForcedRows
PROPERTIES
    RowsStay
    OnlyRequestedPicks
    AcknowledgedOnDisk
    SectionsKept
