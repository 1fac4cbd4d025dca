SPECIFICATION Spec
CONSTANTS
    d1 = d1
    d2 = d2
    m1 = m1
    m2 = m2
    c1 = c1
    c2 = c2
    Client <- Clients
    Player = {p1}
    SetId <- Raced
    Files <- FilesOfRaced
    Division <- Divisions
    Award = {hart}
    Matchup <- Matchups
    Pick = {pickX}
    Blank = blank
    Half = half
    Bad = bad
    NoRow = noRow
    TicksPerSecond = 1
    MaxClock = 2
SYMMETRY Symmetric
INVARIANT DivisionsOfOneForm
