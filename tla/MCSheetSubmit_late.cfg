SPECIFICATION Spec
CONSTANTS
    d1 = d1
    d2 = d2
    m1 = m1
    m2 = m2
    c1 = c1
    c2 = c2
    Client = {c1}
    Player = {p1}
    SetId <- Both
    Files <- FilesOfBoth
    Division <- Divisions
    Award = {hart}
    Matchup <- Matchups
    Pick = {pickX}
    Blank = blank
    Half = half
    Bad = bad
    NoRow = noRow
    TicksPerSecond = 2
    MaxClock = 3
PROPERTY ReadOnlyOnceClosed
