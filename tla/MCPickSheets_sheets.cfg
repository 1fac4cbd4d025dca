SPECIFICATION Spec
CONSTANTS
    a = a
    b = b
    c = c
    d = d
    e = e
    f = f
    g = g
    h = h
    inner = inner
    outer = outer
    coast = coast
    plain = plain
    east = east
    west = west
    s1 = s1
    s2 = s2
    g1 = g1
    g2 = g2
    hart = hart
    vezina = vezina
    skater = skater
    goalie = goalie
    m1 = m1
    m2 = m2
    Team = {a, b, c, d, e, f, g, h}
    Division = {inner, outer, coast, plain}
    Conference = {east, west}
    Rosters <- TeamLists
    MaxTeamsPerDivision = 2
    RequiredPerConference = 3
    Award = {hart, vezina}
    Slot = {1, 2}
    Slug = {s1, s2, g1, g2}
    Position = {skater, goalie}
    Eligible <- EligibleFor
    PlayerLists <- NHLPlayers
    Empty = empty
    Typed = typed
    NoPick = noPick
    Series = {m1, m2}
    Side = {a, b, c, d}
    GameCount = {4, 7}
    MatchupLists <- Rounds
    Unset = unset
    NoSeriesPick = noPick
INVARIANTS
    PageMatchesServer
    NoDeadEnd
PROPERTIES
    ListsLegalWhenSaved
    AwardsSavedAsShown
    SeriesSavedAsShown
