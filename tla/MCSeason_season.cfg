SPECIFICATION Spec
CONSTANTS
    atlantic = atlantic
    metropolitan = metropolitan
    Atlantic = Atlantic
    fla = fla
    tor = tor
    nyr = nyr
    zzz = zzz
    hart = hart
    best = best
    connor = connor
    nathan = nathan
    hab = hab
    ann = ann
    Bob = Bob
    cy = cy
    None = none
    Division <- Divisions
    Team <- Teams
    Home <- HomeOf
    Award = {hart}
    Slug = {connor, nathan}
    Matchups <- Rounds
    NameOrder <- Names3
    PlayerList <- Everybody
    Scopes <- AllScopes
INVARIANTS
    IInv
    PointsFollowTheRules
    RanksAreCompetition
PROPERTY RecordingNeverTakesAway
