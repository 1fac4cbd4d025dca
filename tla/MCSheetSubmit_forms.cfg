SPECIFICATION FairSpec
CONSTANTS
    d1 = d1
    d2 = d2
    m1 = m1
    m2 = m2
    c1 = c1
    c2 = c2
    Client = {c1}
    Player = {p1}
    SetId <- AllKinds
    Files <- FilesOfAllKinds
    Division = {d1}
    Award = {hart}
    Matchup <- Matchups
    Pick = {pickX}
    Blank = blank
    Half = half
    Bad = bad
    NoRow = noRow
    TicksPerSecond = 1
    MaxClock = 2
INVARIANTS
    IInv
    ListAgreesWithGate
    SubmittedMeansSaved
PROPERTIES
    StampedBeforeDeadline
    AnswerTellsWhatWasSaved
    SavedRowsAudited
    EverySubmitAnswered
