-------------------------------- MODULE Scoring --------------------------------
(***************************************************************************)
(* internal/scoring, internal/standings and what internal/store makes of   *)
(* the results the operator records by hand: which recorded values are     *)
(* usable, which are reported at startup, what each pick scores, and the   *)
(* ranks.  All of it is recomputed on every request, nothing is stored.    *)
(*                                                                         *)
(* A recorded list is only ever searched, so it is a set; a list of a      *)
(* player's row is counted over, so it is a sequence, with the repetitions *)
(* a hand edit can leave.  A number of games is the integer strconv.Atoi   *)
(* makes of its text, one out of range when it makes none.  A division key *)
(* of results.team_marks counts as known when it is the lower-case name of *)
(* a division.                                                             *)
(***************************************************************************)
EXTENDS Integers, Sequences, FiniteSets, Functions

CONSTANTS
    Division,       \* Divisions()
    Team,           \* the ids of teams:
    Home,           \* the division of each team
    Award,          \* the award vocabulary
    Slug,           \* the slugs of nhl_players:
    Matchups,       \* playoff_matchups: the two teams of each <<set, key>>
    None,           \* an empty string
    PlayerList,     \* players:, in the order of the file
    NameOrder       \* where a player's lower-cased name sorts

ASSUME ScoringAssumption ==
    /\ Home \in [Team -> Division]
    /\ None \notin Team \cup Slug
    /\ IsFiniteSet(Division)
    /\ PlayerList \in Seq(Range(PlayerList))
    /\ \A i \in DOMAIN PlayerList : NameOrder[PlayerList[i]] \in Int

NoGames == -1

resultRounds == [round1 |-> "r1", round2 |-> "r2", round3 |-> "cf", round4 |-> "scf"]

(* A row of predictions: of is the division, the award or the series key.  *)
(* list holds team_ids or finalist_slugs.                                  *)
ZeroRow == [kind |-> "none", of |-> None, list |-> <<>>, team |-> None,
            games |-> NoGames]

NoMarks == [playoffs |-> {}, winner |-> None]

(***************************************************************************)
(* Reading the recorded results                                            *)
(***************************************************************************)
TeamInDivision(t, d) == t \in Team /\ Home[t] = d

DivisionResult(res, d) ==
    LET marks == IF d \in DOMAIN res.marks THEN res.marks[d] ELSE NoMarks
    IN  [playoffs |-> {t \in marks.playoffs : TeamInDivision(t, d)},
         winner |-> IF TeamInDivision(marks.winner, d) THEN marks.winner ELSE None]

KnownTeamOrEmpty(t) == IF t \in Team THEN t ELSE None

ValidSeriesGames(games) == games \in 4..7

(* Mutant: the winner only has to be a team.                               *)
UsableAnyTeam(series, outcome) ==
    /\ series \in DOMAIN Matchups
    /\ outcome.winner \in Team
    /\ ValidSeriesGames(outcome.games)

SeriesOutcomeUsable(series, outcome) ==
    /\ series \in DOMAIN Matchups
    /\ outcome.winner \in Team \cap Matchups[series]
    /\ ValidSeriesGames(outcome.games)

(* The usable outcomes of a series, one or none; a series pick is keyed by *)
(* its Prediction Set, a result by the name of its round.                  *)
SeriesResult(res, series) ==
    {res.series[k] : k \in {k \in DOMAIN res.series :
        /\ k[1] \in DOMAIN resultRounds
        /\ <<resultRounds[k[1]], k[2]>> = series
        /\ SeriesOutcomeUsable(series, res.series[k])}}

RecordedAwardFinalists(res, a) ==
    IF a \in Award \cap DOMAIN res.finalists THEN res.finalists[a] \cap Slug ELSE {}

(***************************************************************************)
(* ResultProblems, as the paths of the entries it names                    *)
(***************************************************************************)
DivisionTeamProblem(t, d) == t # None /\ ~TeamInDivision(t, d)

TeamMarkProblems(res) ==
    {<<"marks", d>> : d \in DOMAIN res.marks \ Division} \cup
    UNION {{<<"playoffs", d, t>> : t \in {t \in res.marks[d].playoffs :
                                            DivisionTeamProblem(t, d)}} \cup
           {<<"winner", d>> : t \in {t \in {res.marks[d].winner} :
                                            DivisionTeamProblem(t, d)}}
           : d \in DOMAIN res.marks \cap Division}

TrophyProblems(res) ==
    {<<f>> : f \in {f \in {"presidents", "cup"} : res[f] \notin Team \cup {None}}}

WinnerProblem(series, winner) ==
    /\ winner # None
    /\ \/ winner \notin Team
       \/ series \in DOMAIN Matchups /\ winner \notin Matchups[series]

SeriesProblems(res) ==
    LET known == {k \in DOMAIN res.series : k[1] \in DOMAIN resultRounds}
        seriesOf(k) == <<resultRounds[k[1]], k[2]>>
    IN  {<<"round", k[1]>> : k \in DOMAIN res.series \ known} \cup
        {<<"series", k>> : k \in {k \in known : seriesOf(k) \notin DOMAIN Matchups}} \cup
        {<<"seriesWinner", k>> : k \in {k \in known :
            WinnerProblem(seriesOf(k), res.series[k].winner)}} \cup
        {<<"games", k>> : k \in {k \in known :
            /\ res.series[k].games # NoGames
            /\ ~ValidSeriesGames(res.series[k].games)}}

AwardProblems(res) ==
    {<<"award", a>> : a \in DOMAIN res.finalists \ Award} \cup
    UNION {{<<"slug", a, s>> : s \in res.finalists[a] \ Slug}
           : a \in DOMAIN res.finalists \cap Award}

ResultProblems(res) ==
    TeamMarkProblems(res) \cup TrophyProblems(res) \cup SeriesProblems(res) \cup
    AwardProblems(res)

(***************************************************************************)
(* Points                                                                  *)
(***************************************************************************)
seriesPoints ==
    [r1 |-> [winner |-> 15, exact |-> 25], r2 |-> [winner |-> 25, exact |-> 35],
     cf |-> [winner |-> 30, exact |-> 45], scf |-> [winner |-> 30, exact |-> 50]]

(* Where each distinct value of a list is first seen.                      *)
Distinct(list) ==
    {i \in DOMAIN list : list[i] # None /\ \A j \in 1..(i - 1) : list[j] # list[i]}

AwardPoints(picks, finalists) ==
    5 * Cardinality({i \in Distinct(picks) : picks[i] \in finalists})

TrophyPoints(pick, winner, value) ==
    IF pick = None \/ pick # winner THEN 0 ELSE value

SeriesPickPoints(res, row) ==
    IF row.of[1] \notin DOMAIN seriesPoints THEN 0
    ELSE LET value == seriesPoints[row.of[1]]
             hits == {o \in SeriesResult(res, row.of) : o.winner = row.team}
         IN  IF hits = {} THEN 0
             ELSE IF \E o \in hits : o.games = row.games THEN value.exact
             ELSE value.winner

(* predictionPoints, the regular and the playoff points of one row.        *)
RegularPoints(res, row) ==
    IF row.kind = "award"
      THEN AwardPoints(row.list, RecordedAwardFinalists(res, row.of))
    ELSE IF row.kind = "cup"
      THEN TrophyPoints(row.team, KnownTeamOrEmpty(res.cup), 20)
    ELSE IF row.kind = "presidents"
      THEN TrophyPoints(row.team, KnownTeamOrEmpty(res.presidents), 20)
    ELSE 0

PlayoffPoints(res, row) ==
    IF row.kind = "playoffcup"
      THEN TrophyPoints(row.team, KnownTeamOrEmpty(res.cup), 20)
    ELSE IF row.kind = "series" THEN SeriesPickPoints(res, row)
    ELSE 0

(* Mutant: a correct winner gets nothing for being in the list too.        *)
DivisionPicksNothing(teams, pick, marks) ==
    LET correctWinner == marks.winner # None /\ pick = marks.winner
        scoring == {i \in Distinct(teams) :
            /\ ~(correctWinner /\ teams[i] = marks.winner)
            /\ teams[i] \in marks.playoffs \cup ({marks.winner} \ {None})}
    IN  5 * Cardinality(scoring)

(* divisionPicks.points: the 15 of a correct winner replaces its 5.        *)
DivisionPicksPoints(teams, pick, marks) ==
    LET correctWinner == marks.winner # None /\ pick = marks.winner
        scoring == {i \in Distinct(teams) :
            /\ ~(correctWinner /\ teams[i] = marks.winner)
            /\ teams[i] \in marks.playoffs \cup ({marks.winner} \ {None})}
    IN  (IF correctWinner THEN 15 ELSE 0) + 5 * Cardinality(scoring)

(* The row of a kind for a division, or a zero row.                        *)
DivisionRow(rows, kind, d) ==
    LET found == {r \in rows : r.kind = kind /\ r.of = d}
    IN  IF found = {} THEN ZeroRow ELSE CHOOSE r \in found : TRUE

DivisionsPoints(res, rows) ==
    SumFunction([d \in Division |-> DivisionPicksPoints(
        DivisionRow(rows, "division_playoff_teams", d).list,
        DivisionRow(rows, "division_winner", d).team,
        DivisionResult(res, d))])

(* PlayerPoints, for a player of players:.                                 *)
PlayerPoints(res, rows) ==
    [regular |-> DivisionsPoints(res, rows)
                 + SumFunction([r \in rows |-> RegularPoints(res, r)]),
     playoff |-> SumFunction([r \in rows |-> PlayoffPoints(res, r)])]

Total(points) == points.regular + points.playoff

(***************************************************************************)
(* Standings                                                               *)
(***************************************************************************)

(* compareRows; a stable sort leaves what it calls equal in file order.    *)
Before(totals, i, j) ==
    \/ totals[i] > totals[j]
    \/ /\ totals[i] = totals[j]
       /\ \/ NameOrder[PlayerList[i]] < NameOrder[PlayerList[j]]
          \/ NameOrder[PlayerList[i]] = NameOrder[PlayerList[j]] /\ i < j

(* The sorted rows, as positions in PlayerList.                            *)
Sorted(totals) ==
    CHOOSE order \in Bijection(DOMAIN PlayerList, DOMAIN PlayerList) :
        \A i, j \in DOMAIN PlayerList : i < j => Before(totals, order[i], order[j])

(* Mutant: the rank after a tie is the next number.                        *)
DenseRanks(sorted) ==
    LET rank[i \in DOMAIN sorted] ==
            IF i = 1 THEN 1
            ELSE IF sorted[i] = sorted[i - 1] THEN rank[i - 1]
            ELSE rank[i - 1] + 1
    IN  rank

(* assignRanks, over the totals in sorted order.                           *)
Ranks(sorted) ==
    LET rank[i \in DOMAIN sorted] ==
            IF i > 1 /\ sorted[i] = sorted[i - 1] THEN rank[i - 1] ELSE i
    IN  rank

(* Rows: what the leaderboard shows of each player, from top to bottom.    *)
Standings(totals) ==
    LET order == Sorted(totals)
        ranks == Ranks([i \in DOMAIN PlayerList |-> totals[order[i]]])
    IN  [i \in DOMAIN PlayerList |->
            [player |-> PlayerList[order[i]], rank |-> ranks[i],
             total |-> totals[order[i]],
             leader |-> ranks[i] = 1 /\ totals[order[i]] > 0]]
=============================================================================
