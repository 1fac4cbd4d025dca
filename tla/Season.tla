-------------------------------- MODULE Season --------------------------------
(***************************************************************************)
(* A season of the pool: players save picks, the operator stops the server,*)
(* edits one value of the results by hand, right or wrong, and starts it   *)
(* again.  Every page that shows points recomputes them from both, so the  *)
(* points of a moment are a function of the state (module Scoring).        *)
(*                                                                         *)
(* Which picks may be saved, and when, is module SheetSubmit's; here a row *)
(* also takes the values a hand edit can give it.                          *)
(***************************************************************************)
EXTENDS Scoring, FiniteSetsExt

CONSTANT
    Scopes          \* bound: the parts of a season, one of them per behaviour

(* A part of a season: who saves which rows, the keys recorded of          *)
(* results.team_marks, of award_finalists and, as <<round, key>>, of       *)
(* results.series, the trophies recorded, and what the operator writes     *)
(* where a team, a finalist or a number of games belongs.  The points of   *)
(* divisions, series, awards and trophies are summed, so each is explored  *)
(* by itself.                                                              *)

(* A row holds what its kind takes: a list or a team, and an item to be    *)
(* about unless it is about the whole season.                              *)
IsRow(row) ==
    /\ row.list \in Seq(Range(row.list))
    /\ IF row.kind \in {"division_playoff_teams", "award"} THEN row.team = None
       ELSE row.list = <<>>
    /\ row.kind \in {"presidents", "cup", "playoffcup"} => row.of = None
    /\ row.kind = "series" => row.of = <<row.of[1], row.of[2]>>

ASSUME SeasonAssumption ==
    \A s \in Scopes :
        /\ s.players \subseteq Range(PlayerList)
        /\ \A row \in s.rows : IsRow(row)
        /\ s.trophies \subseteq {"presidents", "cup"}
        /\ \A k \in s.series : k = <<k[1], k[2]>>
        /\ \A S \in {s.series, s.awards, s.slugs, s.names} : IsFiniteSet(S)

VARIABLES
    scope,          \* the part this behaviour plays in
    results,        \* results: and award_finalists: of the file
    rows            \* the predictions of each player

vars == <<scope, results, rows>>

Player == Range(PlayerList)

Nothing == [i \in {} |-> None]

Init ==
    /\ scope \in Scopes
    /\ results = [marks |-> Nothing, presidents |-> None, cup |-> None,
                  series |-> Nothing, finalists |-> Nothing]
    /\ rows = [p \in Player |-> {}]

(***************************************************************************)
(* Picks                                                                   *)
(***************************************************************************)

(* Mutant: only the very same row is replaced.                             *)
WithoutSame(saved, row) == saved \ {row}

(* The rows a save leaves as they are.                                     *)
Without(saved, row) == {r \in saved : r.kind # row.kind \/ r.of # row.of}

Save(p, row) ==
    /\ rows' = [rows EXCEPT ![p] = Without(@, row) \cup {row}]
    /\ UNCHANGED <<scope, results>>

(***************************************************************************)
(* The operator's edits                                                    *)
(***************************************************************************)
MarksOf(d) == IF d \in DOMAIN results.marks THEN results.marks[d] ELSE NoMarks

OutcomeOf(k) ==
    IF k \in DOMAIN results.series THEN results.series[k]
    ELSE [winner |-> None, games |-> NoGames]

FinalistsOf(a) == IF a \in DOMAIN results.finalists THEN results.finalists[a] ELSE {}

(* A section of the file with an entry of it written anew.                 *)
Written(section, key, entry) ==
    [k \in DOMAIN section \cup {key} |-> IF k = key THEN entry ELSE section[k]]

(* A team is added to a list of playoff teams, or taken off it.            *)
MarkPlayoffs(d, t) ==
    /\ results' = [results EXCEPT !.marks =
         Written(@, d, [MarksOf(d) EXCEPT !.playoffs = SymDiff(@, {t})])]
    /\ UNCHANGED <<scope, rows>>

MarkWinner(d, t) ==
    /\ results' = [results EXCEPT !.marks =
         Written(@, d, [MarksOf(d) EXCEPT !.winner = t])]
    /\ UNCHANGED <<scope, rows>>

RecordTrophy(f, t) ==
    /\ results' = [results EXCEPT ![f] = t]
    /\ UNCHANGED <<scope, rows>>

RecordWinner(k, t) ==
    /\ results' = [results EXCEPT !.series =
         Written(@, k, [OutcomeOf(k) EXCEPT !.winner = t])]
    /\ UNCHANGED <<scope, rows>>

RecordGames(k, g) ==
    /\ results' = [results EXCEPT !.series =
         Written(@, k, [OutcomeOf(k) EXCEPT !.games = g])]
    /\ UNCHANGED <<scope, rows>>

RecordFinalist(a, s) ==
    /\ results' = [results EXCEPT !.finalists =
         Written(@, a, SymDiff(FinalistsOf(a), {s}))]
    /\ UNCHANGED <<scope, rows>>

Edit ==
    \/ \E d \in scope.divisions : \E t \in scope.names :
           MarkPlayoffs(d, t) \/ MarkWinner(d, t)
    \/ \E f \in scope.trophies, t \in scope.names : RecordTrophy(f, t)
    \/ \E k \in scope.series : \/ \E t \in scope.names : RecordWinner(k, t)
                              \/ \E g \in scope.games : RecordGames(k, g)
    \/ \E a \in scope.awards, s \in scope.slugs : RecordFinalist(a, s)

Next ==
    \/ Edit
    \/ \E p \in scope.players, row \in scope.rows : Save(p, row)

Spec == Init /\ [][Next]_vars

PointsOf(p) == PlayerPoints(results, rows[p])
Totals == [i \in DOMAIN PlayerList |-> Total(PointsOf(PlayerList[i]))]

(***************************************************************************)
(* The rules, as docs/game-rules.md states them                            *)
(***************************************************************************)

(* A recorded value counts when no startup warning names it; warned is     *)
(* what ResultProblems returns.                                            *)
Won(warned, d, t) ==
    /\ {<<"marks", d>>, <<"winner", d>>} \cap warned = {}
    /\ t = MarksOf(d).winner

MadePlayoffs(warned, d, t) ==
    \/ Won(warned, d, t)
    \/ /\ {<<"marks", d>>, <<"playoffs", d, t>>} \cap warned = {}
       /\ t \in MarksOf(d).playoffs

Holds(warned, f, t) == <<f>> \notin warned /\ t = results[f]

(* The series that have ended, both of their values recorded.              *)
Ended(warned) ==
    {k \in DOMAIN results.series :
        /\ results.series[k].winner # None
        /\ results.series[k].games # NoGames
        /\ {<<"round", k[1]>>, <<"series", k>>, <<"seriesWinner", k>>, <<"games", k>>}
               \cap warned = {}}

Picked(p, kind, of, t) ==
    \E r \in rows[p] : /\ r.kind = kind /\ r.of = of
                       /\ t = r.team \/ \E i \in DOMAIN r.list : r.list[i] = t

MarkValue(warned, p, d, t) ==
    IF Won(warned, d, t) /\ Picked(p, "division_winner", d, t) THEN 15
    ELSE IF MadePlayoffs(warned, d, t) /\ Picked(p, "division_playoff_teams", d, t)
      THEN 5
    ELSE 0

SeriesValue(p, k) ==
    LET set == resultRounds[k[1]]
        on == {r \in rows[p] : r.kind = "series" /\ r.of = <<set, k[2]>>}
        right == {r \in on : r.team = results.series[k].winner}
        exact == {r \in right : r.games = results.series[k].games}
    IN  IF exact # {} THEN [r1 |-> 25, r2 |-> 35, cf |-> 45, scf |-> 50][set]
        ELSE IF right # {} THEN [r1 |-> 15, r2 |-> 25, cf |-> 30, scf |-> 30][set]
        ELSE 0

RulePoints(p) ==
    LET warned == ResultProblems(results)
        marks == [x \in Division \X (scope.names \ {None}) |->
                     MarkValue(warned, p, x[1], x[2])]
        series == [k \in Ended(warned) |-> SeriesValue(p, k)]
        finalists == {x \in scope.awards \X scope.slugs :
            /\ {<<"award", x[1]>>, <<"slug", x[1], x[2]>>} \cap warned = {}
            /\ x[2] \in FinalistsOf(x[1])
            /\ Picked(p, "award", x[1], x[2])}
        trophies(kind, f) ==
            {t \in scope.names \ {None} : Holds(warned, f, t) /\ Picked(p, kind, None, t)}
    IN  [regular |-> SumFunction(marks)
                     + 5 * Cardinality(finalists)
                     + 20 * Cardinality(trophies("presidents", "presidents"))
                     + 20 * Cardinality(trophies("cup", "cup")),
         playoff |-> SumFunction(series)
                     + 20 * Cardinality(trophies("playoffcup", "cup"))]

(***************************************************************************)
(* Properties                                                              *)
(***************************************************************************)

Section(Keys, Values) == UNION {[K -> Values] : K \in SUBSET Keys}

Mark == [playoffs : SUBSET scope.names, winner : scope.names \cup {None}]

Outcome == [winner : scope.names \cup {None}, games : scope.games \cup {NoGames}]

(* A player has one row per item, a finite number of them, and the file    *)
(* holds under each key what belongs there.                                *)
IInv ==
    /\ scope \in Scopes
    /\ results \in [marks : Section(scope.divisions, Mark),
                    presidents : scope.names \cup {None},
                    cup : scope.names \cup {None},
                    series : Section(scope.series, Outcome),
                    finalists : Section(scope.awards, SUBSET scope.slugs)]
    /\ rows \in [Player -> SUBSET scope.rows]
    /\ \A p \in Player :
        /\ IsFiniteSet(rows[p])
        /\ \A r, q \in rows[p] : r.kind = q.kind /\ r.of = q.of => r = q

(* Every player's points are what the rules give for the values recorded   *)
(* that no startup warning names: the accessors ignore a value exactly when*)
(* ResultProblems reports it, and every value replaces, repeats or adds as *)
(* the table of game-rules.md says.                                        *)
PointsFollowTheRules == \A p \in scope.players : PointsOf(p) = RulePoints(p)

Kept(old, new) == old = None \/ new = old

(* An edit that only records what was not there before.                    *)
OnlyAdds ==
    /\ rows' = rows
    /\ \A d \in DOMAIN results.marks :
        /\ results.marks[d].playoffs \subseteq results'.marks[d].playoffs
        /\ Kept(results.marks[d].winner, results'.marks[d].winner)
    /\ Kept(results.presidents, results'.presidents)
    /\ Kept(results.cup, results'.cup)
    /\ \A k \in DOMAIN results.series :
        /\ Kept(results.series[k].winner, results'.series[k].winner)
        /\ results.series[k].games \in {NoGames, results'.series[k].games}
    /\ \A a \in DOMAIN results.finalists :
        results.finalists[a] \subseteq results'.finalists[a]

(* Recording a further result never takes points away from anybody, in     *)
(* either bucket: "replaces, doesn't add to" is always a gain.             *)
RecordingNeverTakesAway ==
    [][OnlyAdds =>
         \A p \in scope.players :
             LET old == PointsOf(p)
                 new == PointsOf(p)'
             IN  old.regular <= new.regular /\ old.playoff <= new.playoff]_vars

(* The leaderboard lists every player once, best total first; a rank is one*)
(* more than the number of players with more points, so equal totals share *)
(* it and the next one skips; and a leader is a player nobody is ahead of, *)
(* once anybody has points.                                                *)
RanksAreCompetition ==
    LET totals == Totals
        board == Standings(totals)
        Ahead(i) == {j \in DOMAIN PlayerList : totals[j] > board[i].total}
    IN  /\ {board[i].player : i \in DOMAIN board} = Player
        /\ \A i \in DOMAIN board :
            /\ board[i].rank = Cardinality(Ahead(i)) + 1
            /\ board[i].leader <=> Ahead(i) = {} /\ \E j \in DOMAIN board : board[j].total > 0
            /\ \A j \in DOMAIN board : i < j => board[i].total >= board[j].total
=============================================================================
