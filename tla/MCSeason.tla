-------------------------------- MODULE MCSeason --------------------------------
(***************************************************************************)
(* Instances of Season for TLC.  fla and tor play in the Atlantic, nyr in  *)
(* the Metropolitan; zzz is no team, hab no player of the league.          *)
(***************************************************************************)
EXTENDS Season, TLC

CONSTANTS atlantic, metropolitan, Atlantic, fla, tor, nyr, zzz, hart, best,
          connor, nathan, hab, ann, Bob, cy

Divisions == {atlantic, metropolitan}
Teams == {fla, tor, nyr}
HomeOf == [t \in Teams |-> IF t = nyr THEN metropolitan ELSE atlantic]
Rounds == (<<"r1", "s1">> :> {fla, tor}) @@ (<<"scf", "s1">> :> {fla, nyr})

Everybody == <<ann, Bob, cy>>

(* Bob and cy share a name, so file order decides between them.            *)
Names3 == (ann :> 2) @@ (Bob :> 1) @@ (cy :> 1)

PickRow(kind, of, list, team, games) ==
    [kind |-> kind, of |-> of, list |-> list, team |-> team, games |-> games]

(* The division rows, with the repeated team a hand edit can leave.        *)
DivisionRows ==
    {PickRow("division_playoff_teams", atlantic, l, None, NoGames) :
        l \in {<<>>, <<fla>>, <<tor, fla>>, <<fla, fla>>, <<nyr, tor>>}} \cup
    {PickRow("division_winner", atlantic, <<>>, t, NoGames) : t \in {fla, tor}}

SeriesRows ==
    {PickRow("series", <<"r1", "s1">>, <<>>, t, 5) : t \in {fla, nyr}} \cup
    {PickRow("series", <<"scf", "s1">>, <<>>, nyr, g) : g \in {5, 6}}

(* One trophy of each bucket and an award, to compare three players.       *)
BoardRows ==
    {PickRow(k, None, <<>>, fla, NoGames) : k \in {"presidents", "playoffcup"}} \cup
    {PickRow("award", hart, <<connor, nathan, hab>>, None, NoGames)}

AwardRows ==
    {PickRow(k, None, <<>>, fla, NoGames) : k \in {"cup", "presidents", "playoffcup"}} \cup
    {PickRow("cup", None, <<>>, zzz, NoGames)} \cup
    {PickRow("award", hart, l, None, NoGames) :
        l \in {<<connor, nathan, hab>>, <<connor, connor, nathan>>}}

Nobody == [players |-> {ann}, rows |-> {}, divisions |-> {}, awards |-> {},
           series |-> {}, games |-> {}, trophies |-> {}, names |-> {}, slugs |-> {}]

(* Every way of recording a division, with a misspelt key and a team of    *)
(* the other division.                                                     *)
DivisionScope ==
    [Nobody EXCEPT !.rows = DivisionRows, !.divisions = {atlantic, Atlantic},
                   !.names = {fla, tor, nyr}]

(* Outcomes recorded half, wrong, or for a matchup nobody recorded.        *)
SeriesScope ==
    [Nobody EXCEPT !.rows = SeriesRows, !.games = {5, 9}, !.names = {fla, nyr},
                   !.series = {<<"round1", "s1">>, <<"round4", "s1">>, <<"round1", "s9">>}]

(* Trios and trophies, with an award, a team, a finalist and a round that  *)
(* nobody knows.                                                           *)
AwardScope ==
    [Nobody EXCEPT !.rows = AwardRows, !.awards = {hart, best},
                   !.trophies = {"presidents", "cup"}, !.names = {fla, zzz},
                   !.slugs = {connor, hab}, !.series = {<<"round5", "s1">>}]

(* Three players to rank.                                                  *)
BoardScope ==
    [Nobody EXCEPT !.players = {ann, Bob, cy}, !.rows = BoardRows, !.awards = {hart},
                   !.trophies = {"presidents", "cup"}, !.names = {fla},
                   !.slugs = {connor}]

AllScopes == {DivisionScope, SeriesScope, AwardScope, BoardScope}
=============================================================================
