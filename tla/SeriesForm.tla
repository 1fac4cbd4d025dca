------------------------------ MODULE SeriesForm ------------------------------
(***************************************************************************)
(* The sheet of a playoff round: a card per recorded series with two radio *)
(* buttons for the winner and four for the number of games.  The handler   *)
(* (sheet_series.go) walks over the series recorded by then, which the     *)
(* operator may have corrected since the page was rendered, and treats     *)
(* each on its own: a complete one is saved, one with less is passed over, *)
(* one whose winner does not play is shown again.  A radio button once     *)
(* chosen can be changed, not cleared; one whose value fits neither button *)
(* comes back with none chosen.                                            *)
(*                                                                         *)
(* The order of the walk, overlapping forms and the audit are the subject  *)
(* of SheetSubmit; a walk that fails here has saved any of the series.     *)
(***************************************************************************)
EXTENDS FiniteSets

CONSTANTS
    Series,         \* keys of playoff_matchups
    Side,           \* the teams that may meet in them
    GameCount,      \* seriesGameOptions
    MatchupLists,   \* what the operator may record: the two sides of a series
    Unset,          \* no button chosen
    NoSeriesPick    \* no row for a series

ASSUME SeriesAssumption ==
    /\ \A l \in MatchupLists : /\ DOMAIN l \subseteq Series
                               /\ l \in [DOMAIN l -> SUBSET Side]
    /\ Unset \notin Side /\ Unset \notin GameCount
    /\ NoSeriesPick \notin [side : Side, games : GameCount]

VARIABLES
    matchups,       \* the series of the round and their sides, as loaded
    seriesPicks,    \* the player's saved pick of each series
    cards,          \* the page: of each series its sides and the buttons chosen
    seriesAt,       \* where the player is: away, editing, or waiting
    seriesAnswer    \* the last answer

seriesVars == <<matchups, seriesPicks, cards, seriesAt, seriesAnswer>>

SeriesPick == [side : Side, games : GameCount]

BlankPick == [side |-> Unset, games |-> Unset]
NoCards == [k \in {} |-> k]

(* newSeriesCardPick: the card of a series over the sides recorded now.    *)
Card(l, k, chosen) ==
    [sides |-> l[k], games |-> chosen.games,
     side |-> IF chosen.side \in l[k] THEN chosen.side ELSE Unset]

(* selectedSeriesPick, without a rejection.                                *)
SavedPick(k) == IF seriesPicks[k] = NoSeriesPick THEN BlankPick ELSE seriesPicks[k]

(* parseSeriesSubmission: only what is recorded now is read off the form.  *)
FormOf(k) ==
    IF k \in DOMAIN cards THEN [side |-> cards[k].side, games |-> cards[k].games]
    ELSE BlankPick

(* Mutant: any two buttons make a complete series.                         *)
BothChosen(k) == FormOf(k).side # Unset /\ FormOf(k).games # Unset

IsComplete(k) == FormOf(k).side \in matchups[k] /\ FormOf(k).games \in GameCount

(* Neither blank, nor half-filled, nor complete.                           *)
IsInvalid(k) ==
    FormOf(k).side # Unset /\ FormOf(k).games # Unset /\ ~IsComplete(k)

CompleteSeries == {k \in DOMAIN matchups : IsComplete(k)}
InvalidSeries == {k \in DOMAIN matchups : IsInvalid(k)}

Saving(done) ==
    [k \in Series |-> IF k \in done THEN FormOf(k) ELSE seriesPicks[k]]

(***************************************************************************)
(* Behaviour                                                               *)
(***************************************************************************)
SeriesInit ==
    /\ matchups \in MatchupLists
    /\ seriesPicks = [k \in Series |-> NoSeriesPick]
    /\ cards = NoCards
    /\ seriesAt = "away"
    /\ seriesAnswer = "none"

OpenSeries ==
    /\ seriesAt # "posted"
    /\ cards' = [k \in DOMAIN matchups |-> Card(matchups, k, SavedPick(k))]
    /\ seriesAt' = "editing"
    /\ seriesAnswer' = "none"
    /\ UNCHANGED <<matchups, seriesPicks>>

ChooseSide(k, side) ==
    /\ seriesAt = "editing"
    /\ k \in DOMAIN cards /\ side \in cards[k].sides
    /\ cards' = [cards EXCEPT ![k].side = side]
    /\ UNCHANGED <<matchups, seriesPicks, seriesAt, seriesAnswer>>

ChooseGames(k, games) ==
    /\ seriesAt = "editing"
    /\ k \in DOMAIN cards
    /\ cards' = [cards EXCEPT ![k].games = games]
    /\ UNCHANGED <<matchups, seriesPicks, seriesAt, seriesAnswer>>

PostSeries ==
    /\ seriesAt = "editing"
    /\ seriesAt' = "posted"
    /\ seriesAnswer' = "none"
    /\ UNCHANGED <<matchups, seriesPicks, cards>>

SaveSeries ==
    /\ seriesAt = "posted"
    /\ InvalidSeries = {}
    /\ seriesPicks' = Saving(CompleteSeries)
    /\ cards' = NoCards
    /\ seriesAt' = "away"
    /\ seriesAnswer' = "saved"
    /\ UNCHANGED matchups

(* renderRejectedSeriesPick, after the complete ones have been saved.      *)
FlagSeries ==
    /\ seriesAt = "posted"
    /\ InvalidSeries # {}
    /\ seriesPicks' = Saving(CompleteSeries)
    /\ cards' = [k \in DOMAIN matchups |-> Card(matchups, k, FormOf(k))]
    /\ seriesAt' = "editing"
    /\ seriesAnswer' = "flagged"
    /\ UNCHANGED matchups

(* One of the store calls fails: the series before it stay saved.          *)
SeriesSaveFails ==
    /\ seriesAt = "posted"
    /\ \E done \in SUBSET CompleteSeries :
        done # CompleteSeries /\ seriesPicks' = Saving(done)
    /\ cards' = NoCards
    /\ seriesAt' = "away"
    /\ seriesAnswer' = "failed"
    /\ UNCHANGED matchups

(* The operator restarts the server on corrected matchups; a form under    *)
(* way is lost and the player goes back to the page.                       *)
EditMatchups(l) ==
    /\ matchups' = l
    /\ seriesAt' = IF seriesAt = "posted" THEN "editing" ELSE seriesAt
    /\ UNCHANGED <<seriesPicks, cards, seriesAnswer>>

SeriesNext ==
    \/ OpenSeries
    \/ \E k \in Series : \/ \E side \in Side : ChooseSide(k, side)
                         \/ \E games \in GameCount : ChooseGames(k, games)
    \/ PostSeries
    \/ SaveSeries
    \/ FlagSeries
    \/ SeriesSaveFails
    \/ \E l \in MatchupLists : EditMatchups(l)

SeriesSpec == SeriesInit /\ [][SeriesNext]_seriesVars

(***************************************************************************)
(* Properties                                                              *)
(***************************************************************************)
SeriesTypeOK ==
    /\ matchups \in MatchupLists
    /\ seriesPicks \in [Series -> SeriesPick \cup {NoSeriesPick}]
    /\ DOMAIN cards \subseteq Series
    /\ \A k \in DOMAIN cards :
        cards[k] \in [sides : SUBSET Side, side : Side \cup {Unset},
                      games : GameCount \cup {Unset}]
    /\ seriesAt \in {"away", "editing", "posted"}
    /\ seriesAnswer \in {"none", "flagged", "saved", "failed"}

(* The inductive invariant: a form under way has no answer yet.            *)
SeriesIInv ==
    /\ SeriesTypeOK
    /\ seriesAt = "posted" => seriesAnswer = "none"

(* The card shows both a winner and a number of games.                     *)
ShowsPick(k) ==
    k \in DOMAIN cards /\ cards[k].side # Unset /\ cards[k].games # Unset

(* A pick is only ever replaced by one whose winner plays in the series by *)
(* now, off a form that showed it.                                         *)
PicksOnlyOfThoseWhoPlay ==
    \A k \in Series :
      seriesPicks'[k] # seriesPicks[k] =>
        /\ seriesAt = "posted" /\ ShowsPick(k)
        /\ k \in DOMAIN matchups /\ seriesPicks'[k].side \in matchups[k]

(* A redirect means that every card that showed a pick of a series still   *)
(* recorded is on file as shown and nothing else has changed; a page shown *)
(* again, that only picks of a side that no longer plays were left alone.  *)
AnsweredAsShown ==
    seriesAt = "posted" /\ seriesAnswer' \in {"saved", "flagged"} =>
      \A k \in Series :
        IF k \in DOMAIN matchups /\ ShowsPick(k)
             /\ (seriesAnswer' = "saved" \/ cards[k].side \in matchups[k])
          THEN seriesPicks'[k] = [side |-> cards[k].side, games |-> cards[k].games]
          ELSE seriesPicks'[k] = seriesPicks[k]

(* A page is shown again for a side that no longer plays, and the card now *)
(* shows no winner.                                                        *)
FlaggedForCause ==
    seriesAt = "posted" /\ seriesAnswer' = "flagged" =>
      \E k \in DOMAIN matchups :
        ShowsPick(k) /\ cards[k].side \notin matchups[k] /\ cards'[k].side = Unset

(* However the matchups were corrected while the page was open,            *)
(* handleSeriesSubmit saves, refuses and answers by the series as they are *)
(* now and by what the player saw.                                         *)
SeriesSavedAsShown ==
    [][PicksOnlyOfThoseWhoPlay /\ AnsweredAsShown /\ FlaggedForCause]_seriesVars
=============================================================================
