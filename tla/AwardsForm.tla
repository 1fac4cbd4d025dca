------------------------------ MODULE AwardsForm ------------------------------
(***************************************************************************)
(* The "awards" sheet: for each award a few finalist slots, each a visible *)
(* text and a hidden slug.  The browser's script (awards.js) is the only   *)
(* one to fill a slug, when a suggestion is chosen, and clears it on any   *)
(* edit of the text; the server (sheet_awards.go) validates by text and    *)
(* slug, saves by slug and flags a half-entered award by text.  Which NHL  *)
(* players it knows the operator may have edited while the page was open.  *)
(*                                                                         *)
(* A text is Empty (or spaces: it is trimmed), a player's name, or         *)
(* anything else that was Typed.  The name is written as the player's      *)
(* slug, which is also what a page shows for a player who has been removed.*)
(* Without the script an edit leaves the slug the page was rendered with.  *)
(***************************************************************************)
EXTENDS Integers, FiniteSets

CONSTANTS
    Award, Slot,
    Slug,           \* NHL players
    Position,
    Eligible,       \* awardEligiblePosition
    PlayerLists,    \* the nhl_players the operator may put in the file
    Empty, Typed,
    NoPick          \* no row for an award

ASSUME AwardsAssumption ==
    /\ IsFiniteSet(Slot) /\ Slot # {}
    /\ Eligible \in [Award -> Position]
    /\ \A l \in PlayerLists : DOMAIN l \subseteq Slug /\ l \in [DOMAIN l -> Position]
    /\ Empty \notin Slug /\ Typed \notin Slug /\ Empty # Typed
    /\ NoPick \notin [Slot -> Slug]

Text == Slug \cup {Empty, Typed}
SlotEntry == [text : Text, slug : Slug \cup {Empty}]

VARIABLES
    players,        \* the NHL players and their positions, as loaded
    picks,          \* the player's saved finalists of each award
    awardsPage,     \* the page in the browser: whether the script runs, the
                    \* players embedded in it, and the slots
    awardsAt,       \* where the player is: away, editing, or waiting
    awardsAnswer    \* the last answer

awardsVars == <<players, picks, awardsPage, awardsAt, awardsAnswer>>

(***************************************************************************)
(* The server                                                              *)
(***************************************************************************)
IsValidAwardFinalist(l, a, s) == s \in DOMAIN l /\ l[s] = Eligible[a]

IsDuplicate(slots, i) ==
    slots[i].slug # Empty /\ \E j \in Slot \ {i} : slots[j].slug = slots[i].slug

(* awardSlotInvalid: a name that resolves to no eligible player, or a      *)
(* player picked twice.                                                    *)
SlotInvalid(l, a, slots, i) ==
    \/ slots[i].text # Empty /\ ~IsValidAwardFinalist(l, a, slots[i].slug)
    \/ IsDuplicate(slots, i)

HasInvalidSlot(l, form) ==
    \E a \in Award : \E i \in Slot : SlotInvalid(l, a, form[a], i)

(* awardIsIncomplete goes by the texts ...                                 *)
IsIncomplete(slots) ==
    /\ \E i \in Slot : slots[i].text # Empty
    /\ \E i \in Slot : slots[i].text = Empty

HasIncompleteAward(form) == \E a \in Award : IsIncomplete(form[a])

(* ... and awardFinalistSlugsToSave by the slugs.                          *)
ToSave(l, a, slots) == \A i \in Slot : IsValidAwardFinalist(l, a, slots[i].slug)

SlugsOf(slots) == [i \in Slot |-> slots[i].slug]

(***************************************************************************)
(* The page                                                                *)
(***************************************************************************)
EmptySlot == [text |-> Empty, slug |-> Empty]

(* awardFinalistSlots, displayNameForSlug.                                 *)
SavedSlots(a) ==
    [i \in Slot |-> IF picks[a] = NoPick THEN EmptySlot
                    ELSE [text |-> picks[a][i], slug |-> picks[a][i]]]

(* Mutant: the slug survives an edit of the name.                          *)
EditedKeepsSlug(page, entry, text) == [text |-> text, slug |-> entry.slug]

(* A keystroke: clearSlug, where the script runs.                          *)
Edited(page, entry, text) ==
    [text |-> text, slug |-> IF page.script THEN Empty ELSE entry.slug]

NoPlayers == [s \in {} |-> s]
NoSlots == [a \in Award |-> [i \in Slot |-> EmptySlot]]
NoForm == [script |-> FALSE, options |-> NoPlayers, slots |-> NoSlots]

(***************************************************************************)
(* Behaviour                                                               *)
(***************************************************************************)
AwardsInit ==
    /\ players \in PlayerLists
    /\ picks = [a \in Award |-> NoPick]
    /\ awardsPage = NoForm
    /\ awardsAt = "away"
    /\ awardsAnswer = "none"

(* GET /predict/awards, in a browser with or without the script.           *)
OpenAwards ==
    /\ awardsAt # "posted"
    /\ \E script \in BOOLEAN :
        awardsPage' = [script |-> script, options |-> players,
                       slots |-> [a \in Award |-> SavedSlots(a)]]
    /\ awardsAt' = "editing"
    /\ awardsAnswer' = "none"
    /\ UNCHANGED <<players, picks>>

EditText(a, i, text) ==
    /\ awardsAt = "editing"
    /\ awardsPage' = [awardsPage EXCEPT !.slots[a][i] = Edited(awardsPage, @, text)]
    /\ UNCHANGED <<players, picks, awardsAt, awardsAnswer>>

(* selectOption, from the list of the award's position in the page.        *)
ChooseFinalist(a, i, s) ==
    /\ awardsAt = "editing"
    /\ awardsPage.script
    /\ IsValidAwardFinalist(awardsPage.options, a, s)
    /\ awardsPage' = [awardsPage EXCEPT !.slots[a][i] = [text |-> s, slug |-> s]]
    /\ UNCHANGED <<players, picks, awardsAt, awardsAnswer>>

PostAwards ==
    /\ awardsAt = "editing"
    /\ awardsAt' = "posted"
    /\ awardsAnswer' = "none"
    /\ UNCHANGED <<players, picks, awardsPage>>

(* renderRejectedAwardsPick: the slots again, over today's players.        *)
ShowAgain ==
    /\ awardsPage' = [awardsPage EXCEPT !.options = players]
    /\ awardsAt' = "editing"

(* One invalid slot turns the whole form down.                             *)
RejectAwards ==
    /\ awardsAt = "posted"
    /\ HasInvalidSlot(players, awardsPage.slots)
    /\ ShowAgain
    /\ awardsAnswer' = "invalid"
    /\ UNCHANGED <<players, picks>>

(* The complete awards are saved in one call; if another is half-entered   *)
(* the page comes back, otherwise the player is sent on.                   *)
SaveAwards ==
    /\ awardsAt = "posted"
    /\ ~HasInvalidSlot(players, awardsPage.slots)
    /\ picks' = [a \in Award |-> IF ToSave(players, a, awardsPage.slots[a])
                                   THEN SlugsOf(awardsPage.slots[a]) ELSE picks[a]]
    /\ \/ /\ HasIncompleteAward(awardsPage.slots)
          /\ ShowAgain
          /\ awardsAnswer' = "incomplete"
       \/ /\ ~HasIncompleteAward(awardsPage.slots)
          /\ awardsPage' = NoForm
          /\ awardsAt' = "away"
          /\ awardsAnswer' = "saved"
    /\ UNCHANGED players

AwardsSaveFails ==
    /\ awardsAt = "posted"
    /\ ~HasInvalidSlot(players, awardsPage.slots)
    /\ awardsPage' = NoForm
    /\ awardsAt' = "away"
    /\ awardsAnswer' = "failed"
    /\ UNCHANGED <<players, picks>>

(* The operator restarts the server on other players; a form under way is  *)
(* lost and the player goes back to the page.                              *)
EditPlayers(l) ==
    /\ players' = l
    /\ awardsAt' = IF awardsAt = "posted" THEN "editing" ELSE awardsAt
    /\ UNCHANGED <<picks, awardsPage, awardsAnswer>>

AwardsNext ==
    \/ OpenAwards
    \/ \E a \in Award, i \in Slot : \/ EditText(a, i, Empty)
                                    \/ EditText(a, i, Typed)
                                    \/ \E s \in Slug : ChooseFinalist(a, i, s)
    \/ PostAwards
    \/ RejectAwards
    \/ SaveAwards
    \/ AwardsSaveFails
    \/ \E l \in PlayerLists : EditPlayers(l)

AwardsSpec == AwardsInit /\ [][AwardsNext]_awardsVars

(***************************************************************************)
(* Properties                                                              *)
(***************************************************************************)
AwardsTypeOK ==
    /\ players \in PlayerLists
    /\ picks \in [Award -> [Slot -> Slug] \cup {NoPick}]
    /\ awardsPage \in [script : BOOLEAN, options : PlayerLists \cup {NoPlayers},
                       slots : [Award -> [Slot -> SlotEntry]]]
    /\ awardsAt \in {"away", "editing", "posted"}
    /\ awardsAnswer \in {"none", "invalid", "incomplete", "saved", "failed"}

(* The inductive invariant: under the script a slug is always the one of   *)
(* the name on the page, and a form under way has no answer yet.           *)
AwardsIInv ==
    /\ AwardsTypeOK
    /\ awardsAt = "posted" => awardsAnswer = "none"
    /\ awardsPage.script =>
        \A a \in Award, i \in Slot :
            awardsPage.slots[a][i].slug \in {Empty, awardsPage.slots[a][i].text}

(* What the player reads in an award's slots.                              *)
Shown(a) == [i \in Slot |-> awardsPage.slots[a][i].text]

(* The finalists are different players of the award's position.            *)
Finalists(l, a, trio) ==
    /\ \A i, j \in Slot : i # j => trio[i] # trio[j]
    /\ \A i \in Slot : IsValidAwardFinalist(l, a, trio[i])

(* When the server has taken a form sent with the script, every award with *)
(* a name in each slot is on file exactly as the page showed it and no     *)
(* other award has changed, one that is flagged as incomplete least of     *)
(* all; when it has not, nothing has changed.  From any page, what gets on *)
(* file are different players of the award's position as the server knows  *)
(* them, not as the page did.                                              *)
AwardsSavedAsShown ==
    [][/\ \A a \in Award :
            picks'[a] # picks[a] => /\ awardsAt = "posted"
                                    /\ Finalists(players, a, picks'[a])
       /\ awardsAt = "posted" /\ awardsPage.script
            /\ awardsAnswer' \in {"saved", "incomplete"}
            => \A a \in Award :
                 IF \A i \in Slot : Shown(a)[i] # Empty
                   THEN picks'[a] = Shown(a) ELSE picks'[a] = picks[a]
      ]_awardsVars
=============================================================================
