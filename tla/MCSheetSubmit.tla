----------------------------- MODULE MCSheetSubmit -----------------------------
(***************************************************************************)
(* Instances of SheetSubmit for TLC.                                       *)
(***************************************************************************)
EXTENDS SheetSubmit, TLC

CONSTANTS d1, d2, m1, m2, c1, c2

Clients == {c1, c2}
Divisions == {d1, d2}
Matchups == {m1, m2}

Symmetric == Permutations(Clients) \cup Permutations(Divisions)

In(phase, deadline, upcoming, matchups) ==
    [phase |-> phase, deadline |-> deadline, upcoming |-> upcoming,
     matchups |-> matchups]

Of(deadline, upcoming, matchups) ==
    In("before_season", deadline, upcoming, matchups)

InPlayoffs(deadline, upcoming, matchups) ==
    In("playoffs", deadline, upcoming, matchups)

(* Every kind of set: open, locked by its flag, locked for want of         *)
(* matchups whatever its flag says, with a damaged deadline or phase,      *)
(* listed but not pickable, and not listed at all.                         *)
AllKinds == {"cup", "divisions", "awards", "r1", "r2", "stub"}

FilesOfAllKinds ==
    {[cup |-> Of(2, FALSE, <<>>), divisions |-> Of(2, FALSE, <<>>),
      awards |-> Of(1, FALSE, <<>>), r1 |-> InPlayoffs(2, TRUE, <<m1>>),
      r2 |-> InPlayoffs(2, FALSE, <<>>), stub |-> Of(2, FALSE, <<>>)],
     [cup |-> Of(Unparseable, FALSE, <<>>),
      divisions |-> In("unknown", 1, FALSE, <<>>),
      r2 |-> InPlayoffs(2, TRUE, <<m2, m1>>)]}

(* The divisions form alone, submitted twice at once.                      *)
Raced == {"divisions"}

FilesOfRaced == {[divisions |-> Of(2, FALSE, <<>>)]}

(* A form saved as a whole and one saved series by series.                 *)
Both == {"divisions", "r2"}

FilesOfBoth ==
    {[divisions |-> Of(2, FALSE, <<>>), r2 |-> InPlayoffs(2, FALSE, <<m1, m2>>)]}
=============================================================================
