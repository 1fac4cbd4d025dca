------------------------------- MODULE MCStore -------------------------------
(***************************************************************************)
(* Instances of Store for TLC.                                             *)
(***************************************************************************)
EXTENDS Store, TLC

CONSTANTS c1, c2, divA, winA, pickX, pickY

Clients == {c1, c2}

Symmetric == Permutations(Clients) \cup Permutations({pickX, pickY})

SavingOps == {"savePick", "saveBatch"}

(* A bootstrapped file; one that an edit left without the entries the      *)
(* server writes, one that has only one of them, in front of a section     *)
(* kept by hand; one that does not load for its shape, one for a key that  *)
(* stands twice; and nothing at all.                                       *)
Sections == {"season", "no season", "players", "results", "not a list"}

Bootstrapped == <<"season", "login_codes", "predictions">>
Rebuilt == <<"no season", "login_codes", "predictions">>

Edits == {Bootstrapped, <<"players", "results">>,
          <<"results", "predictions", "players">>,
          <<"not a list", "login_codes", "predictions">>,
          <<"players", "predictions", "players">>, NotAMapping}

NoEdits == {Bootstrapped}
NotLoadable == {"not a list"}
=============================================================================
