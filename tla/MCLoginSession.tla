---------------------------- MODULE MCLoginSession ----------------------------
(***************************************************************************)
(* Instances of LoginSession for TLC.                                      *)
(***************************************************************************)
EXTENDS LoginSession, TLC

CONSTANTS t1, t2

Tabs == {t1, t2}

Symmetric == Permutations(Tabs)
=============================================================================
