---------------------------- MODULE MCTokenCache ----------------------------
(***************************************************************************)
(* TokenCache for TLC: two sessions, a token that lives 4 seconds and is   *)
(* renewed when it has less than 2 left.                                   *)
(***************************************************************************)
EXTENDS TokenCache

CONSTANTS c1, c2
TwoCallers == {c1, c2}
=============================================================================
