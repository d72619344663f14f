------------------------ MODULE MCSessionPersistence ------------------------
(***************************************************************************)
(* SessionPersistence for TLC: two sessions, which share the index only    *)
(* and are alike.                                                          *)
(***************************************************************************)
EXTENDS SessionPersistence, TLC

CONSTANTS s1, s2

TwoAlike == Permutations({s1, s2})
=============================================================================
